\* The unwinder allocates with the function that the program calls, in one of three
\* threads that allocate or open a plugin.
SPECIFICATION Spec
CONSTANTS
    NULL = NULL
    Threads = {t1, t2, t3}
    MaxDepth = 2
    exe = exe
    libc = libc
    plugin = plugin
    Modules = {libc, plugin}
    Base <- OneModule
    MaxFrames = 1
    Addrs = {a1, a2, a3}
    ProgramFns = {"malloc", "dlopen"}
    ExternalFns = {"malloc"}
    MayFail = FALSE
    MaxCalls = 4
SYMMETRY Symmetry
INVARIANT NoDeadlock
