\* A module opened by dlopen() after the first calls.
SPECIFICATION Spec
CONSTANTS
    NULL = NULL
    Threads = {t1}
    MaxDepth = 1
    exe = exe
    libc = libc
    plugin = plugin
    Modules = {libc, plugin}
    Base <- OneModule
    MaxFrames = 1
    Addrs = {a1, a2, a3}
    ProgramFns = {"malloc", "dlopen"}
    ExternalFns = {}
    MayFail = FALSE
    MaxCalls = 4
INVARIANT BacktraceResolvable
