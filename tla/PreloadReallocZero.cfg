\* A program that calls realloc(ptr, 0).
SPECIFICATION Spec
CONSTANTS
    NULL = NULL
    Threads = {t1}
    MaxDepth = 1
    exe = exe
    libc = libc
    plugin = plugin
    Modules = {libc, plugin}
    Base <- OneModule
    MaxFrames = 1
    Addrs = {a1, a2, a3}
    ProgramFns = {"malloc", "realloc"}
    ExternalFns = {}
    MayFail = FALSE
    MaxCalls = 2
INVARIANT FreesAreOfTraced
