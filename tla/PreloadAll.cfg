\* Two threads, every interposed function and fork, and any of them may fail.
SPECIFICATION Spec
CONSTANTS
    NULL = NULL
    Threads = {t1, t2}
    MaxDepth = 1
    exe = exe
    libc = libc
    plugin = plugin
    Modules = {libc, plugin}
    Base <- OneModule
    MaxFrames = 1
    Addrs = {a1, a2}
    ProgramFns = {"malloc", "calloc", "realloc", "free", "dlopen", "dlclose", "fork"}
    ExternalFns = {}
    MayFail = TRUE
    MaxCalls = 3
SYMMETRY Symmetry
INVARIANTS
    TypeOK
    BacktraceOfItsBlock
    TimestampsOrdered
    SizeOfOwnBlock
    ModulesReported
