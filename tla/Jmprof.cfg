\* Two threads that allocate and free, every interleaving of the two under weak
\* fairness of those inside the library, and jmprof-ip reading while they write.
SPECIFICATION MCSpec
CONSTANTS
    NULL = NULL
    Threads = {t1, t2}
    MaxDepth = 1
    libc = libc
    a1 = a1
    a2 = a2
    Modules = {libc}
    Base <- OneModule
    MaxFrames = 1
    Addrs = {a1, a2}
    ProgramFns = {"malloc", "free"}
    ExternalFns = {}
    MayFail = FALSE
    MaxCalls = 3
    Vdso = {}
    Keys <- MCKeys
    Hash <- MCHash
    HASH_INITIAL_NUM_BUCKETS = 2
    HASH_BKT_CAPACITY_THRESH = 3
    MAX_REGION_COUNT = 1
    MaxRegions = 1
    MaxLag = 1
    MinCalls = 2
INVARIANTS
    OwnedIsTraced
    EveryLeakIsReported
    OnlyLeaksAreReported
    LogIsReadable
PROPERTIES
    ImplementsTrace
    ImplementsProfiler
    CallsReturn
