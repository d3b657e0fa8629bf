\* The report against every log of the program: a bucket of three elements is
\* expanded, one of two is not.
SPECIFICATION MCSpec
CONSTANTS
    NULL = NULL
    a1 = a1
    a2 = a2
    Threads = {t1}
    Addrs = {a1, a2}
    Modules = {libc, vdso}
    Vdso = {vdso}
    Keys <- MCKeys
    Hash <- MCHash
    HASH_INITIAL_NUM_BUCKETS = 2
    HASH_BKT_CAPACITY_THRESH = 3
    MAX_BACKTRACE_COUNT = 2
    MAX_REGION_COUNT = 1
    MaxFrames = 2
    MaxRegions = 2
    MaxMods = 1
    MaxLag = 1
    MaxLog = 7
    MayFail = FALSE
INVARIANTS
    LeaksAreTheBlocksNotFreed
    LeakTraceIsItsBacktrace
    FailsOnlyByOverflow
    NoLeakMissed
    TableHoldsEntries
    SummaryAgrees
