\* A program that runs out of memory.
SPECIFICATION MCSpec
CONSTANTS
    NULL = NULL
    a1 = a1
    a2 = a2
    Threads = {t1}
    Addrs = {a1, a2}
    Modules = {libc, vdso}
    Vdso = {vdso}
    Keys <- MCKeys
    Hash <- MCHash
    HASH_INITIAL_NUM_BUCKETS = 2
    HASH_BKT_CAPACITY_THRESH = 10
    MAX_BACKTRACE_COUNT = 2
    MAX_REGION_COUNT = 1
    MaxFrames = 1
    MaxRegions = 1
    MaxMods = 1
    MaxLag = 3
    MaxLog = 3
    MayFail = TRUE
INVARIANT BacktraceHasContext
