\* Two threads that call while the library is initialized, and a dlsym() that
\* calls calloc().  That nothing stops for ever is StartupEnds.
SPECIFICATION Spec
CHECK_DEADLOCK FALSE
CONSTANTS
    NULL = NULL
    Threads = {t1, t2}
    ProgramFns = {"calloc", "malloc", "realloc", "free"}
    DlsymCalls = {"calloc"}
    MaxCalls = 3
INVARIANTS
    LibcBeforeCall
    KeyBeforeUse
PROPERTY StartupEnds
