\* Two threads, a FIFO of one record and two signals.  If the library is not
\* preloaded, jmprof-ip waits for ever: the system may stop.
SPECIFICATION FairSpec
CHECK_DEADLOCK FALSE
CONSTANTS
    NoThread = NoThread
    Threads = {t1, t2}
    Capacity = 1
    MaxRecords = 3
    MaxSignals = 2
INVARIANTS
    ReportIsComplete
    NothingLeft
PROPERTIES
    LoggedCallReturns
    OpenReturns
    LauncherEnds
