\* Processes of up to two threads: the program, its child and its grandchild
\* or second child.  The child may wait for
\* ever for a mutex that the other thread held then: the system may stop.
SPECIFICATION Spec
CHECK_DEADLOCK FALSE
CONSTANTS
    NULL = NULL
    p0 = p0
    p1 = p1
    p2 = p2
    main = main
    other = other
    Root = p0
    Main = main
    Procs = {p0, p1, p2}
    Threads = {main, other}
    ForkDepth = 2
    MaxCalls = 4
INVARIANTS
    CloseSucceeds
    
    
    ExecPathFirst
    ChildIsSilent
PROPERTIES
    ReaderEnds
    ChildLeavesFifo
