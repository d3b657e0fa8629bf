-------------------------------- MODULE Jmprof -------------------------------
(***************************************************************************)
(* bin/jmprof as a whole: the profiled program with libjmprof.so in it, as *)
(* Preload models it thread by thread, and jmprof-ip, which reads the log  *)
(* through the FIFO at its own pace and reports what leaks.  The program   *)
(* ends by exit() in one thread, while the others go on, or is killed.     *)
(***************************************************************************)
EXTENDS Preload

CONSTANTS Keys, Hash, HASH_INITIAL_NUM_BUCKETS, HASH_BKT_CAPACITY_THRESH,
          MAX_REGION_COUNT, Vdso,
          MaxRegions  \* bound on the regions the library reports

ASSUME JmprofAssumption == /\ Keys = Addrs \cup {NULL}
                           /\ Hash \in [Keys -> Nat]
                           /\ HASH_INITIAL_NUM_BUCKETS \in Nat \ {0}
                           /\ HASH_BKT_CAPACITY_THRESH \in Nat \ {0}
                           /\ {MAX_REGION_COUNT, MaxRegions} \subseteq Nat

VARIABLES log,     \* what reached the FIFO
          closed,  \* is it closed for writing?
          over,    \* has the process ended?
          atExit,  \* for the properties: the blocks when the logging ended
          pos, entries, table, alloc_ctx, stats, regions, reported, status

readerVars == <<pos, entries, table, alloc_ctx, stats, regions, reported, status>>

exitVars == <<closed, over, atExit>>

jmprofVars == <<vars, log, exitVars, readerVars>>

NoThread(op) == [op |-> op, addr |-> NULL, thr |-> NULL]

P == INSTANCE Profiler WITH heap <- live, exiting <- ~is_initialized

\* jm_tracker_init_(), before any call is logged.
Open == /\ log = <<>>
        /\ log' = <<NoThread("x")>>
        /\ UNCHANGED <<vars, exitVars, readerVars>>

Alive == log # <<>> /\ ~over /\ UNCHANGED <<over, readerVars>>

\* What a thread writes after the FIFO was closed does not reach jmprof-ip.
Written == log' = IF closed \/ fifo' = fifo THEN log ELSE Append(log, ShownLog'[Len(fifo')])

Calling(x) == Call(x) /\ Alive /\ UNCHANGED <<log, closed, atExit>>

Running(x) == Step(x) /\ Alive /\ Written /\ UNCHANGED <<closed, atExit>>

Run == \E x \in Activations : Calling(x) \/ Running(x)

(***************************************************************************)
(* exit(): jm_preload_deinit_() and jm_tracker_deinit_() in one thread,    *)
(* while the others go on from where they are.  The one that exits calls,  *)
(* too: fopen() of /proc/self/maps allocates.                              *)
(***************************************************************************)
Blocks == [held |-> owned, inHand |-> {Holds(x) : x \in Activations}]

Deinit == /\ is_initialized /\ Alive
          /\ \E t \in Threads : \A x \in Activations : x[1] = t => At(x, "idle")
          /\ is_initialized' = FALSE
          /\ guard' = [t \in Threads |-> {}]
          /\ atExit' = Blocks
          /\ UNCHANGED <<frame, trackerVars, unwind_mutex, heapVars, calls, log, closed>>

Region == /\ ~is_initialized /\ ~closed /\ Alive
          /\ tracker_fd_mutex = NULL
          /\ Cardinality(P!Reported) < MaxRegions
          /\ log' = Append(log, NoThread("r"))
          /\ UNCHANGED <<vars, closed, atExit>>

Close_First == /\ ~closed /\ Alive
               /\ closed' = TRUE
               /\ UNCHANGED <<vars, log, atExit>>

Close == /\ ~is_initialized /\ ~closed /\ Alive
         /\ closed' = TRUE
         /\ UNCHANGED <<vars, log, atExit>>

\* The process ends after its exit handlers, or is killed, wherever its threads are.
End == /\ log # <<>> /\ ~over
       /\ over' = TRUE /\ closed' = TRUE
       /\ atExit' = IF is_initialized THEN Blocks ELSE atExit
       /\ UNCHANGED <<vars, log, readerVars>>

Read == UNCHANGED <<vars, log, exitVars>> /\ P!Reader

Ended == over /\ UNCHANGED jmprofVars

JmprofInit == /\ Init
              /\ log = <<>> /\ closed = FALSE /\ over = FALSE
              /\ atExit = [held |-> {}, inHand |-> {}]
              /\ P!ReaderInit

JmprofNext == Open \/ Run \/ Deinit \/ Region \/ Close \/ End \/ Read \/ Ended

JmprofSpec == JmprofInit /\ [][JmprofNext]_jmprofVars

\* A thread inside the library is scheduled; whether it calls is up to it, and so
\* is the end of the program.
Fairness == \A x \in Activations : WF_jmprofVars(Running(x))

FairSpec == JmprofSpec /\ Fairness

\* The two processes together are the abstract profiler: the threads write only
\* logs that HeapTrace allows, in which a backtrace fits its bound, also those that
\* exit() finds in the middle of a record, and the reader is proved correct for
\* these (preload.c:134-234, 268-278, tracker.c:165-178, interpret.c:200-387).
ImplementsProfiler == P!Spec

LeakKeys == {entries[i].key : i \in P!Leaks}

\* A block that the program held when the logging ended is in the report, whatever
\* the other threads allocated, freed and wrote while exit() ran, and however far
\* behind the reader was (preload.c:139, 277, interpret.c:292).  One that is
\* allocated later is not logged.
EveryLeakIsReported == status = "done" => atExit.held \subseteq LeakKeys

\* A block in the report is one that the program held then, or that a call was
\* allocating or freeing (preload.c:190, 277, interpret.c:343-349).
OnlyLeaksAreReported ==
    status = "done" /\ P!Unexpanded => LeakKeys \subseteq atExit.held \cup atExit.inHand

\* No order in which the threads and the exit handler write makes jmprof-ip fail,
\* but for a log with too many frames or regions: it finds the block of each 'f'
\* and of each frame (interpret.c:229, 329, 349, 375).
LogIsReadable ==
    P!Unexpanded => \/ status \in {"reading", "done"}
                    \/ status = "undefined" /\ (P!LongTrace \/ P!ManyRegions)

\* Every call of an interposed function returns, unless the program ends first: the
\* mutexes, the guards and the dirty flag never make it hang (tracker.c:104, :138).
CallsReturn == \A x \in Activations : ~At(x, "idle") ~> At(x, "idle") \/ over
==============================================================================
