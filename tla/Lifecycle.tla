------------------------------ MODULE Lifecycle -------------------------------
(***************************************************************************)
(* libjmprof.so from the first interposed call to the end of the process:  *)
(* jm_preload_init() and jm_preload_deinit() of src/preload.c, which run   *)
(* jm_tracker_init() and jm_tracker_deinit() of src/tracker.c, and the     *)
(* three fork handlers, in a tree of processes that inherit the FIFO.      *)
(*                                                                         *)
(* A logged call is one record here: Preload has what happens inside it.   *)
(* The program creates its threads after the constructors have run.        *)
(***************************************************************************)
EXTENDS Integers, Sequences, FiniteSets

CONSTANTS Procs,      \* the processes that there can be
          Root,       \* the one that bin/jmprof started
          Threads,
          Main,       \* the thread that starts a process
          NULL,
          ForkDepth,  \* bound: the generations of children
          MaxCalls    \* bound on the calls of one behaviour

ASSUME LifecycleAssumption == /\ Root \in Procs /\ Main \in Threads
                              /\ NULL \notin Threads /\ IsFiniteSet(Threads)
                              /\ ForkDepth \in Nat /\ MaxCalls \in Nat

Onces == {"preload_init", "tracker_init", "preload_deinit", "tracker_deinit"}

VARIABLES proc,    \* the variables of libjmprof.so in each process
          at,      \* where each thread of each process is
          log,     \* what was passed to write(): who, what and where it went
          reader,  \* jmprof-ip: "opening", "reading" or "eof"
          calls    \* how many calls were made

vars == <<proc, at, log, reader, calls>>

\* gen  the generation          libc  are the libc_* pointers set?
\* is_initialized, tracker_fd, tracker_fd_mutex: the variables of that name
\* keys the pthread keys        once  the pthread_once_t that ran
\* forked  for the properties: has this process called fork() itself?
Loaded == [gen |-> 0, forked |-> FALSE, libc |-> FALSE, is_initialized |-> TRUE, keys |-> "none",
           tracker_fd |-> "none", tracker_fd_mutex |-> NULL, once |-> {}]

\* pc    the next step              op      the record to write
\* next  where to go after it       caller  where an allocation returns to
\* ret   where jm_preload_init() or jm_preload_deinit() returns to
Absent == [pc |-> "absent", op |-> "x", next |-> "idle", ret |-> "idle", caller |-> "idle"]

Sites == Procs \X Threads

At(s, label) == at[s].pc = label

Goto(s, label) == at' = [at EXCEPT ![s].pc = label]

Fprintf(s, op, next) ==
    at' = [at EXCEPT ![s].pc = "fprintf_lock", ![s].op = op, ![s].next = next]

Set(s, field, value) == proc' = [proc EXCEPT ![s[1]][field] = value]

Done(s, once) == once \in proc[s[1]].once

\* pthread_once(): the caller runs the function if nobody did.
OnceBegin(s, from, once, body, next) ==
    /\ At(s, from)
    /\ Goto(s, IF Done(s, once) THEN next ELSE body)
    /\ UNCHANGED <<proc, log, reader, calls>>

(***************************************************************************)
(* jm_preload_init() and jm_tracker_init().                                *)
(***************************************************************************)
PreloadInitOnce(s) == OnceBegin(s, "preload_init_once", "preload_init",
                                "preload_init_", "tracker_init_once")

PreloadInit(s) ==
    /\ At(s, "preload_init_")
    /\ proc' = [proc EXCEPT ![s[1]].libc = TRUE, ![s[1]].keys = "created",
                            ![s[1]].is_initialized = TRUE,
                            ![s[1]].once = @ \cup {"preload_init"}]
    /\ Goto(s, "tracker_init_once")
    /\ UNCHANGED <<log, reader, calls>>

TrackerInitOnce_Always(s) == /\ At(s, "tracker_init_once")
                             /\ Goto(s, "tracker_init_")
                             /\ UNCHANGED <<proc, log, reader, calls>>

TrackerInitOnce(s) ==
    /\ At(s, "tracker_init_once")
    /\ Goto(s, IF Done(s, "tracker_init") THEN at[s].ret ELSE "tracker_init_")
    /\ UNCHANGED <<proc, log, reader, calls>>

\* open() of the FIFO returns when jmprof-ip opens it too.
TrackerInit(s) ==
    /\ At(s, "tracker_init_")
    /\ reader # "eof"
    /\ reader' = "reading"
    /\ proc' = [proc EXCEPT ![s[1]].tracker_fd = "open",
                            ![s[1]].once = @ \cup {"tracker_init"}]
    /\ Fprintf(s, "x", at[s].ret)
    /\ UNCHANGED <<log, calls>>

(***************************************************************************)
(* jm_tracker_fprintf(), and a logged call.                                *)
(***************************************************************************)
FprintfLock(s) ==
    /\ At(s, "fprintf_lock")
    /\ proc[s[1]].tracker_fd_mutex = NULL
    /\ Set(s, "tracker_fd_mutex", s[2])
    /\ Goto(s, "fprintf_write")
    /\ UNCHANGED <<log, reader, calls>>

FprintfWrite(s) ==
    /\ At(s, "fprintf_write")
    /\ log' = Append(log, [proc |-> s[1], op |-> at[s].op, fd |-> proc[s[1]].tracker_fd])
    /\ Set(s, "tracker_fd_mutex", NULL)
    /\ Goto(s, at[s].next)
    /\ UNCHANGED <<reader, calls>>

\* The keys are not asked: pthread_getspecific() of none is NULL.
Check(s) ==
    /\ At(s, "check")
    /\ IF proc[s[1]].is_initialized THEN Fprintf(s, "a", at[s].caller)
                                       ELSE Goto(s, at[s].caller)
    /\ UNCHANGED <<proc, log, reader, calls>>

(***************************************************************************)
(* The fork handlers.  The child has the one thread that called fork() and *)
(* a copy of everything else, the owner of the mutex included.             *)
(***************************************************************************)
ForkPrepare(s) ==
    /\ At(s, "fork_prepare")
    /\ proc' = [proc EXCEPT ![s[1]].is_initialized = FALSE, ![s[1]].forked = TRUE]
    /\ Goto(s, "fork")
    /\ UNCHANGED <<log, reader, calls>>

Fork(s) ==
    /\ At(s, "fork")
    /\ \E q \in Procs :
           /\ \A t \in Threads : At(<<q, t>>, "absent")
           /\ proc' = [proc EXCEPT ![q] = [proc[s[1]] EXCEPT !.gen = @ + 1,
                                                              !.forked = FALSE]]
           /\ at' = [at EXCEPT ![s].pc = "fork_parent", ![<<q, s[2]>>].pc = "fork_child"]
    /\ UNCHANGED <<log, reader, calls>>

\* fork() failed: the parent's handler is called all the same.
ForkFailed(s) == /\ At(s, "fork")
                 /\ Goto(s, "fork_parent")
                 /\ UNCHANGED <<proc, log, reader, calls>>

ForkParent(s) ==
    /\ At(s, "fork_parent")
    /\ Set(s, "is_initialized", TRUE)
    /\ Goto(s, "idle")
    /\ UNCHANGED <<log, reader, calls>>

ForkChild_KeepFifo(s) ==
    /\ At(s, "fork_child")
    /\ Set(s, "is_initialized", FALSE)
    /\ Goto(s, "idle")
    /\ UNCHANGED <<log, reader, calls>>

ForkChild_Parent(s) ==
    /\ At(s, "fork_child")
    /\ Set(s, "is_initialized", TRUE)
    /\ Goto(s, "idle")
    /\ UNCHANGED <<log, reader, calls>>

ForkChild(s) ==
    /\ At(s, "fork_child")
    /\ at' = [at EXCEPT ![s].pc = "preload_deinit_once", ![s].ret = "idle"]
    /\ UNCHANGED <<proc, log, reader, calls>>

(***************************************************************************)
(* jm_preload_deinit() and jm_tracker_deinit().                            *)
(***************************************************************************)
PreloadDeinitOnce(s) == OnceBegin(s, "preload_deinit_once", "preload_deinit",
                                  "preload_deinit_", "tracker_deinit_once")

PreloadDeinit_KeepLogging(s) ==
    /\ At(s, "preload_deinit_")
    /\ proc' = [proc EXCEPT ![s[1]].keys = "deleted",
                            ![s[1]].once = @ \cup {"preload_deinit"}]
    /\ Goto(s, "tracker_deinit_once")
    /\ UNCHANGED <<log, reader, calls>>

PreloadDeinit(s) ==
    /\ At(s, "preload_deinit_")
    /\ proc' = [proc EXCEPT ![s[1]].keys = "deleted", ![s[1]].is_initialized = FALSE,
                            ![s[1]].once = @ \cup {"preload_deinit"}]
    /\ Goto(s, "tracker_deinit_once")
    /\ UNCHANGED <<log, reader, calls>>

TrackerDeinitOnce_Always(s) ==
    /\ At(s, "tracker_deinit_once")
    /\ Goto(s, "tracker_deinit_")
    /\ UNCHANGED <<proc, log, reader, calls>>

TrackerDeinitOnce(s) ==
    /\ At(s, "tracker_deinit_once")
    /\ Goto(s, IF Done(s, "tracker_deinit") THEN at[s].ret ELSE "tracker_deinit_")
    /\ UNCHANGED <<proc, log, reader, calls>>

\* A heap region is reported, or none is left, or there was no FIFO.
TrackerDeinit(s) ==
    /\ At(s, "tracker_deinit_")
    /\ IF proc[s[1]].tracker_fd = "none"
       THEN Goto(s, at[s].ret) /\ proc' = [proc EXCEPT ![s[1]].once = @ \cup {"tracker_deinit"}]
       ELSE /\ Fprintf(s, "r", "tracker_close") \/ Goto(s, "tracker_close")
            /\ UNCHANGED proc
    /\ UNCHANGED <<log, reader, calls>>

TrackerClose(s) ==
    /\ At(s, "tracker_close")
    /\ proc' = [proc EXCEPT ![s[1]].tracker_fd = "closed",
                            ![s[1]].once = @ \cup {"tracker_deinit"}]
    /\ Goto(s, at[s].ret)
    /\ UNCHANGED <<log, reader, calls>>

\* After the atexit() handler the destructor runs jm_preload_deinit() again.
Destructor(s) ==
    /\ At(s, "destructor")
    /\ at' = [at EXCEPT ![s].pc = "preload_deinit_once", ![s].ret = "exit"]
    /\ UNCHANGED <<proc, log, reader, calls>>

(***************************************************************************)
(* The program.  Its process may also be killed, without any handler.      *)
(***************************************************************************)
Alive(p) == \E t \in Threads : ~At(<<p, t>>, "absent") /\ ~At(<<p, t>>, "ended")

End(p) == /\ at' = [s \in Sites |-> IF s[1] = p /\ ~At(s, "absent")
                                    THEN [Absent EXCEPT !.pc = "ended"] ELSE at[s]]
          /\ proc' = [proc EXCEPT ![p].tracker_fd = IF @ = "open" THEN "closed" ELSE @]
          /\ UNCHANGED <<log, reader>>

Exited(s) == At(s, "exit") /\ End(s[1]) /\ UNCHANGED calls

\* An allocation by the program; by an earlier constructor, before that of
\* libjmprof.so runs; or by an exit handler that runs after jm_preload_deinit().
Malloc(s) ==
    /\ At(s, "idle") \/ At(s, "constructor") \/ At(s, "destructor")
    /\ at' = [at EXCEPT ![s].caller = at[s].pc,
                        ![s].ret = "check",
                        ![s].pc = IF proc[s[1]].libc THEN "check" ELSE "preload_init_once"]

StartFork(s) == At(s, "idle") /\ proc[s[1]].gen < ForkDepth /\ Goto(s, "fork_prepare")

\* exit() by one thread; the others go on until the process ends.
Exit(s) == /\ At(s, "idle")
           /\ \A t \in Threads : at[<<s[1], t>>].ret \notin {"destructor", "exit"}
           /\ at' = [at EXCEPT ![s].pc = "preload_deinit_once", ![s].ret = "destructor"]

CreateThread(s) == /\ At(s, "idle")
                   /\ \E t \in Threads : /\ At(<<s[1], t>>, "absent")
                                         /\ at' = [at EXCEPT ![<<s[1], t>>].pc = "idle"]

Call(s) == /\ calls < MaxCalls
           /\ calls' = calls + 1
           /\ Malloc(s) \/ StartFork(s) \/ Exit(s) \/ CreateThread(s)
           /\ UNCHANGED <<proc, log, reader>>

Constructor(s) ==
    /\ At(s, "constructor")
    /\ at' = [at EXCEPT ![s].pc = "preload_init_once", ![s].ret = "idle"]
    /\ UNCHANGED <<proc, log, reader, calls>>

Kill(p) == Alive(p) /\ calls < MaxCalls /\ calls' = calls + 1 /\ End(p)

(***************************************************************************)
(* jmprof-ip meets the end of the file when nobody has the FIFO open.      *)
(***************************************************************************)
ReaderEOF == /\ reader = "reading"
             /\ \A p \in Procs : proc[p].tracker_fd # "open"
             /\ reader' = "eof"
             /\ UNCHANGED <<proc, at, log, calls>>

Init == /\ proc = [p \in Procs |-> Loaded]
        /\ at = [s \in Sites |-> IF s = <<Root, Main>>
                                 THEN [Absent EXCEPT !.pc = "constructor"] ELSE Absent]
        /\ log = <<>> /\ reader = "opening" /\ calls = 0

Step(s) == \/ Constructor(s)       \/ Destructor(s)     \/ Exited(s)
           \/ PreloadInitOnce(s)   \/ PreloadInit(s)
           \/ TrackerInitOnce(s)   \/ TrackerInit(s)
           \/ FprintfLock(s)       \/ FprintfWrite(s)   \/ Check(s)
           \/ ForkPrepare(s)       \/ Fork(s)           \/ ForkFailed(s)
           \/ ForkParent(s)        \/ ForkChild(s)
           \/ PreloadDeinitOnce(s) \/ PreloadDeinit(s)
           \/ TrackerDeinitOnce(s) \/ TrackerDeinit(s)  \/ TrackerClose(s)

\* The program may be busy elsewhere, or done.
Rest == /\ \A s \in Sites : at[s].pc \in {"idle", "absent", "ended"}
        /\ UNCHANGED vars

Next == \/ \E s \in Sites : Call(s) \/ Step(s)
        \/ \E p \in Procs : Kill(p)
        \/ ReaderEOF \/ Rest

\* What libjmprof.so began is scheduled, and so is jmprof-ip; calls are not.
Spec == /\ Init /\ [][Next]_vars
        /\ \A s \in Sites : WF_vars(Step(s))
        /\ WF_vars(ReaderEOF)

\* No process of the tree has created a thread.
OneThread == \A p \in Procs : Cardinality({t \in Threads : ~At(<<p, t>>, "absent")}) <= 1

\* assert(close(tracker_fd) == 0), though jm_preload_deinit() is called by the
\* atexit() handler, by the destructor and by the child's fork handler.
CloseSucceeds ==
    OneThread => \A s \in Sites : At(s, "tracker_close") => proc[s[1]].tracker_fd = "open"

\* A child of the program that called fork() in its turn: jm_preload_fork_parent_()
\* then enables the library again, whose keys and FIFO the child has given up.
Reforked(p) == p # Root /\ proc[p].forked

\* A logged call has a key to guard it: a call that libunwind makes is stopped.
\* Two kinds of call have none, and no other: one of a child that has forked,
\* and one of a thread that was already past the check of is_initialized when
\* another thread ran jm_preload_deinit_().
GuardExists ==
    \A s \in Sites : At(s, "fprintf_lock") /\ at[s].op = "a"
                         => \/ proc[s[1]].keys = "created"
                            \/ Reforked(s[1])
                            \/ ~OneThread /\ Done(s, "preload_deinit")

\* Nothing is written into a descriptor that libjmprof.so has not opened.  What
\* is written after it was closed, and by then may go into a file of the
\* program, is of a child that has forked, or of another thread during exit().
RecordsReachFifo ==
    \A i \in DOMAIN log :
        \/ log[i].fd = "open"
        \/ log[i].fd = "closed" /\ (Reforked(log[i].proc) \/ ~OneThread)

\* jm_tracker_init_() runs once, in the first process: its record is the first
\* of the log and has no other like it, even if an allocation came earlier.
ExecPathFirst == \A i \in DOMAIN log : log[i].op = "x" <=> i = 1

\* No call of a child reaches the FIFO: its blocks are not those of the program
\* under test.  It may have been forked while another thread left its own
\* fork(), and then logs, but into a descriptor that it has closed.
ChildIsSilent ==
    \A i \in DOMAIN log : log[i].proc # Root /\ log[i].fd = "open" => log[i].op = "r"

\* The profiler ends with the program, though a child of it still runs.
ReaderEnds == reader = "reading" /\ ~Alive(Root) /\ OneThread
                  ~> reader = "eof" \/ ~OneThread

\* A child gives the FIFO up, if nobody was writing when it was forked.
ChildLeavesFifo ==
    \A p \in Procs \ {Root} :
        (\E t \in Threads : At(<<p, t>>, "fork_child")) /\ proc[p].tracker_fd_mutex = NULL
            ~> proc[p].tracker_fd # "open"
==============================================================================
