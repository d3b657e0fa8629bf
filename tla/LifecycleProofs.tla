--------------------------- MODULE LifecycleProofs ----------------------------
(***************************************************************************)
(* Proofs about Lifecycle.  A thread's place in the constructors, the      *)
(* destructors and the fork handlers says which of its process's variables *)
(* it finds set; the invariant gives this for every place, and a step of a *)
(* thread is judged by what it leaves behind (Guarantee).                  *)
(***************************************************************************)
EXTENDS Lifecycle, SequenceTheorems, FiniteSetTheorems, TLAPS

\* The types, as finite sets of labels.

Pcs == {"absent", "ended", "idle", "constructor", "destructor", "exit", "check",
        "preload_init_once", "preload_init_", "tracker_init_once", "tracker_init_",
        "fprintf_lock", "fprintf_write", "fork_prepare", "fork", "fork_parent", "fork_child",
        "preload_deinit_once", "preload_deinit_", "tracker_deinit_once", "tracker_deinit_",
        "tracker_close"}

Frames == [pc : Pcs, op : {"x", "a", "r"},
           next : {"idle", "constructor", "destructor", "check", "exit", "tracker_close"},
           ret : {"idle", "check", "destructor", "exit"},
           caller : {"idle", "constructor", "destructor"}]

Variables == [gen : Nat, forked : BOOLEAN, libc : BOOLEAN, is_initialized : BOOLEAN,
              keys : {"none", "created", "deleted"},
              tracker_fd : {"none", "open", "closed"},
              tracker_fd_mutex : Threads \cup {NULL}, once : SUBSET Onces]

Records == [proc : Procs, op : {"x", "a", "r"}, fd : {"none", "open", "closed"}]

TypeInv == /\ at \in [Sites -> Frames]
           /\ proc \in [Procs -> Variables]
           /\ log \in Seq(Records)

\* In what follows f is at[s] of a thread and w is proc[s[1]].
Writing(f) == f.pc \in {"fprintf_lock", "fprintf_write"}

\* jm_preload_init() has run in the process, or in the one it was forked from.
Ready(w) == /\ {"preload_init", "tracker_init"} \subseteq w.once
            /\ w.libc /\ w.tracker_fd # "none"
            /\ w.keys = "created" <=> "preload_deinit" \notin w.once
            /\ w.tracker_fd = "open" => "tracker_deinit" \notin w.once
            /\ "tracker_deinit" \in w.once => "preload_deinit" \in w.once

InitPcs == {"constructor", "preload_init_once", "preload_init_",
            "tracker_init_once", "tracker_init_"}

\* Before the first record there is one thread, and it initialises the library.
Booting(f, w) ==
    \/ f.pc = "ended"
    \/ /\ f.pc \in InitPcs
       /\ w.once \subseteq {"preload_init"}
       /\ f.pc = "constructor" => ~w.libc
       /\ w.once = {"preload_init"} => w.libc /\ w.keys = "created"
       /\ f.pc \in {"tracker_init_once", "tracker_init_"} => w.once = {"preload_init"}
       /\ f.ret \in {"idle", "check"}
    \/ /\ Writing(f) /\ f.op = "x" /\ f.next \in {"idle", "check"}
       /\ Ready(w) /\ w.tracker_fd = "open" /\ "preload_deinit" \notin w.once

\* From then on nobody does.
Running(f, w) == /\ Ready(w)
                 /\ f.pc \notin {"preload_init_", "tracker_init_"}
                 /\ Writing(f) => f.op # "x"
                 /\ f.pc # "ended" => "tracker_deinit" \in w.once \/ w.tracker_fd = "open"

\* The part of jm_tracker_deinit() that is run under pthread_once().
Closing(f) == \/ f.pc \in {"tracker_deinit_", "tracker_close"}
              \/ Writing(f) /\ f.op = "r"

Deiniting(f) == \/ Closing(f)
                \/ f.pc \in {"preload_deinit_once", "preload_deinit_", "tracker_deinit_once"}

DeinitOK(f, w) == /\ Writing(f) => (f.op = "r" <=> f.next = "tracker_close")
                  /\ Closing(f) \/ f.pc = "tracker_deinit_once" => "preload_deinit" \in w.once

\* A child has the FIFO open only until its fork handler has returned.
ChildOK(f, w) == /\ w.gen > 0
                 /\ w.tracker_fd = "open" => Deiniting(f) \/ f.pc = "fork_child"

StartInv == \A s \in Sites : ~At(s, "absent") =>
                IF log = <<>> THEN s = <<Root, Main>> /\ Booting(at[s], proc[s[1]])
                              ELSE Running(at[s], proc[s[1]])

DeinitInv == \A s \in Sites : DeinitOK(at[s], proc[s[1]])

ChildInv == /\ \A s \in Sites : ~At(s, "absent") /\ s[1] # Root => ChildOK(at[s], proc[s[1]])
            /\ \A s \in Sites : s[1] = Root => ~At(s, "fork_child")
            /\ ~At(<<Root, Main>>, "absent")

Inv == TypeInv /\ StartInv /\ DeinitInv /\ ChildInv

\* What holds while no process of the tree has a second thread.
Single == \A s, u \in Sites : ~At(s, "absent") /\ ~At(u, "absent") /\ s[1] = u[1] => s = u

\* jm_tracker_deinit() is run once.
CloseOK(f, w) == Closing(f) => "tracker_deinit" \notin w.once

\* The thread is in exit(), or in a call from a destructor of the program.
Exiting(f) == \/ f.pc \in {"destructor", "exit", "ended"}
              \/ f.pc = "check" /\ f.caller = "destructor"
              \/ Deiniting(f)

ForkPcs == {"fork_prepare", "fork", "fork_parent"}

\* After jm_preload_deinit() the program only exits, and logs no more calls; nor
\* does a child that does not fork.
ExitOK(p, f, w) ==
    /\ p = Root /\ Deiniting(f) => f.ret \in {"destructor", "exit"}
    /\ p = Root /\ f.pc \in ForkPcs => "preload_deinit" \notin w.once
    /\ f.pc \in {"fork", "fork_parent"} => w.forked
    /\ f.pc = "fork" => ~w.is_initialized
    /\ f.pc # "absent" /\ "preload_deinit" \in w.once /\ (p = Root \/ ~w.forked)
           => /\ ~w.is_initialized
              /\ ~(Writing(f) /\ f.op = "a")
              /\ p = Root => Exiting(f)

CloseInv == Single => \A s \in Sites : CloseOK(at[s], proc[s[1]])

ExitInv == Single => \A s \in Sites : ExitOK(s[1], at[s], proc[s[1]])

\* Where the record r was written.
RecordOK(r) == \/ r.fd = "open"
               \/ r.fd = "closed" /\ (Reforked(r.proc) \/ ~Single)

RecordsAreOpen == \A r \in Records : (\E i \in DOMAIN log : log[i] = r) => RecordOK(r)

\* A process that does not exist yet has not forked.
NoneForked == \A p \in Procs : proc[p].forked => \E t \in Threads : ~At(<<p, t>>, "absent")

(***************************************************************************)
(* Most steps change the locals of one thread and the variables of its     *)
(* process.                                                                *)
(***************************************************************************)
Local(s) == \/ Malloc(s) /\ UNCHANGED <<proc, log>>
            \/ StartFork(s) /\ UNCHANGED <<proc, log>>
            \/ Exit(s) /\ UNCHANGED <<proc, log>>
            \/ Constructor(s)       \/ Destructor(s)
            \/ PreloadInitOnce(s)   \/ PreloadInit(s)
            \/ TrackerInitOnce(s)   \/ TrackerInit(s)
            \/ FprintfLock(s)       \/ FprintfWrite(s)   \/ Check(s)
            \/ ForkPrepare(s)       \/ ForkFailed(s)
            \/ ForkParent(s)        \/ ForkChild(s)
            \/ PreloadDeinitOnce(s) \/ PreloadDeinit(s)
            \/ TrackerDeinitOnce(s) \/ TrackerDeinit(s)  \/ TrackerClose(s)

Written(s) == [proc |-> s[1], op |-> at[s].op, fd |-> proc[s[1]].tracker_fd]

\* What a step of s guarantees that leaves it with f and its process with w.
Guarantee(s, f, w) ==
    /\ at[s].pc \notin {"absent", "ended"} /\ f.pc \notin {"absent", "ended", "fork_child"}
    /\ w.gen = proc[s[1]].gen /\ proc[s[1]].once \subseteq w.once
    /\ proc[s[1]].forked => w.forked
    /\ \/ log' = log
       \/ At(s, "fprintf_write") /\ log' = Append(log, Written(s))
    /\ IF log' = <<>> THEN Booting(f, w) ELSE Running(f, w)
    /\ DeinitOK(f, w)
    /\ s[1] # Root => /\ w.tracker_fd = "open" => proc[s[1]].tracker_fd = "open"
                      /\ ChildOK(f, w)
    /\ CloseOK(at[s], proc[s[1]]) => CloseOK(f, w)
    /\ ExitOK(s[1], at[s], proc[s[1]]) => ExitOK(s[1], f, w)

Moves(s, f, w) == /\ at' = [at EXCEPT ![s] = f]
                  /\ proc' = [proc EXCEPT ![s[1]] = w]
                  /\ Guarantee(s, f, w)

\* Every step of one thread is such a move: one case for each action.
LEMMA LocalMoves ==
  ASSUME Inv, NEW s \in Sites, Local(s)
  PROVE  \E f \in Frames, w \in Variables : Moves(s, f, w)
<1>t. /\ at \in [Sites -> Frames] /\ at[s] \in Frames
      /\ proc \in [Procs -> Variables] /\ s[1] \in Procs /\ s[2] \in Threads
      /\ proc[s[1]] \in Variables /\ log \in Seq(Records)
  BY DEF Inv, TypeInv, Sites
<1>i. /\ ~At(s, "absent") => IF log = <<>> THEN s = <<Root, Main>> /\ Booting(at[s], proc[s[1]])
                                          ELSE Running(at[s], proc[s[1]])
      /\ DeinitOK(at[s], proc[s[1]])
      /\ ~At(s, "absent") /\ s[1] # Root => ChildOK(at[s], proc[s[1]])
      /\ s[1] = Root => ~At(s, "fork_child")
  BY DEF Inv, StartInv, DeinitInv, ChildInv
<1> USE DEF Guarantee, Booting, Running, Ready, Writing, Closing, Deiniting, DeinitOK,
            ChildOK, CloseOK, ExitOK, Exiting, ForkPcs, InitPcs, Frames, Variables, Onces, At
<1>1. CASE Malloc(s) /\ UNCHANGED <<proc, log>>
  <2> DEFINE p == IF proc[s[1]].libc THEN "check" ELSE "preload_init_once"
             f == [at[s] EXCEPT !.caller = at[s].pc, !.ret = "check", !.pc = p]
             w == proc[s[1]]
  <2>0. p \in Pcs \ {"absent"}
    BY DEF Pcs
  <2>2. at' = [at EXCEPT ![s] = f] /\ proc' = [proc EXCEPT ![s[1]] = w]
    BY <1>t, <1>1 DEF Malloc
  <2>3. Guarantee(s, f, w)
    BY <1>t, <1>i, <1>1, LifecycleAssumption DEF Malloc
  <2> HIDE DEF p
  <2>1. f \in Frames /\ w \in Variables
    BY <1>t, <1>1, <2>0 DEF Malloc, Pcs
  <2> HIDE DEF f, w, Guarantee, Frames, Variables
  <2> QED BY <2>1, <2>2, <2>3 DEF Moves
<1>2. CASE StartFork(s) /\ UNCHANGED <<proc, log>>
  <2> DEFINE f == [at[s] EXCEPT !.pc = "fork_prepare"]
             w == proc[s[1]]
  <2>2. at' = [at EXCEPT ![s] = f] /\ proc' = [proc EXCEPT ![s[1]] = w]
    BY <1>t, <1>2 DEF StartFork, Goto
  <2>3. Guarantee(s, f, w)
    BY <1>t, <1>i, <1>2, LifecycleAssumption DEF StartFork
  <2>1. f \in Frames /\ w \in Variables
    BY <1>t, <1>2 DEF StartFork, Pcs
  <2> HIDE DEF f, w, Guarantee, Frames, Variables
  <2> QED BY <2>1, <2>2, <2>3 DEF Moves
<1>3. CASE Exit(s) /\ UNCHANGED <<proc, log>>
  <2> DEFINE f == [at[s] EXCEPT !.pc = "preload_deinit_once", !.ret = "destructor"]
             w == proc[s[1]]
  <2>2. at' = [at EXCEPT ![s] = f] /\ proc' = [proc EXCEPT ![s[1]] = w]
    BY <1>t, <1>3 DEF Exit
  <2>3. Guarantee(s, f, w)
    BY <1>t, <1>i, <1>3, LifecycleAssumption DEF Exit
  <2>1. f \in Frames /\ w \in Variables
    BY <1>t, <1>3 DEF Exit, Pcs
  <2> HIDE DEF f, w, Guarantee, Frames, Variables
  <2> QED BY <2>1, <2>2, <2>3 DEF Moves
<1>4. CASE Constructor(s)
  <2> DEFINE f == [at[s] EXCEPT !.pc = "preload_init_once", !.ret = "idle"]
             w == proc[s[1]]
  <2>2. at' = [at EXCEPT ![s] = f] /\ proc' = [proc EXCEPT ![s[1]] = w]
    BY <1>t, <1>4 DEF Constructor
  <2>3. Guarantee(s, f, w)
    BY <1>t, <1>i, <1>4, LifecycleAssumption DEF Constructor
  <2>1. f \in Frames /\ w \in Variables
    BY <1>t, <1>4 DEF Constructor, Pcs
  <2> HIDE DEF f, w, Guarantee, Frames, Variables
  <2> QED BY <2>1, <2>2, <2>3 DEF Moves
<1>5. CASE Destructor(s)
  <2> DEFINE f == [at[s] EXCEPT !.pc = "preload_deinit_once", !.ret = "exit"]
             w == proc[s[1]]
  <2>2. at' = [at EXCEPT ![s] = f] /\ proc' = [proc EXCEPT ![s[1]] = w]
    BY <1>t, <1>5 DEF Destructor
  <2>3. Guarantee(s, f, w)
    BY <1>t, <1>i, <1>5, LifecycleAssumption DEF Destructor
  <2>1. f \in Frames /\ w \in Variables
    BY <1>t, <1>5 DEF Destructor, Pcs
  <2> HIDE DEF f, w, Guarantee, Frames, Variables
  <2> QED BY <2>1, <2>2, <2>3 DEF Moves
<1>6. CASE PreloadInitOnce(s)
  <2> DEFINE p == IF Done(s, "preload_init") THEN "tracker_init_once" ELSE "preload_init_"
             f == [at[s] EXCEPT !.pc = p]
             w == proc[s[1]]
  <2>0. p \in Pcs \ {"absent"}
    BY <1>t DEF Done, Pcs
  <2>2. at' = [at EXCEPT ![s] = f] /\ proc' = [proc EXCEPT ![s[1]] = w]
    BY <1>t, <1>6 DEF PreloadInitOnce, OnceBegin, Goto
  <2>3. Guarantee(s, f, w)
    <3>1. CASE Done(s, "preload_init")
      BY <3>1, <1>t, <1>i, <1>6, LifecycleAssumption DEF PreloadInitOnce, OnceBegin, Done
    <3>2. CASE ~Done(s, "preload_init")
      BY <3>2, <1>t, <1>i, <1>6, LifecycleAssumption DEF PreloadInitOnce, OnceBegin, Done
    <3> QED BY <3>1, <3>2
  <2> HIDE DEF p
  <2>1. f \in Frames /\ w \in Variables
    BY <1>t, <2>0
  <2> HIDE DEF f, w, Guarantee, Frames, Variables
  <2> QED BY <2>1, <2>2, <2>3 DEF Moves
<1>7. CASE PreloadInit(s)
  <2> DEFINE o == proc[s[1]].once \cup {"preload_init"}
             f == [at[s] EXCEPT !.pc = "tracker_init_once"]
             w == [proc[s[1]] EXCEPT !.libc = TRUE, !.keys = "created", !.is_initialized = TRUE, !.once = o]
  <2>0. o \in SUBSET Onces
    BY <1>t DEF Done, Pcs
  <2>2. at' = [at EXCEPT ![s] = f] /\ proc' = [proc EXCEPT ![s[1]] = w]
    BY <1>t, <1>7 DEF PreloadInit, Goto
  <2>3. Guarantee(s, f, w)
    <3>1. /\ at[s].pc = "preload_init_" /\ log = <<>> /\ log' = <<>> /\ s[1] = Root
          /\ proc[s[1]].once \subseteq {"preload_init"} /\ at[s].ret \in {"idle", "check"}
      BY <1>t, <1>i, <1>7 DEF PreloadInit
    <3>2. /\ f.pc = "tracker_init_once" /\ f.ret = at[s].ret
          /\ w.once = {"preload_init"} /\ w.libc /\ w.keys = "created"
          /\ w.gen = proc[s[1]].gen /\ proc[s[1]].once \subseteq w.once
          /\ w.forked = proc[s[1]].forked
      BY <1>t, <3>1
    <3> HIDE DEF f, w
    <3> QED BY <3>1, <3>2
  <2> HIDE DEF o
  <2>1. f \in Frames /\ w \in Variables
    <3>1. f \in Frames
      BY <1>t, <1>7 DEF PreloadInit, Pcs
    <3>2. w \in Variables
      BY <1>t, <2>0
    <3> QED BY <3>1, <3>2
  <2> HIDE DEF f, w, Guarantee, Frames, Variables
  <2> QED BY <2>1, <2>2, <2>3 DEF Moves
<1>8. CASE TrackerInitOnce(s)
  <2> DEFINE p == IF Done(s, "tracker_init") THEN at[s].ret ELSE "tracker_init_"
             f == [at[s] EXCEPT !.pc = p]
             w == proc[s[1]]
  <2>0. p \in Pcs \ {"absent"}
    BY <1>t DEF Done, Pcs
  <2>2. at' = [at EXCEPT ![s] = f] /\ proc' = [proc EXCEPT ![s[1]] = w]
    BY <1>t, <1>8 DEF TrackerInitOnce, Goto
  <2>3. Guarantee(s, f, w)
    <3>1. CASE Done(s, "tracker_init")
      BY <3>1, <1>t, <1>i, <1>8, LifecycleAssumption DEF TrackerInitOnce, Done
    <3>2. CASE ~Done(s, "tracker_init")
      BY <3>2, <1>t, <1>i, <1>8, LifecycleAssumption DEF TrackerInitOnce, Done
    <3> QED BY <3>1, <3>2
  <2> HIDE DEF p
  <2>1. f \in Frames /\ w \in Variables
    BY <1>t, <2>0
  <2> HIDE DEF f, w, Guarantee, Frames, Variables
  <2> QED BY <2>1, <2>2, <2>3 DEF Moves
<1>9. CASE TrackerInit(s)
  <2> DEFINE o == proc[s[1]].once \cup {"tracker_init"}
             f == [at[s] EXCEPT !.pc = "fprintf_lock", !.op = "x", !.next = at[s].ret]
             w == [proc[s[1]] EXCEPT !.tracker_fd = "open", !.once = o]
  <2>0. o \in SUBSET Onces
    BY <1>t DEF Done, Pcs
  <2>2. at' = [at EXCEPT ![s] = f] /\ proc' = [proc EXCEPT ![s[1]] = w]
    BY <1>t, <1>9 DEF TrackerInit, Fprintf
  <2>3. Guarantee(s, f, w)
    BY <1>t, <1>i, <1>9, LifecycleAssumption DEF TrackerInit
  <2> HIDE DEF o
  <2>1. f \in Frames
    BY <1>t, <1>9 DEF TrackerInit, Pcs
  <2>4. w \in Variables
    BY <1>t, <2>0
  <2> HIDE DEF f, w, Guarantee, Frames, Variables
  <2> QED BY <2>1, <2>2, <2>3, <2>4 DEF Moves
<1>10. CASE FprintfLock(s)
  <2> DEFINE f == [at[s] EXCEPT !.pc = "fprintf_write"]
             w == [proc[s[1]] EXCEPT !.tracker_fd_mutex = s[2]]
  <2>2. at' = [at EXCEPT ![s] = f] /\ proc' = [proc EXCEPT ![s[1]] = w]
    BY <1>t, <1>10 DEF FprintfLock, Goto, Set
  <2>3. Guarantee(s, f, w)
    BY <1>t, <1>i, <1>10, LifecycleAssumption DEF FprintfLock
  <2>1. f \in Frames /\ w \in Variables
    BY <1>t, <1>10 DEF FprintfLock, Pcs
  <2> HIDE DEF f, w, Guarantee, Frames, Variables
  <2> QED BY <2>1, <2>2, <2>3 DEF Moves
<1>11. CASE FprintfWrite(s)
  <2> DEFINE f == [at[s] EXCEPT !.pc = at[s].next]
             w == [proc[s[1]] EXCEPT !.tracker_fd_mutex = NULL]
  <2>2. at' = [at EXCEPT ![s] = f] /\ proc' = [proc EXCEPT ![s[1]] = w]
    BY <1>t, <1>11 DEF FprintfWrite, Goto, Set
  <2>a. Written(s) \in Records
    BY <1>t DEF Written, Records
  <2>b. Append(log, Written(s)) # <<>>
    BY <1>t, <2>a, AppendProperties, EmptySeq
  <2>w. log' = Append(log, Written(s)) /\ log' # <<>>
    BY <1>11, <2>b DEF FprintfWrite, Written
  <2>3. Guarantee(s, f, w)
    BY <1>t, <1>i, <1>11, <2>w, LifecycleAssumption DEF FprintfWrite
  <2>1. f \in Frames /\ w \in Variables
    BY <1>t, <1>11 DEF FprintfWrite, Pcs
  <2> HIDE DEF f, w, Guarantee, Frames, Variables
  <2> QED BY <2>1, <2>2, <2>3 DEF Moves
<1>12. CASE Check(s)
  <2>1. CASE proc[s[1]].is_initialized
    <3> DEFINE f == [at[s] EXCEPT !.pc = "fprintf_lock", !.op = "a", !.next = at[s].caller]
    <3>1. f \in Frames
      BY ZenonT(40), <1>t DEF Pcs
    <3>2. at' = [at EXCEPT ![s] = f] /\ proc' = [proc EXCEPT ![s[1]] = proc[s[1]]]
      BY <1>t, <1>12, <2>1 DEF Check, Fprintf
    <3>3. Guarantee(s, f, proc[s[1]])
      BY <1>t, <1>i, <1>12, <2>1 DEF Check
    <3> QED BY ZenonT(40), <1>t, <3>1, <3>2, <3>3 DEF Moves
  <2>2. CASE ~proc[s[1]].is_initialized
    <3> DEFINE f == [at[s] EXCEPT !.pc = at[s].caller]
    <3>1. f \in Frames
      BY <1>t DEF Pcs
    <3>2. at' = [at EXCEPT ![s] = f] /\ proc' = [proc EXCEPT ![s[1]] = proc[s[1]]]
      BY <1>t, <1>12, <2>2 DEF Check, Goto
    <3>3. Guarantee(s, f, proc[s[1]])
      BY <1>t, <1>i, <1>12, <2>2 DEF Check
    <3> QED BY <1>t, <3>1, <3>2, <3>3 DEF Moves
  <2> QED BY <2>1, <2>2
<1>13. CASE ForkPrepare(s)
  <2> DEFINE f == [at[s] EXCEPT !.pc = "fork"]
             w == [proc[s[1]] EXCEPT !.is_initialized = FALSE, !.forked = TRUE]
  <2>2. at' = [at EXCEPT ![s] = f] /\ proc' = [proc EXCEPT ![s[1]] = w]
    BY <1>t, <1>13 DEF ForkPrepare, Goto
  <2>3. Guarantee(s, f, w)
    BY <1>t, <1>i, <1>13, LifecycleAssumption DEF ForkPrepare
  <2>1. f \in Frames /\ w \in Variables
    BY <1>t, <1>13 DEF ForkPrepare, Pcs
  <2> HIDE DEF f, w, Guarantee, Frames, Variables
  <2> QED BY <2>1, <2>2, <2>3 DEF Moves
<1>14. CASE ForkFailed(s)
  <2> DEFINE f == [at[s] EXCEPT !.pc = "fork_parent"]
             w == proc[s[1]]
  <2>2. at' = [at EXCEPT ![s] = f] /\ proc' = [proc EXCEPT ![s[1]] = w]
    BY <1>t, <1>14 DEF ForkFailed, Goto
  <2>3. Guarantee(s, f, w)
    BY <1>t, <1>i, <1>14, LifecycleAssumption DEF ForkFailed
  <2>1. f \in Frames /\ w \in Variables
    BY <1>t, <1>14 DEF ForkFailed, Pcs
  <2> HIDE DEF f, w, Guarantee, Frames, Variables
  <2> QED BY <2>1, <2>2, <2>3 DEF Moves
<1>15. CASE ForkParent(s)
  <2> DEFINE f == [at[s] EXCEPT !.pc = "idle"]
             w == [proc[s[1]] EXCEPT !.is_initialized = TRUE]
  <2>2. at' = [at EXCEPT ![s] = f] /\ proc' = [proc EXCEPT ![s[1]] = w]
    BY <1>t, <1>15 DEF ForkParent, Goto, Set
  <2>3. Guarantee(s, f, w)
    BY <1>t, <1>i, <1>15, LifecycleAssumption DEF ForkParent
  <2>1. f \in Frames /\ w \in Variables
    BY <1>t, <1>15 DEF ForkParent, Pcs
  <2> HIDE DEF f, w, Guarantee, Frames, Variables
  <2> QED BY <2>1, <2>2, <2>3 DEF Moves
<1>16. CASE ForkChild(s)
  <2> DEFINE f == [at[s] EXCEPT !.pc = "preload_deinit_once", !.ret = "idle"]
             w == proc[s[1]]
  <2>2. at' = [at EXCEPT ![s] = f] /\ proc' = [proc EXCEPT ![s[1]] = w]
    BY <1>t, <1>16 DEF ForkChild
  <2>3. Guarantee(s, f, w)
    BY <1>t, <1>i, <1>16, LifecycleAssumption DEF ForkChild
  <2>1. f \in Frames /\ w \in Variables
    BY <1>t, <1>16 DEF ForkChild, Pcs
  <2> HIDE DEF f, w, Guarantee, Frames, Variables
  <2> QED BY <2>1, <2>2, <2>3 DEF Moves
<1>17. CASE PreloadDeinitOnce(s)
  <2> DEFINE p == IF Done(s, "preload_deinit") THEN "tracker_deinit_once" ELSE "preload_deinit_"
             f == [at[s] EXCEPT !.pc = p]
             w == proc[s[1]]
  <2>0. p \in Pcs \ {"absent"}
    BY <1>t DEF Done, Pcs
  <2>2. at' = [at EXCEPT ![s] = f] /\ proc' = [proc EXCEPT ![s[1]] = w]
    BY <1>t, <1>17 DEF PreloadDeinitOnce, OnceBegin, Goto
  <2>3. Guarantee(s, f, w)
    BY <1>t, <1>i, <1>17, LifecycleAssumption DEF PreloadDeinitOnce, OnceBegin, Done
  <2> HIDE DEF p
  <2>1. f \in Frames /\ w \in Variables
    BY <1>t, <2>0
  <2> HIDE DEF f, w, Guarantee, Frames, Variables
  <2> QED BY <2>1, <2>2, <2>3 DEF Moves
<1>18. CASE PreloadDeinit(s)
  <2> DEFINE o == proc[s[1]].once \cup {"preload_deinit"}
             f == [at[s] EXCEPT !.pc = "tracker_deinit_once"]
             w == [proc[s[1]] EXCEPT !.keys = "deleted", !.is_initialized = FALSE, !.once = o]
  <2>0. o \in SUBSET Onces
    BY <1>t DEF Done, Pcs
  <2>2. at' = [at EXCEPT ![s] = f] /\ proc' = [proc EXCEPT ![s[1]] = w]
    BY <1>t, <1>18 DEF PreloadDeinit, Goto
  <2>3. Guarantee(s, f, w)
    BY <1>t, <1>i, <1>18, LifecycleAssumption DEF PreloadDeinit
  <2> HIDE DEF o
  <2>1. f \in Frames /\ w \in Variables
    <3>1. f \in Frames
      BY <1>t, <1>18 DEF PreloadDeinit, Pcs
    <3>2. w \in Variables
      BY <1>t, <2>0
    <3> QED BY <3>1, <3>2
  <2> HIDE DEF f, w, Guarantee, Frames, Variables
  <2> QED BY <2>1, <2>2, <2>3 DEF Moves
<1>19. CASE TrackerDeinitOnce(s)
  <2> DEFINE p == IF Done(s, "tracker_deinit") THEN at[s].ret ELSE "tracker_deinit_"
             f == [at[s] EXCEPT !.pc = p]
             w == proc[s[1]]
  <2>0. p \in Pcs \ {"absent"}
    BY <1>t DEF Done, Pcs
  <2>2. at' = [at EXCEPT ![s] = f] /\ proc' = [proc EXCEPT ![s[1]] = w]
    BY <1>t, <1>19 DEF TrackerDeinitOnce, Goto
  <2>3. Guarantee(s, f, w)
    BY <1>t, <1>i, <1>19, LifecycleAssumption DEF TrackerDeinitOnce, Done
  <2> HIDE DEF p
  <2>1. f \in Frames /\ w \in Variables
    BY <1>t, <2>0
  <2> HIDE DEF f, w, Guarantee, Frames, Variables
  <2> QED BY <2>1, <2>2, <2>3 DEF Moves
<1>20. CASE TrackerDeinit(s)
  <2>1. proc[s[1]].tracker_fd # "none"
    BY <1>t, <1>i, <1>20 DEF TrackerDeinit
  <2>2. CASE Fprintf(s, "r", "tracker_close") /\ UNCHANGED <<proc, log>>
    <3> DEFINE f == [at[s] EXCEPT !.pc = "fprintf_lock", !.op = "r", !.next = "tracker_close"]
    <3>1. f \in Frames
      BY ZenonT(40), <1>t DEF Pcs
    <3>2. at' = [at EXCEPT ![s] = f] /\ proc' = [proc EXCEPT ![s[1]] = proc[s[1]]]
      BY <1>t, <2>2 DEF Fprintf
    <3>3. Guarantee(s, f, proc[s[1]])
      BY <1>t, <1>i, <1>20, <2>2 DEF TrackerDeinit
    <3> QED BY ZenonT(40), <1>t, <3>1, <3>2, <3>3 DEF Moves
  <2>3. CASE Goto(s, "tracker_close") /\ UNCHANGED <<proc, log>>
    <3> DEFINE f == [at[s] EXCEPT !.pc = "tracker_close"]
    <3>1. f \in Frames
      BY <1>t DEF Pcs
    <3>2. at' = [at EXCEPT ![s] = f] /\ proc' = [proc EXCEPT ![s[1]] = proc[s[1]]]
      BY <1>t, <2>3 DEF Goto
    <3>3. Guarantee(s, f, proc[s[1]])
      BY <1>t, <1>i, <1>20, <2>3 DEF TrackerDeinit
    <3> QED BY <1>t, <3>1, <3>2, <3>3 DEF Moves
  <2> QED BY <1>20, <2>1, <2>2, <2>3 DEF TrackerDeinit
<1>21. CASE TrackerClose(s)
  <2> DEFINE o == proc[s[1]].once \cup {"tracker_deinit"}
             f == [at[s] EXCEPT !.pc = at[s].ret]
             w == [proc[s[1]] EXCEPT !.tracker_fd = "closed", !.once = o]
  <2>0. o \in SUBSET Onces
    BY <1>t DEF Done, Pcs
  <2>2. at' = [at EXCEPT ![s] = f] /\ proc' = [proc EXCEPT ![s[1]] = w]
    BY <1>t, <1>21 DEF TrackerClose, Goto
  <2>3. Guarantee(s, f, w)
    BY <1>t, <1>i, <1>21, LifecycleAssumption DEF TrackerClose
  <2> HIDE DEF o
  <2>1. f \in Frames /\ w \in Variables
    <3>1. f \in Frames
      BY <1>t, <1>21 DEF TrackerClose, Pcs
    <3>2. w \in Variables
      BY <1>t, <2>0
    <3> QED BY <3>1, <3>2
  <2> HIDE DEF f, w, Guarantee, Frames, Variables
  <2> QED BY <2>1, <2>2, <2>3 DEF Moves
<1> QED
  BY <1>1, <1>2, <1>3, <1>4, <1>5, <1>6, <1>7, <1>8, <1>9, <1>10, <1>11, <1>12, <1>13, <1>14,
     <1>15, <1>16, <1>17, <1>18, <1>19, <1>20, <1>21 DEF Local

(***************************************************************************)
(* The invariant.                                                          *)
(***************************************************************************)
SafeInv == Inv /\ CloseInv /\ ExecPathFirst /\ ChildIsSilent

LEMMA InvInit == Init => SafeInv
<1> SUFFICES ASSUME Init PROVE SafeInv
  OBVIOUS
<1> USE LifecycleAssumption
<1>1. /\ <<Root, Main>> \in Sites /\ log = <<>>
      /\ at[<<Root, Main>>] = [Absent EXCEPT !.pc = "constructor"]
      /\ \A s \in Sites : s # <<Root, Main>> => at[s] = Absent
      /\ \A p \in Procs : proc[p] = Loaded
  BY DEF Init, Sites
<1>2. [Absent EXCEPT !.pc = "constructor"] \in Frames /\ Absent \in Frames /\ Loaded \in Variables
  BY DEF Absent, Loaded, Frames, Variables, Pcs
<1>3. TypeInv
  <2>1. at \in [Sites -> Frames]
    BY <1>2 DEF Init
  <2>2. proc \in [Procs -> Variables]
    BY <1>2 DEF Init
  <2> QED BY <2>1, <2>2, <1>1, EmptySeq DEF TypeInv
<1>4. StartInv
  <2>1. Booting([Absent EXCEPT !.pc = "constructor"], Loaded)
    BY DEF Booting, InitPcs, Absent, Loaded
  <2>2. \A s \in Sites : s # <<Root, Main>> => At(s, "absent")
    BY <1>1 DEF At, Absent
  <2> QED BY <1>1, <2>1, <2>2 DEF StartInv
<1>5. DeinitInv
  BY <1>1 DEF DeinitInv, DeinitOK, Writing, Closing, Absent
<1>6. ChildInv
  BY <1>1 DEF ChildInv, Absent, At
<1>7. CloseInv
  BY <1>1 DEF CloseInv, CloseOK, Closing, Writing, Absent
<1>8. ExecPathFirst /\ ChildIsSilent
  BY <1>1, LenProperties, EmptySeq DEF ExecPathFirst, ChildIsSilent
<1> QED BY <1>3, <1>4, <1>5, <1>6, <1>7, <1>8 DEF SafeInv, Inv

\* What a step of s leaves to the other threads.
LEMMA LocalOthers ==
  ASSUME Inv, NEW s \in Sites, NEW f \in Frames, NEW w \in Variables, Moves(s, f, w)
  PROVE  /\ TypeInv'
         /\ at'[s] = f /\ proc'[s[1]] = w
         /\ \A u \in Sites : u # s => at'[u] = at[u]
         /\ \A p \in Procs : p # s[1] => proc'[p] = proc[p]
<1>1. s[1] \in Procs /\ at[s] \in Frames /\ proc[s[1]] \in Variables
  BY DEF Inv, TypeInv, Sites
<1>2. Written(s) \in Records
  BY <1>1 DEF Written, Records, Frames, Variables
<1>3. log' \in Seq(Records)
  BY <1>2, AppendProperties DEF Moves, Guarantee, Inv, TypeInv
<1> QED BY <1>1, <1>3 DEF Moves, Inv, TypeInv

LEMMA LocalInv ==
  ASSUME Inv, NEW s \in Sites, NEW f \in Frames, NEW w \in Variables, Moves(s, f, w)
  PROVE  Inv'
<1>1. /\ TypeInv'
      /\ at'[s] = f /\ proc'[s[1]] = w
      /\ \A u \in Sites : u # s => at'[u] = at[u]
      /\ \A p \in Procs : p # s[1] => proc'[p] = proc[p]
  BY LocalOthers
<1>g. Guarantee(s, f, w)
  BY DEF Moves
<1>t. s[1] \in Procs /\ at[s] \in Frames /\ proc[s[1]] \in Variables /\ log \in Seq(Records)
  BY DEF Inv, TypeInv, Sites
<1>l. log # <<>> => log' # <<>>
  <2>1. Written(s) \in Records
    BY <1>t DEF Written, Records, Frames, Variables
  <2>2. Append(log, Written(s)) # <<>>
    BY <1>t, <2>1, AppendProperties, EmptySeq
  <2> QED BY <1>g, <2>2 DEF Guarantee
<1>2. StartInv'
  <2> SUFFICES ASSUME NEW u \in Sites, ~At(u, "absent")'
               PROVE  IF log' = <<>> THEN u = <<Root, Main>> /\ Booting(at'[u], proc'[u[1]])
                                     ELSE Running(at'[u], proc'[u[1]])
    BY DEF StartInv
  <2>1. CASE u = s
    BY <1>1, <1>g, <1>l, <2>1 DEF Inv, StartInv, Guarantee, At
  <2>2. CASE u # s
    <3>1. at'[u] = at[u] /\ ~At(u, "absent") /\ u[1] \in Procs
      BY <1>1, <2>2 DEF At, Sites
    <3>2. log # <<>> /\ Running(at[u], proc[u[1]])
      BY <3>1, <2>2, <1>g DEF Inv, StartInv, Guarantee, At
    <3>3. CASE u[1] # s[1]
      BY <3>1, <3>2, <3>3, <1>1, <1>l
    <3>4. CASE u[1] = s[1]
      BY <3>1, <3>2, <3>4, <1>1, <1>l, <1>g DEF Guarantee, Running
    <3> QED BY <3>3, <3>4
  <2> QED BY <2>1, <2>2
<1>3. DeinitInv'
  <2> SUFFICES ASSUME NEW u \in Sites PROVE DeinitOK(at'[u], proc'[u[1]])
    BY DEF DeinitInv
  <2>1. u[1] \in Procs /\ DeinitOK(at[u], proc[u[1]])
    BY DEF Inv, DeinitInv, Sites
  <2> QED BY <1>1, <1>g, <2>1 DEF Guarantee, DeinitOK
<1>4. ChildInv'
  <2>1. ASSUME NEW u \in Sites, ~At(u, "absent")', u[1] # Root
        PROVE  ChildOK(at'[u], proc'[u[1]])
    <3>1. CASE u = s
      BY <1>1, <1>g, <3>1, <2>1 DEF Guarantee
    <3>2. CASE u # s
      <4>1. u[1] \in Procs /\ at'[u] = at[u] /\ ChildOK(at[u], proc[u[1]])
        BY <3>2, <1>1, <2>1 DEF Inv, ChildInv, Sites, At
      <4> QED BY <4>1, <1>1, <1>g, <2>1, <3>2 DEF ChildOK, Guarantee
    <3> QED BY <3>1, <3>2
  <2>2. ASSUME NEW u \in Sites, u[1] = Root PROVE ~At(u, "fork_child")'
    BY <1>1, <1>g, <2>2 DEF Inv, ChildInv, Guarantee, At
  <2>3. ~At(<<Root, Main>>, "absent")'
    BY <1>1, <1>g, LifecycleAssumption DEF Inv, ChildInv, Guarantee, At, Sites
  <2> QED BY <2>1, <2>2, <2>3 DEF ChildInv
<1> QED BY <1>1, <1>2, <1>3, <1>4 DEF Inv

\* Threads do not leave: what one thread may rely on it could before.
LEMMA LocalSingle ==
  ASSUME Inv, NEW s \in Sites, NEW f \in Frames, NEW w \in Variables, Moves(s, f, w), Single'
  PROVE  Single /\ \A u \in Sites : u # s /\ u[1] = s[1] => At(u, "absent")
<1>1. /\ at'[s] = f
      /\ \A u \in Sites : u # s => at'[u] = at[u]
  BY LocalOthers
<1>2. \A u \in Sites : At(u, "absent") <=> At(u, "absent")'
  BY <1>1 DEF Moves, Guarantee, At
<1>3. Single
  BY <1>2 DEF Single
<1> QED BY <1>3 DEF Single, Moves, Guarantee, At

LEMMA LocalClose ==
  ASSUME Inv, CloseInv, NEW s \in Sites, NEW f \in Frames, NEW w \in Variables, Moves(s, f, w)
  PROVE  CloseInv'
<1> SUFFICES ASSUME Single', NEW u \in Sites PROVE CloseOK(at'[u], proc'[u[1]])
  BY DEF CloseInv
<1>1. /\ at'[s] = f /\ proc'[s[1]] = w
      /\ \A v \in Sites : v # s => at'[v] = at[v]
      /\ \A p \in Procs : p # s[1] => proc'[p] = proc[p]
  BY LocalOthers
<1>2. Single /\ \A v \in Sites : v # s /\ v[1] = s[1] => At(v, "absent")
  BY LocalSingle
<1>3. \A v \in Sites : CloseOK(at[v], proc[v[1]])
  BY <1>2 DEF CloseInv
<1>4. CASE u = s
  BY <1>1, <1>3, <1>4 DEF Moves, Guarantee
<1>5. CASE u # s /\ u[1] = s[1]
  BY <1>1, <1>2, <1>5 DEF CloseOK, Closing, Writing, At
<1>6. CASE u[1] # s[1]
  BY <1>1, <1>3, <1>6 DEF Sites
<1> QED BY <1>4, <1>5, <1>6

\* The log grows by the record of a thread that is in jm_tracker_fprintf().
LEMMA LocalLog ==
  ASSUME Inv, ExecPathFirst, ChildIsSilent,
         NEW s \in Sites, NEW f \in Frames, NEW w \in Variables, Moves(s, f, w)
  PROVE  ExecPathFirst' /\ ChildIsSilent'
<1>t. s[1] \in Procs /\ at[s] \in Frames /\ proc[s[1]] \in Variables /\ log \in Seq(Records)
  BY DEF Inv, TypeInv, Sites
<1>1. CASE log' = log
  BY <1>1 DEF ExecPathFirst, ChildIsSilent
<1>2. CASE At(s, "fprintf_write") /\ log' = Append(log, Written(s))
  <2>1. Written(s) \in Records
    BY <1>t DEF Written, Records, Frames, Variables
  <2> DEFINE e == Written(s)
             n == Len(log)
  <2>2. e.proc = s[1] /\ e.op = at[s].op /\ e.fd = proc[s[1]].tracker_fd
    BY DEF Written
  <2>3. n \in Nat /\ DOMAIN log = 1..n /\ (log = <<>> <=> n = 0)
    BY <1>t, LenProperties, EmptySeq
  <2>4. DOMAIN log' = 1..(n+1) /\ log'[n+1] = e /\ \A i \in 1..n : log'[i] = log[i]
    BY <1>2, <1>t, <2>1, <2>3, AppendProperties, LenProperties
  <2>5. e.op = "x" <=> n = 0
    BY <1>2, <2>2, <2>3 DEF Inv, StartInv, At, Booting, Running, Writing, InitPcs
  <2>6. e.proc # Root /\ e.fd = "open" => e.op = "r"
    BY <1>2, <2>2 DEF Inv, ChildInv, ChildOK, Deiniting, Closing, Writing, At
  <2> HIDE DEF e, n
  <2>7. ExecPathFirst'
    BY <2>3, <2>4, <2>5 DEF ExecPathFirst
  <2>8. ChildIsSilent'
    BY <2>3, <2>4, <2>6 DEF ChildIsSilent
  <2> QED BY <2>7, <2>8
<1> QED BY <1>1, <1>2 DEF Moves, Guarantee

LEMMA LocalExit ==
  ASSUME Inv, ExitInv,
         NEW s \in Sites, NEW f \in Frames, NEW w \in Variables, Moves(s, f, w)
  PROVE  ExitInv'
<1> SUFFICES ASSUME Single', NEW u \in Sites PROVE ExitOK(u[1], at'[u], proc'[u[1]])
  BY DEF ExitInv
<1>1. /\ at'[s] = f /\ proc'[s[1]] = w
      /\ \A v \in Sites : v # s => at'[v] = at[v]
      /\ \A p \in Procs : p # s[1] => proc'[p] = proc[p]
  BY LocalOthers
<1>2. Single /\ \A v \in Sites : v # s /\ v[1] = s[1] => At(v, "absent")
  BY LocalSingle
<1>3. \A v \in Sites : ExitOK(v[1], at[v], proc[v[1]])
  BY <1>2 DEF ExitInv
<1>4. CASE u = s
  BY <1>1, <1>3, <1>4 DEF Moves, Guarantee
<1>5. CASE u # s /\ u[1] = s[1]
  BY <1>1, <1>2, <1>5 DEF ExitOK, Deiniting, Closing, Writing, ForkPcs, At
<1>6. CASE u[1] # s[1]
  BY <1>1, <1>3, <1>6 DEF Sites
<1> QED BY <1>4, <1>5, <1>6

\* A record goes where tracker_fd points: into the FIFO, or where it was.
LEMMA WriteOpen ==
  ASSUME Inv, CloseInv, ExitInv, NEW s \in Sites, Writing(at[s])
  PROVE  /\ RecordOK(Written(s))
         /\ at[s].op = "a" => \/ proc[s[1]].keys = "created"
                              \/ Reforked(s[1])
                              \/ ~Single /\ "preload_deinit" \in proc[s[1]].once
<1>1. at[s] \in Frames /\ proc[s[1]] \in Variables
  BY DEF Inv, TypeInv, Sites
<1>2. ~At(s, "absent") /\ ~At(s, "ended") /\ at[s].pc \notin InitPcs
  BY DEF Writing, At, InitPcs
<1>3. Written(s).proc = s[1] /\ Written(s).fd = proc[s[1]].tracker_fd
  BY DEF Written
<1>4. CASE log = <<>>
  BY <1>2, <1>3, <1>4 DEF Inv, StartInv, Booting, Ready, At, RecordOK
<1>5. CASE log # <<>>
  <2>1. Running(at[s], proc[s[1]]) /\ Ready(proc[s[1]])
    BY <1>2, <1>5 DEF Inv, StartInv, Running
  <2>2. proc[s[1]].tracker_fd \in {"open", "closed"}
    BY <1>1, <2>1 DEF Ready, Variables
  <2>3. CASE ~Single
    BY <1>1, <1>3, <2>1, <2>2, <2>3 DEF Ready, RecordOK
  <2>4. CASE Single
    <3>1. at[s].op = "r" => "tracker_deinit" \notin proc[s[1]].once
      BY <2>4 DEF CloseInv, CloseOK, Closing
    <3>2. at[s].op = "a" => "preload_deinit" \notin proc[s[1]].once \/ Reforked(s[1])
      BY <1>2, <2>4 DEF ExitInv, ExitOK, At, Reforked
    <3>3. at[s].op \in {"a", "r"}
      BY <1>1, <2>1 DEF Running, Frames
    <3> QED BY <1>2, <1>3, <2>1, <2>2, <3>1, <3>2, <3>3 DEF Running, Ready, RecordOK, At
  <2> QED BY <2>3, <2>4
<1> QED BY <1>4, <1>5

LEMMA LocalFifo ==
  ASSUME Inv, CloseInv, ExitInv, RecordsAreOpen, NoneForked,
         NEW s \in Sites, NEW f \in Frames, NEW w \in Variables, Moves(s, f, w)
  PROVE  RecordsAreOpen' /\ NoneForked'
<1>1. /\ at'[s] = f /\ proc'[s[1]] = w
      /\ \A v \in Sites : v # s => at'[v] = at[v]
      /\ \A p \in Procs : p # s[1] => proc'[p] = proc[p]
  BY LocalOthers
<1>2. Single' => Single
  BY LocalSingle
<1>3. f.pc # "absent" /\ (proc[s[1]].forked => w.forked) /\ s = <<s[1], s[2]>> /\ s[2] \in Threads
  BY DEF Moves, Guarantee, Sites
<1>4. NoneForked'
  <2> SUFFICES ASSUME NEW p \in Procs, proc'[p].forked
               PROVE  \E t \in Threads : ~At(<<p, t>>, "absent")'
    BY DEF NoneForked
  <2>1. CASE p = s[1]
    BY <1>1, <1>3, <2>1 DEF At
  <2>2. CASE p # s[1]
    <3>1. PICK t \in Threads : ~At(<<p, t>>, "absent")
      BY <1>1, <2>2 DEF NoneForked
    <3>2. <<p, t>> \in Sites /\ <<p, t>> # s
      BY <2>2, <1>3 DEF Sites
    <3> QED BY <1>1, <3>1, <3>2 DEF At
  <2> QED BY <2>1, <2>2
<1>5. ASSUME NEW r \in Records, RecordOK(r) PROVE RecordOK(r)'
  <2>1. r.proc \in Procs
    BY DEF Records
  <2>2. Reforked(r.proc) => Reforked(r.proc)'
    BY <1>1, <1>3, <2>1 DEF Reforked
  <2> QED BY <1>2, <1>5, <2>2 DEF RecordOK
<1>6. CASE log' = log
  BY <1>4, <1>5, <1>6 DEF RecordsAreOpen
<1>7. CASE At(s, "fprintf_write") /\ log' = Append(log, Written(s))
  <2>1. PICK e \in Records : e = Written(s)
    BY DEF Written, Records, Frames, Variables, Inv, TypeInv, Sites
  <2>2. RecordOK(e)
    BY <1>7, <2>1, WriteOpen DEF Writing, At
  <2>3. ASSUME NEW i \in DOMAIN log' PROVE log'[i] = e \/ (i \in DOMAIN log /\ log'[i] = log[i])
    <3>1. log \in Seq(Records) /\ log' = Append(log, e)
      BY <1>7, <2>1 DEF Inv, TypeInv
    <3> QED BY <2>3, <3>1, AppendProperties, LenProperties
  <2>4. \A r \in Records : (\E i \in DOMAIN log' : log'[i] = r)
                               => r = e \/ (\E i \in DOMAIN log : log[i] = r)
    BY <2>3
  <2>5. \A r \in Records : (\E i \in DOMAIN log' : log'[i] = r) => RecordOK(r)
    BY <2>2, <2>4 DEF RecordsAreOpen
  <2> QED BY <1>4, <1>5, <2>5 DEF RecordsAreOpen
<1> QED BY <1>4, <1>6, <1>7 DEF Moves, Guarantee

(***************************************************************************)
(* A thread and a process are created, and a process ends.                 *)
(***************************************************************************)
LEMMA CreateInv ==
  ASSUME Inv, NEW s \in Sites, CreateThread(s), UNCHANGED <<proc, log>>
  PROVE  /\ Inv' /\ ~Single'
         /\ RecordsAreOpen /\ NoneForked => RecordsAreOpen' /\ NoneForked'
<1>1. PICK t \in Threads : /\ At(<<s[1], t>>, "absent")
                           /\ at' = [at EXCEPT ![<<s[1], t>>].pc = "idle"]
  BY DEF CreateThread
<1> DEFINE n == <<s[1], t>>
<1>2. n \in Sites /\ n[1] = s[1] /\ n # s /\ at[n] \in Frames /\ s[1] \in Procs
  BY <1>1 DEF CreateThread, At, Sites, Inv, TypeInv
<1>3. /\ at'[n] = [at[n] EXCEPT !.pc = "idle"]
      /\ \A u \in Sites : u # n => at'[u] = at[u]
  BY <1>1, <1>2 DEF Inv, TypeInv
<1>4. at'[n] \in Frames /\ at'[n].pc = "idle"
  BY <1>2, <1>3 DEF Frames, Pcs
<1>5. at' \in [Sites -> Frames]
  BY <1>1, <1>2, <1>3, <1>4 DEF Inv, TypeInv
<1>6. TypeInv'
  BY <1>5 DEF Inv, TypeInv
<1> HIDE DEF n
<1>7. at[s].pc = "idle" /\ log # <<>> /\ Running(at[s], proc[s[1]])
  BY DEF CreateThread, At, Inv, StartInv, Booting, InitPcs, Writing
<1>8. StartInv'
  BY ZenonT(40), <1>2, <1>3, <1>4, <1>7 DEF StartInv, Inv, Running, Writing, At
<1>9. DeinitInv'
  BY ZenonT(40), <1>2, <1>3, <1>4 DEF DeinitInv, Inv, DeinitOK, Closing, Writing
<1>10. ChildInv'
  <2>1. ASSUME NEW u \in Sites, ~At(u, "absent")', u[1] # Root
        PROVE  ChildOK(at'[u], proc'[u[1]])
    <3>1. CASE u = n
      <4>1. ChildOK(at[s], proc[s[1]])
        BY <1>2, <1>7, <2>1, <3>1 DEF Inv, ChildInv, At
      <4> QED BY <1>2, <1>7, <3>1, <4>1 DEF ChildOK, Deiniting, Closing, Writing
    <3>2. CASE u # n
      BY <1>3, <2>1, <3>2 DEF Inv, ChildInv, At
    <3> QED BY <3>1, <3>2
  <2>2. \A u \in Sites : u[1] = Root => ~At(u, "fork_child")'
    BY <1>3, <1>4 DEF Inv, ChildInv, At
  <2>3. ~At(<<Root, Main>>, "absent")'
    BY <1>3, <1>4, LifecycleAssumption DEF Inv, ChildInv, At, Sites
  <2> QED BY <2>1, <2>2, <2>3 DEF ChildInv
<1>11. ~Single'
  BY <1>2, <1>3, <1>4, <1>7 DEF Single, At
<1>12. ASSUME RecordsAreOpen, NoneForked PROVE RecordsAreOpen' /\ NoneForked'
  <2>1. NoneForked'
    <3>1. \A u \in Sites : ~At(u, "absent") => ~At(u, "absent")'
      BY <1>3, <1>4 DEF At
    <3> QED BY <1>12, <3>1 DEF NoneForked, Sites
  <2>2. ASSUME NEW r \in Records, RecordOK(r) PROVE RecordOK(r)'
    BY <1>11, <2>2 DEF RecordOK, Reforked
  <2> QED BY <1>12, <2>1, <2>2 DEF RecordsAreOpen
<1> QED BY <1>6, <1>8, <1>9, <1>10, <1>11, <1>12 DEF Inv

LEMMA ForkInv ==
  ASSUME Inv, NEW s \in Sites, Fork(s)
  PROVE  /\ Inv'
         /\ CloseInv => CloseInv'
         /\ ExitInv => ExitInv'
         /\ RecordsAreOpen /\ NoneForked => RecordsAreOpen' /\ NoneForked'
<1>1. PICK q \in Procs :
          /\ \A t \in Threads : At(<<q, t>>, "absent")
          /\ proc' = [proc EXCEPT ![q] = [proc[s[1]] EXCEPT !.gen = @ + 1, !.forked = FALSE]]
          /\ at' = [at EXCEPT ![s].pc = "fork_parent", ![<<q, s[2]>>].pc = "fork_child"]
  BY DEF Fork
<1> DEFINE n == <<q, s[2]>>
           w == [proc[s[1]] EXCEPT !.gen = @ + 1, !.forked = FALSE]
<1>2. /\ n \in Sites /\ n[1] = q /\ s[1] \in Procs /\ s = <<s[1], s[2]>>
      /\ at[n] \in Frames /\ at[s] \in Frames /\ proc[s[1]] \in Variables
      /\ \A u \in Sites : u[1] = q => At(u, "absent")
  BY <1>1 DEF Sites, Inv, TypeInv
<1>3. at[s].pc = "fork" /\ n # s /\ q # s[1] /\ q # Root
  BY <1>1, <1>2, LifecycleAssumption DEF Fork, At, Inv, ChildInv, Sites
<1>4. w \in Variables /\ proc'[q] = w /\ \A p \in Procs : p # q => proc'[p] = proc[p]
  <2>1. proc[s[1]].gen + 1 \in Nat
    BY <1>2 DEF Variables
  <2>2. w \in Variables
    BY <1>2, <2>1 DEF Variables
  <2> QED BY <1>1, <2>2 DEF Inv, TypeInv
<1>5. /\ at'[s] = [at[s] EXCEPT !.pc = "fork_parent"]
      /\ at'[n] = [at[n] EXCEPT !.pc = "fork_child"]
      /\ \A u \in Sites : u # s /\ u # n => at'[u] = at[u]
  BY <1>1, <1>2, <1>3 DEF Inv, TypeInv
<1>6. /\ at'[s] \in Frames /\ at'[s].pc = "fork_parent"
      /\ at'[n] \in Frames /\ at'[n].pc = "fork_child"
  BY <1>2, <1>5 DEF Frames, Pcs
<1>7. TypeInv'
  <2>1. at' \in [Sites -> Frames]
    BY <1>1, <1>2, <1>5, <1>6 DEF Inv, TypeInv
  <2>2. proc' \in [Procs -> Variables] /\ log' = log
    BY <1>1, <1>4 DEF Inv, TypeInv, Fork
  <2> QED BY <2>1, <2>2 DEF Inv, TypeInv
<1>8. /\ w.once = proc[s[1]].once /\ w.libc = proc[s[1]].libc /\ w.keys = proc[s[1]].keys
      /\ w.tracker_fd = proc[s[1]].tracker_fd /\ w.gen > 0
      /\ w.is_initialized = proc[s[1]].is_initialized /\ ~w.forked
  BY <1>2 DEF Variables
<1> HIDE DEF n, w
<1>9. log' = log /\ log # <<>> /\ Running(at[s], proc[s[1]])
  BY <1>3 DEF Fork, At, Inv, StartInv, Booting, InitPcs, Writing
<1>10. Running(at'[s], proc[s[1]]) /\ Running(at'[n], w)
  BY <1>3, <1>6, <1>8, <1>9 DEF Running, Ready, Writing
<1>11. StartInv'
  BY <1>2, <1>3, <1>4, <1>5, <1>6, <1>9, <1>10 DEF StartInv, Inv, At, Sites
<1>12. DeinitInv'
  <2> SUFFICES ASSUME NEW u \in Sites PROVE DeinitOK(at'[u], proc'[u[1]])
    BY DEF DeinitInv
  <2>1. u[1] \in Procs /\ DeinitOK(at[u], proc[u[1]])
    BY DEF Inv, DeinitInv, Sites
  <2>2. CASE u = s \/ u = n
    BY <1>6, <2>2 DEF DeinitOK, Closing, Writing
  <2>3. CASE u # s /\ u # n
    BY <1>2, <1>4, <1>5, <2>1, <2>3 DEF DeinitOK, Closing, Writing, At
  <2> QED BY <2>2, <2>3
<1>13. ChildInv'
  <2>1. ASSUME NEW u \in Sites, ~At(u, "absent")', u[1] # Root
        PROVE  ChildOK(at'[u], proc'[u[1]])
    <3>1. CASE u = n
      BY <1>2, <1>4, <1>6, <1>8, <3>1 DEF ChildOK
    <3>2. CASE u = s
      <4>1. ChildOK(at[s], proc[s[1]])
        BY <1>3, <2>1, <3>2 DEF Inv, ChildInv, At
      <4> QED BY <1>2, <1>3, <1>4, <1>6, <3>2, <4>1 DEF ChildOK, Deiniting, Closing, Writing
    <3>3. CASE u # s /\ u # n
      BY <1>2, <1>4, <1>5, <2>1, <3>3 DEF Inv, ChildInv, At, Sites
    <3> QED BY <3>1, <3>2, <3>3
  <2>2. ASSUME NEW u \in Sites, u[1] = Root PROVE ~At(u, "fork_child")'
    BY <1>2, <1>3, <1>5, <1>6, <2>2 DEF Inv, ChildInv, At
  <2>3. ~At(<<Root, Main>>, "absent")'
    BY <1>3, <1>5, <1>6, LifecycleAssumption DEF Inv, ChildInv, At, Sites
  <2> QED BY <2>1, <2>2, <2>3 DEF ChildInv
<1>14. Single' => Single
  <2>1. \A u \in Sites : ~At(u, "absent") => ~At(u, "absent")'
    BY <1>2, <1>3, <1>5, <1>6 DEF At
  <2> QED BY <2>1 DEF Single
<1>15. ASSUME CloseInv PROVE CloseInv'
  <2> SUFFICES ASSUME Single', NEW u \in Sites PROVE CloseOK(at'[u], proc'[u[1]])
    BY DEF CloseInv
  <2>1. u[1] \in Procs /\ CloseOK(at[u], proc[u[1]])
    BY <1>14, <1>15 DEF CloseInv, Sites
  <2>2. CASE u = s \/ u = n
    BY <1>6, <2>2 DEF CloseOK, Closing, Writing
  <2>3. CASE u # s /\ u # n
    BY <1>2, <1>4, <1>5, <2>1, <2>3 DEF CloseOK, Closing, Writing, At
  <2> QED BY <2>2, <2>3
<1>16. ASSUME ExitInv PROVE ExitInv'
  <2> SUFFICES ASSUME Single', NEW u \in Sites PROVE ExitOK(u[1], at'[u], proc'[u[1]])
    BY DEF ExitInv
  <2>1. u[1] \in Procs /\ ExitOK(u[1], at[u], proc[u[1]])
    BY <1>14, <1>16 DEF ExitInv, Sites
  <2>2. ExitOK(s[1], at[s], proc[s[1]])
    BY <1>14, <1>16 DEF ExitInv
  <2>3. CASE u = s \/ u = n
    BY <1>2, <1>3, <1>4, <1>6, <1>8, <2>2, <2>3 DEF ExitOK, Deiniting, Closing, Writing, ForkPcs
  <2>4. CASE u # s /\ u # n
    <3>1. CASE u[1] = q
      BY <1>2, <1>5, <2>4, <3>1 DEF ExitOK, Deiniting, Closing, Writing, ForkPcs, At
    <3>2. CASE u[1] # q
      BY <1>4, <1>5, <2>1, <2>4, <3>2
    <3> QED BY <3>1, <3>2
  <2> QED BY <2>3, <2>4
<1>17. ASSUME RecordsAreOpen, NoneForked PROVE RecordsAreOpen' /\ NoneForked'
  <2>1. ~proc[q].forked
    BY <1>1, <1>17 DEF NoneForked
  <2>2. \A p \in Procs : /\ proc'[p].forked => p # q /\ proc[p].forked
                         /\ proc[p].forked => proc'[p].forked
    BY <1>4, <1>8, <2>1
  <2>3. NoneForked'
    <3>1. \A u \in Sites : ~At(u, "absent") => ~At(u, "absent")'
      BY <1>2, <1>3, <1>5, <1>6 DEF At
    <3> QED BY <1>17, <2>2, <3>1 DEF NoneForked, Sites
  <2>4. ASSUME NEW r \in Records, RecordOK(r) PROVE RecordOK(r)'
    BY <1>14, <2>2, <2>4 DEF RecordOK, Records, Reforked
  <2> QED BY <1>9, <1>17, <2>3, <2>4 DEF RecordsAreOpen
<1> QED BY <1>7, <1>11, <1>12, <1>13, <1>15, <1>16, <1>17 DEF Inv

LEMMA EndInv ==
  ASSUME Inv, NEW p \in Procs, End(p)
  PROVE  /\ Inv'
         /\ CloseInv => CloseInv'
         /\ ExitInv => ExitInv'
         /\ RecordsAreOpen /\ NoneForked => RecordsAreOpen' /\ NoneForked'
<1> DEFINE w == [proc[p] EXCEPT !.tracker_fd = IF @ = "open" THEN "closed" ELSE @]
           e == [Absent EXCEPT !.pc = "ended"]
<1>1. e \in Frames /\ e.pc = "ended"
  BY DEF Absent, Frames, Pcs
<1>2. proc[p] \in Variables
  BY DEF Inv, TypeInv
<1>3. /\ w \in Variables /\ w.once = proc[p].once /\ w.libc = proc[p].libc
      /\ w.keys = proc[p].keys /\ w.tracker_fd # "open" /\ w.gen = proc[p].gen
      /\ w.is_initialized = proc[p].is_initialized /\ w.forked = proc[p].forked
      /\ proc[p].tracker_fd # "none" => w.tracker_fd # "none"
  BY <1>2 DEF Variables
<1>4. proc' = [proc EXCEPT ![p] = w]
  BY DEF End, Inv, TypeInv
<1>5. proc'[p] = w /\ \A q \in Procs : q # p => proc'[q] = proc[q]
  BY <1>4 DEF Inv, TypeInv
<1> HIDE DEF w
<1>6. \A s \in Sites : at'[s] = IF s[1] = p /\ ~At(s, "absent") THEN e ELSE at[s]
  BY DEF End
<1> HIDE DEF e
<1>7. TypeInv'
  <2>1. at' \in [Sites -> Frames]
    <3>1. at' = [s \in Sites |-> IF s[1] = p /\ ~At(s, "absent") THEN e ELSE at[s]]
      BY DEF End, e
    <3> QED BY <1>1, <3>1 DEF Inv, TypeInv
  <2>2. proc' \in [Procs -> Variables]
    BY <1>3, <1>4 DEF Inv, TypeInv
  <2> QED BY <2>1, <2>2 DEF Inv, TypeInv, End
<1>8. \A s \in Sites : At(s, "absent") <=> At(s, "absent")'
  BY <1>1, <1>6 DEF At
<1>9. log' = log
  BY DEF End
<1>10. StartInv'
  <2> SUFFICES ASSUME NEW u \in Sites, ~At(u, "absent")'
               PROVE  IF log' = <<>> THEN u = <<Root, Main>> /\ Booting(at'[u], proc'[u[1]])
                                     ELSE Running(at'[u], proc'[u[1]])
    BY DEF StartInv
  <2>1. u[1] \in Procs /\ IF log = <<>> THEN u = <<Root, Main>> /\ Booting(at[u], proc[u[1]])
                                        ELSE Running(at[u], proc[u[1]])
    BY <1>8 DEF Inv, StartInv, Sites
  <2>2. CASE u[1] = p
    <3>1. at'[u].pc = "ended"
      BY <1>1, <1>6, <1>8, <2>2
    <3> QED BY <3>1, <1>3, <1>5, <1>9, <2>1, <2>2 DEF Booting, Running, Ready, Writing
  <2>3. CASE u[1] # p
    BY <1>5, <1>6, <1>9, <2>1, <2>3
  <2> QED BY <2>2, <2>3
<1>11. DeinitInv'
  <2> SUFFICES ASSUME NEW u \in Sites PROVE DeinitOK(at'[u], proc'[u[1]])
    BY DEF DeinitInv
  <2>1. u[1] \in Procs /\ DeinitOK(at[u], proc[u[1]])
    BY DEF Inv, DeinitInv, Sites
  <2> QED BY <1>1, <1>3, <1>5, <1>6, <2>1 DEF DeinitOK, Closing, Writing
<1>12. ChildInv'
  <2>1. ASSUME NEW u \in Sites, ~At(u, "absent")', u[1] # Root
        PROVE  ChildOK(at'[u], proc'[u[1]])
    <3>1. u[1] \in Procs /\ ChildOK(at[u], proc[u[1]])
      BY <1>8, <2>1 DEF Inv, ChildInv, Sites
    <3> QED BY <1>3, <1>5, <1>6, <3>1 DEF ChildOK
  <2>2. ASSUME NEW u \in Sites, u[1] = Root PROVE ~At(u, "fork_child")'
    BY <1>1, <1>6, <2>2 DEF Inv, ChildInv, At
  <2>3. ~At(<<Root, Main>>, "absent")'
    BY <1>8, LifecycleAssumption DEF Inv, ChildInv, Sites
  <2> QED BY <2>1, <2>2, <2>3 DEF ChildInv
<1>13. Single' => Single
  BY <1>8 DEF Single
<1>14. ASSUME CloseInv PROVE CloseInv'
  <2> SUFFICES ASSUME Single', NEW u \in Sites PROVE CloseOK(at'[u], proc'[u[1]])
    BY DEF CloseInv
  <2>1. u[1] \in Procs /\ CloseOK(at[u], proc[u[1]])
    BY <1>13, <1>14 DEF CloseInv, Sites
  <2> QED BY <1>1, <1>3, <1>5, <1>6, <2>1 DEF CloseOK, Closing, Writing
<1>15. ASSUME ExitInv PROVE ExitInv'
  <2> SUFFICES ASSUME Single', NEW u \in Sites PROVE ExitOK(u[1], at'[u], proc'[u[1]])
    BY DEF ExitInv
  <2>1. u[1] \in Procs /\ ExitOK(u[1], at[u], proc[u[1]])
    BY <1>13, <1>15 DEF ExitInv, Sites
  <2>2. CASE u[1] = p /\ ~At(u, "absent")
    BY <1>1, <1>3, <1>5, <1>6, <2>1, <2>2
       DEF ExitOK, Exiting, Deiniting, Closing, Writing, ForkPcs, At
  <2>3. CASE u[1] = p /\ At(u, "absent")
    BY <1>6, <2>3 DEF ExitOK, Deiniting, Closing, Writing, ForkPcs, At
  <2>4. CASE u[1] # p
    BY <1>5, <1>6, <2>1, <2>4
  <2> QED BY <2>2, <2>3, <2>4
<1>16. ASSUME RecordsAreOpen, NoneForked PROVE RecordsAreOpen' /\ NoneForked'
  <2>1. \A q \in Procs : proc'[q].forked = proc[q].forked
    BY <1>3, <1>5
  <2>2. NoneForked'
    BY <1>8, <1>16, <2>1 DEF NoneForked, Sites
  <2>3. ASSUME NEW r \in Records, RecordOK(r) PROVE RecordOK(r)'
    BY <1>13, <2>1, <2>3 DEF RecordOK, Records, Reforked
  <2> QED BY <1>9, <1>16, <2>2, <2>3 DEF RecordsAreOpen
<1> QED BY <1>7, <1>10, <1>11, <1>12, <1>14, <1>15, <1>16 DEF Inv

(***************************************************************************)
(* Every step keeps the invariant.                                         *)
(***************************************************************************)
LEMMA Steps ==
  ASSUME Next
  PROVE  \/ \E s \in Sites : Local(s)
         \/ \E s \in Sites : CreateThread(s) /\ UNCHANGED <<proc, log>>
         \/ \E s \in Sites : Fork(s)
         \/ (\E p \in Procs : End(p)) /\ log' = log
         \/ UNCHANGED <<proc, at, log>>
<1>1. ASSUME NEW s \in Sites, Call(s)
      PROVE  Local(s) \/ (CreateThread(s) /\ UNCHANGED <<proc, log>>)
  BY <1>1 DEF Call, Local
<1>2. ASSUME NEW s \in Sites, Step(s)
      PROVE  Local(s) \/ Fork(s) \/ (s[1] \in Procs /\ End(s[1]))
  BY <1>2 DEF Step, Local, Exited, Sites
<1>3. ASSUME NEW p \in Procs, Kill(p) PROVE End(p)
  BY <1>3 DEF Kill
<1>4. ASSUME NEW p \in Procs, End(p) PROVE log' = log
  BY <1>4 DEF End
<1>5. ReaderEOF \/ Rest => UNCHANGED <<proc, at, log>>
  BY DEF ReaderEOF, Rest, vars
<1> QED BY <1>1, <1>2, <1>3, <1>4, <1>5 DEF Next

LEMMA SafeStep == SafeInv /\ [Next]_vars => SafeInv'
<1> SUFFICES ASSUME SafeInv, [Next]_vars PROVE SafeInv'
  OBVIOUS
<1>1. ASSUME NEW s \in Sites, Local(s) PROVE SafeInv'
  <2>1. PICK f \in Frames, w \in Variables : Moves(s, f, w)
    BY <1>1, LocalMoves DEF SafeInv
  <2> QED BY <2>1, LocalInv, LocalClose, LocalLog DEF SafeInv
<1>2. ASSUME NEW s \in Sites, CreateThread(s), UNCHANGED <<proc, log>> PROVE SafeInv'
  BY <1>2, CreateInv DEF SafeInv, CloseInv, ExecPathFirst, ChildIsSilent
<1>3. ASSUME NEW s \in Sites, Fork(s) PROVE SafeInv'
  BY <1>3, ForkInv DEF SafeInv, ExecPathFirst, ChildIsSilent, Fork
<1>4. ASSUME NEW p \in Procs, End(p) PROVE SafeInv'
  BY <1>4, EndInv DEF SafeInv, ExecPathFirst, ChildIsSilent, End
<1>5. CASE UNCHANGED <<proc, at, log>>
  BY <1>5 DEF SafeInv, Inv, TypeInv, StartInv, DeinitInv, ChildInv, CloseInv, Single, At,
              ExecPathFirst, ChildIsSilent
<1> QED BY <1>1, <1>2, <1>3, <1>4, <1>5, Steps DEF vars

LEMMA SafeInvariant == Spec => []SafeInv
<1>1. Init => SafeInv
  BY InvInit
<1> QED BY <1>1, SafeStep, PTL DEF Spec

OpenInv == SafeInv /\ ExitInv /\ RecordsAreOpen /\ NoneForked

LEMMA OpenStep == OpenInv /\ [Next]_vars => OpenInv'
<1> SUFFICES ASSUME OpenInv, [Next]_vars PROVE OpenInv'
  OBVIOUS
<1> DEFINE Rest3 == ExitInv' /\ RecordsAreOpen' /\ NoneForked'
<1>s. SafeInv'
  BY SafeStep DEF OpenInv
<1>1. ASSUME NEW s \in Sites, Local(s) PROVE Rest3
  <2>1. PICK f \in Frames, w \in Variables : Moves(s, f, w)
    BY <1>1, LocalMoves DEF OpenInv, SafeInv
  <2> QED BY <2>1, LocalExit, LocalFifo DEF OpenInv, SafeInv
<1>2. ASSUME NEW s \in Sites, CreateThread(s), UNCHANGED <<proc, log>> PROVE Rest3
  BY <1>2, CreateInv DEF OpenInv, SafeInv, ExitInv
<1>3. ASSUME NEW s \in Sites, Fork(s) PROVE Rest3
  BY <1>3, ForkInv DEF OpenInv, SafeInv
<1>4. ASSUME NEW p \in Procs, End(p) PROVE Rest3
  BY <1>4, EndInv DEF OpenInv, SafeInv
<1>5. ASSUME UNCHANGED <<proc, at, log>> PROVE Rest3
  <2>1. Single' <=> Single
    BY <1>5 DEF Single, At
  <2>2. ExitInv'
    BY <1>5, <2>1 DEF OpenInv, ExitInv
  <2>3. NoneForked'
    BY <1>5 DEF OpenInv, NoneForked, At
  <2>4. RecordsAreOpen'
    BY <1>5, <2>1 DEF OpenInv, RecordsAreOpen, RecordOK, Reforked
  <2> QED BY <2>2, <2>3, <2>4
<1> HIDE DEF Rest3
<1>6. Rest3
  BY <1>1, <1>2, <1>3, <1>4, <1>5, Steps DEF vars
<1> QED BY <1>s, <1>6 DEF OpenInv, Rest3

LEMMA OpenInvariant == Spec => []OpenInv
<1>1. Init => OpenInv
  <2> SUFFICES ASSUME Init PROVE OpenInv
    OBVIOUS
  <2>1. SafeInv
    BY InvInit
  <2>2. ExitInv
    BY LifecycleAssumption
       DEF Init, Sites, ExitInv, ExitOK, Deiniting, Closing, Writing, ForkPcs, Absent, Loaded
  <2>3. RecordsAreOpen
    BY LenProperties, EmptySeq DEF Init, RecordsAreOpen
  <2>4. NoneForked
    BY DEF Init, NoneForked, Loaded
  <2> QED BY <2>1, <2>2, <2>3, <2>4 DEF OpenInv
<1> QED BY <1>1, OpenStep, PTL DEF Spec

\* OneThread counts the threads.
LEMMA OneThreadIsSingle == OneThread => Single
<1> SUFFICES ASSUME OneThread, NEW s \in Sites, NEW u \in Sites,
                    ~At(s, "absent"), ~At(u, "absent"), s[1] = u[1]
             PROVE  s = u
  BY DEF Single
<1> DEFINE T == {t \in Threads : ~At(<<s[1], t>>, "absent")}
<1>1. s[1] \in Procs /\ s = <<s[1], s[2]>> /\ u = <<s[1], u[2]>> /\ s[2] \in T /\ u[2] \in T
  BY DEF Sites
<1>2. IsFiniteSet(T) /\ Cardinality(T) <= 1
  BY <1>1, FS_Subset, LifecycleAssumption DEF OneThread
<1>3. CASE s[2] # u[2]
  <2>1. {s[2], u[2]} \subseteq T
    BY <1>1
  <2>2. Cardinality({s[2], u[2]}) <= Cardinality(T)
    BY <1>2, <2>1, FS_Subset
  <2>3. Cardinality({s[2]} \cup {u[2]}) = 2
    <3>1. IsFiniteSet({s[2]}) /\ Cardinality({s[2]}) = 1
      BY FS_Singleton
    <3>2. u[2] \notin {s[2]}
      BY <1>3
    <3>3. Cardinality({s[2]} \cup {u[2]}) = Cardinality({s[2]}) + 1
      BY <3>1, <3>2, FS_AddElement
    <3> QED BY <3>1, <3>3
  <2>4. {s[2]} \cup {u[2]} = {s[2], u[2]}
    OBVIOUS
  <2> QED BY <1>2, <2>1, <2>2, <2>3, <2>4, FS_Subset, FS_CardinalityType
<1> QED BY <1>1, <1>3

\* The path that jmprof-ip asks for first (tracker.c:162) is the first record and
\* no other is, whatever threads, forks and allocating constructors there are.
THEOREM PathIsFirst == Spec => []ExecPathFirst
<1> QED BY SafeInvariant, PTL DEF SafeInv

\* The fork handler closes the FIFO of a child before the child's first call
\* (preload.c:292): none of its calls reaches the log, however many threads and
\* forks there are.
THEOREM ChildSilent == Spec => []ChildIsSilent
<1> QED BY SafeInvariant, PTL DEF SafeInv

\* pthread_once() lets one jm_tracker_deinit() through, and it finds tracker_fd
\* open (tracker.c:177), in a program of one thread.
THEOREM ClosedOnce == Spec => []CloseSucceeds
<1>1. SafeInv => CloseSucceeds
  <2> SUFFICES ASSUME SafeInv, OneThread, NEW s \in Sites, At(s, "tracker_close")
               PROVE  proc[s[1]].tracker_fd = "open"
    BY DEF CloseSucceeds
  <2>1. "tracker_deinit" \notin proc[s[1]].once
    BY OneThreadIsSingle DEF SafeInv, CloseInv, CloseOK, Closing, At
  <2> QED BY <2>1 DEF SafeInv, Inv, StartInv, Running, Booting, InitPcs, Writing, At
<1> QED BY <1>1, SafeInvariant, PTL

\* A call is logged only between jm_preload_init() and jm_preload_deinit(), while
\* the key of its guard exists (preload.c:298-358).  Those that are logged without
\* one are the calls of a child that called fork() itself, which preload.c:289
\* enables again, and those that another thread had begun to log before exit().
\* However many threads and generations of children there are.
THEOREM CallsGuarded == Spec => []GuardExists
<1>1. OpenInv => GuardExists
  <2> SUFFICES ASSUME OpenInv, NEW s \in Sites, At(s, "fprintf_lock"), at[s].op = "a"
               PROVE  \/ proc[s[1]].keys = "created"
                      \/ Reforked(s[1])
                      \/ ~OneThread /\ Done(s, "preload_deinit")
    BY DEF GuardExists
  <2> QED BY OneThreadIsSingle, WriteOpen DEF OpenInv, SafeInv, Writing, At, Done
<1> QED BY <1>1, OpenInvariant, PTL

\* jm_tracker_fprintf() writes into the FIFO (tracker.c:122), or, after it was
\* closed, where it was: only a child that called fork() itself (preload.c:289)
\* and a program of several threads do that.
THEOREM WrittenToFifo == Spec => []RecordsReachFifo
<1>1. OpenInv => RecordsReachFifo
  <2> SUFFICES ASSUME OpenInv, NEW i \in DOMAIN log
               PROVE  \/ log[i].fd = "open"
                      \/ log[i].fd = "closed" /\ (Reforked(log[i].proc) \/ ~OneThread)
    BY DEF RecordsReachFifo
  <2>1. log[i] \in Records
    BY ElementOfSeq, LenProperties DEF OpenInv, SafeInv, Inv, TypeInv
  <2>2. RecordOK(log[i])
    BY <2>1 DEF OpenInv, RecordsAreOpen
  <2> QED BY <2>2, OneThreadIsSingle DEF RecordOK
<1> QED BY <1>1, OpenInvariant, PTL
==============================================================================
