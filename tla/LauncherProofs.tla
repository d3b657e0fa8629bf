---------------------------- MODULE LauncherProofs ----------------------------
(***************************************************************************)
(* For any number of threads, records and signals and any capacity of the  *)
(* FIFO: the report is complete, and an undisturbed bin/jmprof leaves      *)
(* nothing behind.                                                         *)
(***************************************************************************)
EXTENDS Launcher, TLAPS

TypeOK == /\ thread \in [Threads -> {"idle", "lock", "write"}]
          /\ records \in [calls : Nat, written : Nat, taken : Nat]
          /\ signals \in Nat

\* The program and jmprof-ip are started once each, in this order.
Started == /\ shell \in {"mkfifo", "spawn", "interpret"} => ip = "none"
           /\ shell \in {"mkfifo", "spawn"} => prog = "none"
           /\ prog = "none" => ip = "none" /\ shell \in {"mkfifo", "spawn", "killed"}

\* Only a running program writes, and jmprof-ip takes what was written.
Flow == /\ prog # "running" => \A t \in Threads : thread[t] = "idle"
        /\ records.taken <= records.written

\* jmprof-ip reads the FIFO only after the program opened it.
Met == ip = "reading" /\ source = "fifo" => opened = "fifo" /\ prog \in {"running", "ended"}

\* Without signals the FIFO is there as long as the script runs, and jmprof-ip
\* reads it, and ends, only after the program has opened it.
Undisturbed == signals = 0 =>
    /\ ~pending
    /\ shell \in {"mkfifo", "spawn", "interpret", "wait", "exit", "ended"}
    /\ path = IF shell \in {"mkfifo", "ended"} THEN "none" ELSE "fifo"
    /\ ip \in {"none", "open", "reading", "done"}
    /\ ip \in {"reading", "done"} => prog \in {"running", "ended"}
    /\ shell \in {"exit", "ended"} => ip = "done"

Inv == Undisturbed /\ TypeOK /\ Started /\ Flow /\ Met /\ ReportIsComplete

LEMMA InvInit == Init => Inv
  BY DEF Init, AllIdle, Inv, TypeOK, Started, Flow, Met, ReportIsComplete, Undisturbed

LEMMA ShellKeepsInv == Inv /\ ShellStep => Inv'
<1> SUFFICES ASSUME Inv, ShellStep PROVE Inv'
  OBVIOUS
<1> USE DEF Inv, TypeOK, Started, Flow, Met, ReportIsComplete, Undisturbed,
            progVars, ipVars
<1>1. CASE Trap
  BY <1>1 DEF Trap, ShellGone
<1>2. CASE Mkfifo
  BY <1>2 DEF Mkfifo
<1>3. CASE Spawn
  BY <1>3 DEF Spawn
<1>4. CASE Interpret
  <2>1. CASE path = "fifo" /\ prog = "open"
    BY <1>4, <2>1 DEF Interpret, Opened
  <2>2. CASE ~(path = "fifo" /\ prog = "open")
    BY <1>4, <2>2 DEF Interpret
  <2> QED
    BY <2>1, <2>2
<1>5. CASE Wait
  BY <1>5 DEF Wait, IpEnded
<1>6. CASE Exit
  BY <1>6 DEF Exit
<1> QED
  BY <1>1, <1>2, <1>3, <1>4, <1>5, <1>6 DEF ShellStep

LEMMA ProgramKeepsInv ==
  ASSUME Inv, Open \/ NotPreloaded \/ End \/ \E t \in Threads : Call(t) \/ ThreadStep(t)
  PROVE  Inv'
<1> USE DEF Inv, TypeOK, Started, Flow, Met, ReportIsComplete, Undisturbed,
            shellVars, ipVars
<1>1. CASE Open
  BY <1>1 DEF Open, Opened
<1>2. CASE NotPreloaded
  BY <1>2 DEF NotPreloaded
<1>3. CASE End
  BY <1>3 DEF End, Ended, AllIdle
<1>4. ASSUME NEW t \in Threads, Call(t) PROVE Inv'
  BY <1>4 DEF Call
<1>5. ASSUME NEW t \in Threads, Lock(t) PROVE Inv'
  BY <1>5 DEF Lock
<1>6. ASSUME NEW t \in Threads, Write(t) PROVE Inv'
  BY <1>6 DEF Write, Returned
<1>7. ASSUME NEW t \in Threads, WriteFails(t) PROVE Inv'
  BY <1>7 DEF WriteFails, Returned, Ended, AllIdle
<1> QED
  BY <1>1, <1>2, <1>3, <1>4, <1>5, <1>6, <1>7 DEF ThreadStep

LEMMA IpKeepsInv == Inv /\ IpStep => Inv'
<1> SUFFICES ASSUME Inv, IpStep PROVE Inv'
  OBVIOUS
<1> USE DEF Inv, TypeOK, Started, Flow, Met, ReportIsComplete, Undisturbed,
            shellVars, progVars, ipVars, InFifo
<1>1. CASE Read
  BY <1>1 DEF Read
<1>2. CASE Report
  BY <1>2 DEF Report, HasWriter
<1> QED
  BY <1>1, <1>2 DEF IpStep

LEMMA SignalKeepsInv == Inv /\ (Interrupt \/ Terminate \/ Die \/ Kill \/ Hangup) => Inv'
<1> SUFFICES ASSUME Inv, NEW toIp \in BOOLEAN, Signaled(toIp),
                    shell' = shell \/ shell' = "killed"
             PROVE  Inv'
  BY DEF Interrupt, Terminate, Die, Kill, Hangup, Signal, Fatal
<1>1. Undisturbed'
  BY DEF Inv, TypeOK, Undisturbed, Signaled
<1>2. TypeOK' /\ Flow'
  BY DEF Inv, TypeOK, Flow, Signaled, progVars
<1>3. Started' /\ Met' /\ ReportIsComplete'
  BY DEF Inv, Started, Met, ReportIsComplete, Signaled, progVars
<1> QED
  BY <1>1, <1>2, <1>3 DEF Inv

LEMMA InvAlways == FairSpec => []Inv
<1>1. Inv /\ UNCHANGED vars => Inv'
  BY DEF Inv, TypeOK, Started, Flow, Met, ReportIsComplete, Undisturbed,
         vars, shellVars, progVars, ipVars
<1>2. Inv /\ [Next]_vars => Inv'
  BY <1>1, ShellKeepsInv, ProgramKeepsInv, IpKeepsInv, SignalKeepsInv DEF Next
<1> QED
  BY <1>2, InvInit, PTL DEF FairSpec

\* jmprof-ip reports only when the program has ended, and everything it wrote.
THEOREM CompleteReport == FairSpec => []ReportIsComplete
<1>1. Inv => ReportIsComplete
  BY DEF Inv
<1> QED
  BY <1>1, InvAlways, PTL

\* A bin/jmprof that gets no signal, whose jmprof-ip does not die, leaves neither its
\* FIFO nor a file that a late open(O_CREAT) of the program made: jmprof-ip ends only
\* after the program has opened the FIFO.
THEOREM NothingStays == FairSpec => []NothingLeft
<1>1. Inv => NothingLeft
  BY DEF Inv, Undisturbed, NothingLeft
<1> QED
  BY <1>1, InvAlways, PTL
===============================================================================
