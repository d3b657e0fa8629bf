------------------------------- MODULE Launcher -------------------------------
(***************************************************************************)
(* bin/jmprof: a shell makes a FIFO, starts the program in the background  *)
(* with libjmprof.so preloaded and jmprof-ip in the foreground, and        *)
(* removes the FIFO in a trap.  The FIFO holds a few records: the threads  *)
(* of the program write to it under the mutex of tracker.c, jmprof-ip      *)
(* (interpret.c) reads it to its end.  Either may be killed, and the       *)
(* launcher may get a signal, between any two steps.  The program ends     *)
(* here with tracker.c:177, where the library closes its end of the FIFO.  *)
(***************************************************************************)
EXTENDS Integers

CONSTANTS Threads,     \* of the program
          Capacity,    \* the records that the FIFO holds
          MaxRecords,  \* bound on the calls that are logged
          MaxSignals,  \* bound on the signals
          NoThread

ASSUME LauncherAssumption ==
    /\ Capacity \in Nat \ {0} /\ MaxRecords \in Nat /\ MaxSignals \in Nat
    /\ NoThread \notin Threads

VARIABLES shell,      \* the command that bin/jmprof runs next, "ended" or "killed"
          pending,    \* has it a signal whose trap did not run yet?
          path,       \* what is at the path of the FIFO: "none", "fifo", "file"
          prog,       \* the program
          preloaded,  \* does ld.so load libjmprof.so into it?
          sigpipe,    \* what it does about SIGPIPE
          opened,     \* what tracker_fd is: "none", "fifo" or "file"
          thread,     \* "idle", "lock" or "write": in jm_tracker_fprintf()
          mutex,      \* the thread that holds tracker_fd_mutex
          ip,         \* jmprof-ip
          source,     \* what it reads
          records,    \* how many records of each kind: calls, written, taken
          signals     \* how many signals there were

shellVars == <<shell, pending, signals>>
progVars  == <<prog, opened, thread, mutex>>
ipVars    == <<ip, source>>
fixed     == <<preloaded, sigpipe>>
vars      == <<shellVars, path, progVars, ipVars, records, fixed>>

IpEnded == ip \in {"done", "failed", "dead"}

ShellGone == shell \in {"ended", "killed"}

AllIdle == [t \in Threads |-> "idle"]

InFifo == records.written - records.taken

\* open() of the program returns.
Opened(kind) == prog' = "running" /\ opened' = kind

(***************************************************************************)
(* The shell.  A trap runs between two commands.                           *)
(***************************************************************************)
\* cleanup(): the script goes on after it.
Trap == /\ pending /\ shell # "wait" /\ ~ShellGone
        /\ path' = "none"
        /\ pending' = FALSE
        /\ UNCHANGED <<shell, signals, progVars, ipVars, records, fixed>>

Mkfifo == /\ shell = "mkfifo"
          /\ path' = "fifo"
          /\ shell' = "spawn"
          /\ UNCHANGED <<pending, signals, progVars, ipVars, records, fixed>>

Spawn_Foreground ==
    /\ shell = "spawn"
    /\ prog' = "starting"
    /\ shell' = "foreground"
    /\ UNCHANGED <<pending, signals, path, opened, thread, mutex, ipVars, records, fixed>>

Spawn == /\ shell = "spawn"
         /\ prog' = "starting"
         /\ shell' = "interpret"
         /\ UNCHANGED <<pending, signals, path, opened, thread, mutex, ipVars, records, fixed>>

\* fopen() of a FIFO waits for the program, and wakes it if it waits.
Interpret_NoWait ==
    /\ shell = "interpret"
    /\ ip' = IF path = "none" THEN "failed" ELSE "reading"
    /\ source' = path
    /\ IF path = "fifo" /\ prog = "open" THEN Opened("fifo") ELSE UNCHANGED <<prog, opened>>
    /\ shell' = "wait"
    /\ UNCHANGED <<pending, signals, path, thread, mutex, records, fixed>>

Interpret ==
    /\ shell = "interpret"
    /\ ip' = CASE path = "none" -> "failed"
               [] path = "fifo" /\ prog # "open" -> "open"
               [] OTHER -> "reading"
    /\ source' = path
    /\ IF path = "fifo" /\ prog = "open" THEN Opened("fifo") ELSE UNCHANGED <<prog, opened>>
    /\ shell' = "wait"
    /\ UNCHANGED <<pending, signals, path, thread, mutex, records, fixed>>

\* `sh -e` exits if jmprof-ip failed; if not, this was the last command.
Wait == /\ shell = "wait" /\ IpEnded
        /\ shell' = "exit"
        /\ UNCHANGED <<pending, signals, path, progVars, ipVars, records, fixed>>

\* The end of the script runs the trap of EXIT.
Exit == /\ shell = "exit"
        /\ path' = "none"
        /\ shell' = "ended"
        /\ UNCHANGED <<pending, signals, progVars, ipVars, records, fixed>>

(***************************************************************************)
(* The program with libjmprof.so: open(fifo_path, O_CREAT | O_WRONLY) when *)
(* it starts waits for jmprof-ip, and creates a file if the FIFO is gone.  *)
(***************************************************************************)
Open == /\ prog = "starting" /\ preloaded
        /\ IF path = "fifo"
           THEN /\ IF ip = "open"
                   THEN Opened("fifo") /\ ip' = "reading"
                   ELSE prog' = "open" /\ UNCHANGED <<opened, ip>>
                /\ UNCHANGED path
           ELSE /\ Opened("file")
                /\ path' = "file"
                /\ UNCHANGED ip
        /\ UNCHANGED <<shellVars, thread, mutex, source, records, fixed>>

NotPreloaded == /\ prog = "starting" /\ ~preloaded
                /\ prog' = "running"
                /\ UNCHANGED <<shellVars, path, opened, thread, mutex, ipVars, records, fixed>>

Call(t) == /\ prog = "running" /\ opened # "none"
           /\ thread[t] = "idle" /\ records.calls < MaxRecords
           /\ thread' = [thread EXCEPT ![t] = "lock"]
           /\ records' = [records EXCEPT !.calls = @ + 1]
           /\ UNCHANGED <<shellVars, path, prog, opened, mutex, ipVars, fixed>>

Lock(t) == /\ thread[t] = "lock" /\ mutex = NoThread
           /\ thread' = [thread EXCEPT ![t] = "write"]
           /\ mutex' = t
           /\ UNCHANGED <<shellVars, path, prog, opened, ipVars, records, fixed>>

\* Is the FIFO open for reading?  The library opens it for writing only.
HasReader_ProgToo == ip = "reading" \/ opened = "fifo"

HasReader == ip = "reading"

Returned(t) == /\ thread' = [thread EXCEPT ![t] = "idle"]
               /\ mutex' = NoThread

Ended == /\ prog' = "ended"
         /\ thread' = AllIdle
         /\ mutex' = NoThread

\* write() waits while the FIFO is full.
Write(t) == /\ thread[t] = "write"
            /\ opened = "fifo" => HasReader /\ InFifo < Capacity
            /\ records' = [records EXCEPT !.written = @ + 1]
            /\ Returned(t)
            /\ UNCHANGED <<shellVars, path, prog, opened, ipVars, fixed>>

\* Nobody will read: write() fails after a SIGPIPE.
WriteFails(t) == /\ thread[t] = "write" /\ opened = "fifo" /\ ~HasReader
                 /\ IF sigpipe = "ignored" THEN Returned(t) /\ UNCHANGED prog ELSE Ended
                 /\ UNCHANGED <<shellVars, path, opened, ipVars, records, fixed>>

\* The program exits or is killed: the kernel closes tracker_fd.
End == /\ prog \in {"starting", "open", "running"}
       /\ Ended
       /\ UNCHANGED <<shellVars, path, opened, ipVars, records, fixed>>

(***************************************************************************)
(* jmprof-ip.                                                              *)
(***************************************************************************)
\* Is the FIFO open for writing?  jmprof-ip opens it for reading only.
HasWriter_IpToo == (opened = "fifo" /\ prog = "running") \/ ip = "reading"

HasWriter == opened = "fifo" /\ prog = "running"

Read == /\ ip = "reading" /\ InFifo > 0
        /\ records' = [records EXCEPT !.taken = @ + 1]
        /\ UNCHANGED <<shellVars, path, progVars, ipVars, fixed>>

\* The end of the log, the report, and the end of jmprof-ip.
Report == /\ ip = "reading" /\ InFifo = 0
          /\ source = "fifo" => ~HasWriter
          /\ ip' = "done"
          /\ UNCHANGED <<shellVars, path, progVars, source, records, fixed>>

(***************************************************************************)
(* Signals: a Ctrl-C goes to the shell and jmprof-ip, but the shell lets   *)
(* what it starts in the background ignore it; SIGTERM to the shell alone; *)
(* and jmprof-ip dies by itself or by a signal of its own.  SIGKILL, which *)
(* the trap names in vain, and SIGHUP, which it does not, end the shell on *)
(* the spot, with whatever is at the path.                                 *)
(***************************************************************************)
Signaled(toIp) ==
    /\ signals < MaxSignals /\ ~ShellGone
    /\ signals' = signals + 1
    /\ ip' = IF toIp /\ ip \in {"open", "reading"} THEN "dead" ELSE ip
    /\ UNCHANGED <<path, progVars, source, records, fixed>>

Signal(toShell, toIp) == /\ Signaled(toIp)
                         /\ pending' = (pending \/ toShell)
                         /\ UNCHANGED shell

Fatal(toIp) == /\ Signaled(toIp)
               /\ shell' = "killed"
               /\ UNCHANGED pending

Interrupt == Signal(TRUE, TRUE)

Terminate == Signal(TRUE, FALSE)

Die == ip \in {"open", "reading"} /\ Signal(FALSE, TRUE)

Kill == Fatal(FALSE)

\* The program may end with the terminal too: that is its End.
Hangup == Fatal(TRUE)

Init == /\ shell = "mkfifo" /\ pending = FALSE /\ signals = 0
        /\ path = "none"
        /\ prog = "none" /\ opened = "none"
        /\ preloaded \in BOOLEAN
        /\ sigpipe \in {"default", "ignored"}
        /\ thread = AllIdle /\ mutex = NoThread
        /\ ip = "none" /\ source = "none"
        /\ records = [calls |-> 0, written |-> 0, taken |-> 0]

ShellStep == Trap \/ Mkfifo \/ Spawn \/ Interpret \/ Wait \/ Exit

ThreadStep(t) == Lock(t) \/ Write(t) \/ WriteFails(t)

IpStep == Read \/ Report

Next == \/ ShellStep \/ IpStep
        \/ Open \/ NotPreloaded \/ End
        \/ \E t \in Threads : Call(t) \/ ThreadStep(t)
        \/ Interrupt \/ Terminate \/ Die \/ Kill \/ Hangup

\* The three processes run; the program need not end, nor call again.
FairSpec == /\ Init /\ [][Next]_vars
            /\ WF_vars(ShellStep)
            /\ WF_vars(IpStep)
            /\ WF_vars(Open \/ NotPreloaded)
            /\ \A t \in Threads : WF_vars(ThreadStep(t))

(***************************************************************************)
(* Properties.                                                             *)
(***************************************************************************)
\* jmprof-ip reports when the program has ended, and all that it wrote: opening
\* the FIFO waits for the other end, so neither sees it without the other
\* (interpret.c:125, tracker.c:160).
ReportIsComplete ==
    ip = "done" /\ source = "fifo" => prog = "ended" /\ records.taken = records.written

\* A run that no signal disturbs leaves nothing in /tmp, neither the FIFO nor a
\* file: the program cannot come so late to its open(O_CREAT) that cleanup() was
\* before it (bin/jmprof:136, tracker.c:160).
NothingLeft == shell = "ended" /\ signals = 0 => path = "none"

\* A call that is logged returns or the program ends, though the FIFO is full,
\* another thread waits in write() with the mutex, or jmprof-ip died
\* (tracker.c:122).
LoggedCallReturns == \A t \in Threads : thread[t] # "idle" ~> thread[t] = "idle"

\* The program does not wait for ever to open the FIFO, unless jmprof-ip is gone or
\* the shell was killed before it started it (tracker.c:160).
OpenReturns == prog = "open" ~> \/ prog # "open"
                                \/ ip \in {"failed", "dead"}
                                \/ ip = "none" /\ shell = "killed"

\* When a program that opened the FIFO has ended, so does bin/jmprof
\* (bin/jmprof:152).
LauncherEnds == prog = "ended" /\ opened # "none" ~> ShellGone
===============================================================================
