------------------------------- MODULE Perfmon --------------------------------
(***************************************************************************)
(* src/perfmon.c, jmprof-pm: the events of `counters` are opened as one    *)
(* group, reset and enabled, and at the end disabled and closed, while the *)
(* kernel counts.  What main() does in between is still to be written.     *)
(***************************************************************************)
EXTENDS Integers

CONSTANTS N,        \* the number of `counters`
          MaxCount  \* bound on what is counted

ASSUME PerfmonAssumption == N \in Nat \ {0} /\ MaxCount \in Nat

Counters == 1..N

VARIABLES pc,       \* the next step of main()
          i,        \* the loop variable of init and deinit
          fd,       \* is the event open?
          group,    \* the leader of its group
          enabled,  \* does it count?
          value,    \* what it counted
          encoded   \* does libpfm know its name on this machine?

vars == <<pc, i, fd, group, enabled, value, encoded>>

(***************************************************************************)
(* jm_perfmon_init().                                                      *)
(***************************************************************************)
GroupFd_None(c) == c

GroupFd(c) == IF c > 1 THEN 1 ELSE c

\* The attribute `disabled` is not set: an event counts as soon as it is open.
\* If its name was not encoded, the attributes are uninitialized but for the type:
\* the system call may fail or not, and `disabled` have any value.
OpenEvent == /\ pc = "open" /\ i <= N
             /\ fd' = [fd EXCEPT ![i] = TRUE]
             /\ group' = [group EXCEPT ![i] = GroupFd(i)]
             /\ \E on \in {TRUE} \cup {encoded[i]} : enabled' = [enabled EXCEPT ![i] = on]
             /\ i' = i + 1
             /\ UNCHANGED <<pc, value, encoded>>

\* The events opened before stay open, and main() returns.
OpenFails == /\ pc = "open" /\ i <= N
             /\ pc' = "failed"
             /\ UNCHANGED <<i, fd, group, enabled, value, encoded>>

InGroup(c, leader) == group[c] = leader

\* ioctl() with PERF_IOC_FLAG_GROUP is for the whole group of the first event.
Reset == /\ pc = "open" /\ i > N
         /\ value' = [c \in Counters |-> IF InGroup(c, 1) THEN 0 ELSE value[c]]
         /\ pc' = "enable"
         /\ UNCHANGED <<i, fd, group, enabled, encoded>>

Enable == /\ pc = "enable"
          /\ enabled' = [c \in Counters |-> enabled[c] \/ InGroup(c, 1)]
          /\ pc' = "main"
          /\ UNCHANGED <<i, fd, group, value, encoded>>

(***************************************************************************)
(* jm_perfmon_deinit().                                                    *)
(***************************************************************************)
Deinit == /\ pc = "main"
          /\ pc' = "disable"
          /\ i' = 1
          /\ UNCHANGED <<fd, group, enabled, value, encoded>>

Disable_Self == /\ pc = "disable" /\ i <= N
                /\ enabled' = [enabled EXCEPT ![i] = FALSE]
                /\ pc' = "close"
                /\ UNCHANGED <<i, fd, group, value, encoded>>

\* fcntl() finds every event open: none was closed since it was opened.
Disable == /\ pc = "disable" /\ i <= N
           /\ enabled' = [c \in Counters |-> enabled[c] /\ ~InGroup(c, group[i])]
           /\ pc' = "close"
           /\ UNCHANGED <<i, fd, group, value, encoded>>

\* Without its leader, an event of a group is on its own.
Close == /\ pc = "close"
         /\ fd' = [fd EXCEPT ![i] = FALSE]
         /\ group' = [c \in Counters |-> IF InGroup(c, i) THEN c ELSE group[c]]
         /\ i' = i + 1
         /\ pc' = "disable"
         /\ UNCHANGED <<enabled, value, encoded>>

\* The event is taken to stay open then.
CloseFails == /\ pc = "close"
              /\ pc' = "return"
              /\ UNCHANGED <<i, fd, group, enabled, value, encoded>>

AllClosed == /\ pc = "disable" /\ i > N
             /\ pc' = "return"
             /\ UNCHANGED <<i, fd, group, enabled, value, encoded>>

\* When main() has returned, the kernel closes what is open.
Exit == /\ pc \in {"failed", "return"}
        /\ fd' = [c \in Counters |-> FALSE]
        /\ pc' = "exited"
        /\ UNCHANGED <<i, group, enabled, value, encoded>>

Exited == pc = "exited" /\ UNCHANGED vars

(***************************************************************************)
(* The kernel counts for all events of a group or for none.                *)
(***************************************************************************)
Counting(c) == fd[c] /\ enabled[c]

Count(leader) ==
    /\ \E c \in Counters : InGroup(c, leader) /\ Counting(c)
    /\ \A c \in Counters : value[c] < MaxCount
    /\ value' = [c \in Counters |->
                    IF InGroup(c, leader) /\ Counting(c) THEN value[c] + 1 ELSE value[c]]
    /\ UNCHANGED <<pc, i, fd, group, enabled, encoded>>

Init == /\ pc = "open" /\ i = 1
        /\ fd = [c \in Counters |-> FALSE]
        /\ group = [c \in Counters |-> c]
        /\ enabled = [c \in Counters |-> FALSE]
        /\ value = [c \in Counters |-> 0]
        /\ encoded \in [Counters -> BOOLEAN]

Next == \/ OpenEvent \/ OpenFails \/ Reset \/ Enable
        \/ Deinit \/ Disable \/ Close \/ CloseFails \/ AllClosed
        \/ Exit \/ Exited
        \/ \E leader \in Counters : Count(leader)

Spec == Init /\ [][Next]_vars

(***************************************************************************)
(* Properties.                                                             *)
(***************************************************************************)
\* From the reset on (perfmon.c:153) all events counted for the same time, though
\* they were opened, and began to count, one after the other; if libpfm knows them.
CountTogether ==
    pc \in {"enable", "main"} /\ (\A c \in Counters : encoded[c])
        => \A c, d \in Counters : value[c] = value[d]

\* From the first ioctl() of jm_perfmon_deinit() on, nothing counts any more, even
\* if a close() fails and the rest stays open (perfmon.c:175).
StopTogether ==
    pc \in {"close", "return"} \/ (pc = "disable" /\ i > 1) => \A c \in Counters : ~Counting(c)
===============================================================================
