------------------------------ MODULE MCJmprof -------------------------------
(***************************************************************************)
(* Instances of Jmprof for TLC.                                            *)
(***************************************************************************)
EXTENDS Jmprof

CONSTANTS libc, a1, a2,
          MaxLag,   \* bound on the records that wait in the FIFO
          MinCalls  \* bound on how early the program exits: after so many calls began

OneModule == <<libc>>

MCKeys == Addrs \cup {NULL}

MCHash == [k \in MCKeys |-> CASE k = a1 -> 1 [] k = a2 -> 3 [] OTHER -> 0]

MCNext == /\ JmprofNext
          /\ log' # log => Len(log') - pos <= MaxLag
          /\ is_initialized' # is_initialized => calls >= MinCalls

MCSpec == JmprofInit /\ [][MCNext]_jmprofVars /\ Fairness
==============================================================================
