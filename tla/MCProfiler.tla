------------------------------ MODULE MCProfiler -----------------------------
(***************************************************************************)
(* Instances of Profiler for TLC.                                          *)
(***************************************************************************)
EXTENDS Profiler

CONSTANTS a1, a2,
          MaxLog,  \* bound on the records of the log
          MaxLag,  \* bound on the records that wait in the FIFO
          MaxMods  \* bound on the 'm' records

MCKeys == Addrs \cup {NULL}

\* The two addresses fall into one bucket of two and into two buckets of four.
MCHash == [k \in MCKeys |-> CASE k = a1 -> 1 [] k = a2 -> 3 [] OTHER -> 0]

\* Every log of the program up to the bounds.
Bounded == log' # log => /\ Len(log') <= MaxLog
                         /\ Len(log') - pos <= MaxLag
                         /\ Cardinality({i \in DOMAIN log' : log'[i].op = "m"}) <= MaxMods

MCNext == \/ status = "reading" /\ Program /\ Bounded
          \/ Reader
          \/ Finished

MCSpec == Init /\ [][MCNext]_vars
==============================================================================
