------------------------------ MODULE TraceLog -------------------------------
(***************************************************************************)
(* What the records that libjmprof writes mean, as jmprof-ip reads them    *)
(* (include/jmprof.h, the opcodes): 'a' a block was allocated, 'f' it was  *)
(* freed, 'b' one frame of the backtrace of the last 'a' or 'f', 'm' a     *)
(* module.                                                                 *)
(***************************************************************************)
EXTENDS Integers, Sequences

IsBlock(r) == r.op \in {"a", "f"}

\* The blocks that were allocated and not freed since: jmprof-ip's leaks.
Traced(log) ==
    {log[i].addr : i \in {k \in DOMAIN log :
        /\ log[k].op = "a"
        /\ \A j \in DOMAIN log :
               j > k => ~(log[j].op = "f" /\ log[j].addr = log[k].addr)}}

\* The record whose backtrace a 'b' record at position i would belong to.
IsOwnerOf(log, i, j) == /\ j < i /\ IsBlock(log[j])
                        /\ \A k \in DOMAIN log : j < k /\ k < i => ~IsBlock(log[k])
==============================================================================
