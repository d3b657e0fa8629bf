------------------------------ MODULE MCPreload ------------------------------
(***************************************************************************)
(* Instances of Preload for TLC.                                           *)
(***************************************************************************)
EXTENDS Preload, TLC

CONSTANTS exe, libc, plugin

OneModule == <<libc>>

Symmetry == Permutations(Threads) \cup Permutations(Addrs)
==============================================================================
