------------------------------ MODULE Backtrace ------------------------------
(***************************************************************************)
(* src/backtrace.c: jm_backtrace_unwind() writes the 'a' or 'f' record of  *)
(* a block and the 'b' records of the stack of the thread, under one mutex *)
(* so that the records of two threads do not mix.                          *)
(***************************************************************************)
EXTENDS Tracker

CONSTANT MaxFrames  \* bound on the 'b' records of one backtrace

MAX_BACKTRACE_COUNT == 32

\* traces[0], the frame of jm_backtrace_unwind() itself, is never printed.
ASSUME BacktraceAssumption == MaxFrames \in 0..(MAX_BACKTRACE_COUNT - 1)

VARIABLE unwind_mutex  \* its owner, or NULL

\* The arguments `is_alloc` and `ptr` that the interposed functions pass.
Opcode_ReallocRuleOnly(f) == IF f.arg # NULL /\ f.zero THEN "f" ELSE "a"

Opcode(f) == IF f.fn = "free" \/ (f.fn = "realloc" /\ f.arg # NULL /\ f.zero)
             THEN "f" ELSE "a"

Block_OldPointer(f) == IF f.arg = NULL THEN f.res ELSE f.arg

Block(f) == IF f.fn = "free" THEN f.arg ELSE f.res

UnwindLock_NoWait(x) ==
    /\ At(x, "unwind_lock")
    /\ unwind_mutex' = x[1]
    /\ Goto(x, "unwind_size")
    /\ UNCHANGED trackerVars

UnwindLock(x) ==
    /\ At(x, "unwind_lock")
    /\ unwind_mutex = NULL
    /\ unwind_mutex' = x[1]
    /\ Goto(x, "unwind_size")
    /\ UNCHANGED trackerVars

\* malloc_usable_size(ptr) reads the header of the block, here and nowhere else.
UnwindSize(x) ==
    /\ At(x, "unwind_size")
    /\ Fprintf(x, <<Record(Opcode(frame[x]), Block(frame[x]))>>, "unwind_trace")
    /\ UNCHANGED <<trackerVars, unwind_mutex>>

UnwindTrace_EarlyReturn(x) ==
    /\ At(x, "unwind_trace") /\ OnTop(x)
    /\ \/ Goto(x, "unguard")
       \/ \E n \in 1..MaxFrames : \E mods \in [1..n -> LoadedModules] :
              Fprintf(x, [i \in 1..n |-> Record("b", mods[i])], "unwind_unlock")
    /\ UNCHANGED <<trackerVars, unwind_mutex>>

\* unw_backtrace() returns: each frame is the code of some loaded module.
UnwindTrace(x) ==
    /\ At(x, "unwind_trace") /\ OnTop(x)
    /\ \E n \in 0..MaxFrames : \E mods \in [1..n -> LoadedModules] :
           Fprintf(x, [i \in 1..n |-> Record("b", mods[i])], "unwind_unlock")
    /\ UNCHANGED <<trackerVars, unwind_mutex>>

UnwindUnlock(x) ==
    /\ At(x, "unwind_unlock")
    /\ unwind_mutex' = NULL
    /\ Goto(x, "unguard")
    /\ UNCHANGED trackerVars

BacktraceStep(x) == \/ UnwindLock(x)  \/ UnwindSize(x)
                    \/ UnwindTrace(x) \/ UnwindUnlock(x)
==============================================================================
