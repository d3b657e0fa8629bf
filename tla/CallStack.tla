------------------------------ MODULE CallStack ------------------------------
(***************************************************************************)
(* The threads of the profiled program as they run inside libjmprof.so.    *)
(*                                                                         *)
(* A thread is inside the library when the program has called one of the   *)
(* interposed functions.  Such a call is an ACTIVATION <<t, d>>: thread t, *)
(* nesting depth d.  Depth 1 is a call made by the program; depth 2 is a   *)
(* call that a library function made while libjmprof itself was running    *)
(* (libunwind allocating memory in the middle of unw_backtrace()).  All    *)
(* the locals of a call, of the interposed function and of the functions   *)
(* of the library it calls, live in one record, frame[<<t, d>>].           *)
(***************************************************************************)
EXTENDS Integers, Sequences, FiniteSets

CONSTANTS Threads,   \* the threads of the profiled program
          MaxDepth,  \* how deep interposed calls nest in a thread
          NULL       \* the null pointer; also the owner of a free mutex

ASSUME CallStackAssumption == /\ MaxDepth \in Nat \ {0}
                              /\ NULL \notin Threads

VARIABLE frame

Activations == Threads \X (1..MaxDepth)

\* pc   the next step of the activation      fn   the interposed function
\* arg  its pointer, handle or file          zero is it realloc(ptr, 0)?
\* res  the result of the libc function      out  records still to be printed
\* ret  where to go on once `out` is empty   ts   stm_now() of the first one
IdleFrame == [pc |-> "idle", fn |-> "none", arg |-> NULL, zero |-> FALSE,
              res |-> NULL, out |-> <<>>, ret |-> "idle", ts |-> 0]

At(x, label) == frame[x].pc = label

Goto(x, label) == frame' = [frame EXCEPT ![x].pc = label]

\* The calls that activation x is in the middle of have all returned.
OnTop(x) == \A y \in Activations :
                y[1] = x[1] /\ y[2] > x[2] => At(y, "idle")

AllIdle == \A x \in Activations : At(x, "idle")

StackInit == frame = [x \in Activations |-> IdleFrame]
==============================================================================
