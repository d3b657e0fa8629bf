------------------------------ MODULE HeapTrace ------------------------------
(***************************************************************************)
(* What libjmprof.so promises its reader, without threads' stacks, mutexes *)
(* or guards: each block is announced once between its allocation and its  *)
(* first use, and retracted once before its release, so the blocks the log *)
(* shows are blocks that exist; and a backtrace is that of the last block. *)
(***************************************************************************)
EXTENDS TraceLog

CONSTANTS Threads, Addrs, Modules

VARIABLES heap,   \* the blocks that are allocated
          trace   \* the log: [op, addr, thr]

Log(op, addr, t) == trace' = Append(trace, [op |-> op, addr |-> addr, thr |-> t])

Allocate(a) == a \notin heap /\ heap' = heap \cup {a} /\ UNCHANGED trace

LogAlloc(a, t) == a \in heap \ Traced(trace) /\ Log("a", a, t) /\ UNCHANGED heap

LogFree(a, t) == a \in Traced(trace) /\ Log("f", a, t) /\ UNCHANGED heap

Release(a) == a \in heap \ Traced(trace) /\ heap' = heap \ {a} /\ UNCHANGED trace

LogModule(m, t) == Log("m", m, t) /\ UNCHANGED heap

LogFrame(m, t) ==
    /\ \E j \in DOMAIN trace : IsOwnerOf(trace, Len(trace) + 1, j) /\ trace[j].thr = t
    /\ Log("b", m, t)
    /\ UNCHANGED heap

Init == heap = {} /\ trace = <<>>

Next == \/ \E a \in Addrs : Allocate(a) \/ Release(a)
        \/ \E a \in Addrs, t \in Threads : LogAlloc(a, t) \/ LogFree(a, t)
        \/ \E m \in Modules, t \in Threads : LogModule(m, t) \/ LogFrame(m, t)

Spec == Init /\ [][Next]_<<heap, trace>>
==============================================================================
