------------------------------- MODULE Preload -------------------------------
(***************************************************************************)
(* src/preload.c: the interposed calloc(), malloc(), realloc(), free(),    *)
(* dlopen() and dlclose(), and the fork handlers, in a program of several  *)
(* threads, from the return of jm_preload_init() to the first exit.  The   *)
(* module puts together the tracker and the backtraces: a step is a step   *)
(* of one activation inside one of the three source files.                 *)
(*                                                                         *)
(* The program is legal: it passes to free() and realloc() only blocks it  *)
(* owns, and to dlclose() only modules it opened.                          *)
(***************************************************************************)
EXTENDS Backtrace, TraceLog

CONSTANTS Addrs,        \* the addresses the C library can hand out
          ProgramFns,   \* the interposed functions the program calls
          ExternalFns,  \* those that unw_backtrace() calls
          MayFail,      \* may allocation, dlopen() and dlclose() fail?
          MaxCalls      \* bound on the calls of one behaviour

Allocators == {"malloc", "calloc"}
Loaders    == {"dlopen", "dlclose"}
Fns        == Allocators \cup Loaders \cup {"realloc", "free", "fork"}

\* A block of the heap is not where a module is mapped.
ASSUME PreloadAssumption == /\ NULL \notin Addrs
                            /\ Addrs \cap Modules = {}
                            /\ ProgramFns \subseteq Fns
                            /\ ExternalFns \subseteq Allocators
                            /\ MayFail \in BOOLEAN
                            /\ MaxCalls \in Nat

VARIABLES is_initialized,  \* are calls to be logged?
          guard,           \* per thread, the functions whose key is set
          live,            \* the blocks of the C library that are allocated
          owned,           \* those that the program holds a pointer to
          calls            \* how many calls were made

heapVars    == <<live, owned>>
preloadVars == <<is_initialized, guard, heapVars, calls>>
vars        == <<frame, trackerVars, unwind_mutex, preloadVars>>

(***************************************************************************)
(* A call: its first step is the one of the libc function, except that     *)
(* free() logs the block before it releases it.                            *)
(***************************************************************************)
Begin(x, fn, arg, zero) ==
    frame' = [frame EXCEPT ![x] =
        [IdleFrame EXCEPT !.fn = fn, !.arg = arg, !.zero = zero,
                          !.pc = CASE fn = "free" -> "guard"
                                   [] fn = "fork" -> "fork_prepare"
                                   [] OTHER       -> "libc"]]

\* Bound: no more blocks are asked for than there are addresses.
Room == Cardinality(live)
        + Cardinality({x \in Activations :
              At(x, "libc") /\ frame[x].fn \in Allocators \cup {"realloc"}})
        < Cardinality(Addrs)

Allocate(x) ==
    /\ \E fn \in Allocators : /\ fn \in IF x[2] = 1 THEN ProgramFns ELSE ExternalFns
                              /\ Begin(x, fn, NULL, FALSE)
    /\ Room
    /\ UNCHANGED owned

Reallocate(x) ==
    /\ "realloc" \in ProgramFns /\ x[2] = 1 /\ Room
    /\ \E ptr \in owned \cup {NULL}, zero \in BOOLEAN :
           /\ Begin(x, "realloc", ptr, zero)
           /\ owned' = owned \ {ptr}

Free(x) ==
    /\ "free" \in ProgramFns /\ x[2] = 1
    /\ \E ptr \in owned \cup {NULL} : Begin(x, "free", ptr, FALSE) /\ owned' = owned \ {ptr}

\* dlopen() of any plugin; dlclose() of an open one that nobody else closes.
Load(x) ==
    /\ x[2] = 1
    /\ \E m \in Modules \ {Base[i] : i \in DOMAIN Base} :
           \/ "dlopen" \in ProgramFns /\ Begin(x, "dlopen", m, FALSE)
           \/ /\ "dlclose" \in ProgramFns /\ m \in LoadedModules
              /\ \A y \in Activations : frame[y].arg # m
              /\ Begin(x, "dlclose", m, FALSE)
    /\ UNCHANGED owned

Fork(x) == /\ "fork" \in ProgramFns /\ x[2] = 1
           /\ Begin(x, "fork", NULL, FALSE)
           /\ UNCHANGED owned

\* A nested call is one that the outer activation makes in unw_backtrace().
Call(x) ==
    /\ At(x, "idle")
    /\ x[2] > 1 => At(<<x[1], x[2] - 1>>, "unwind_trace")
    /\ calls < MaxCalls
    /\ calls' = calls + 1
    /\ Allocate(x) \/ Reallocate(x) \/ Free(x) \/ Load(x) \/ Fork(x)
    /\ UNCHANGED <<trackerVars, unwind_mutex, is_initialized, guard, live>>

(***************************************************************************)
(* The function returns: the program now owns the block of the result, and *)
(* still owns the one that realloc() failed to move.                       *)
(***************************************************************************)
Result(f) == IF f.fn = "realloc" /\ f.res = NULL /\ ~f.zero THEN f.arg ELSE f.res

Return_NullOwned(x) ==
    /\ frame' = [frame EXCEPT ![x] = IdleFrame]
    /\ owned' = IF x[2] = 1 THEN owned \cup {Result(frame[x])} ELSE owned

Return(x) ==
    /\ frame' = [frame EXCEPT ![x] = IdleFrame]
    /\ owned' = IF x[2] = 1 THEN owned \cup ({Result(frame[x])} \ {NULL}) ELSE owned

(***************************************************************************)
(* The functions of the C library.                                         *)
(***************************************************************************)
Got(x, ptr) == frame' = [frame EXCEPT ![x].res = ptr, ![x].pc = "guard"]

LibcAlloc(x) ==
    /\ At(x, "libc")
    /\ frame[x].fn \in Allocators \/ (frame[x].fn = "realloc" /\ frame[x].arg = NULL)
    /\ \/ \E a \in Addrs \ live : live' = live \cup {a} /\ Got(x, a)
       \/ MayFail /\ Got(x, NULL) /\ UNCHANGED live
    /\ UNCHANGED <<trackerVars, unwind_mutex, is_initialized, guard, owned, calls>>

\* realloc(ptr, 0) frees ptr; otherwise the block stays, moves, or cannot grow.
LibcRealloc(x) ==
    LET old == frame[x].arg
    IN  /\ At(x, "libc") /\ frame[x].fn = "realloc" /\ old # NULL
        /\ \/ frame[x].zero /\ live' = live \ {old} /\ Got(x, NULL)
           \/ ~frame[x].zero /\ UNCHANGED live /\ Got(x, old)
           \/ /\ ~frame[x].zero
              /\ \E a \in Addrs \ live : live' = (live \ {old}) \cup {a} /\ Got(x, a)
           \/ ~frame[x].zero /\ MayFail /\ UNCHANGED live /\ Got(x, NULL)
        /\ UNCHANGED <<trackerVars, unwind_mutex, is_initialized, guard, owned, calls>>

LibcFree(x) ==
    /\ At(x, "libc_free")
    /\ live' = live \ {frame[x].arg}
    /\ Return(x)
    /\ UNCHANGED <<trackerVars, unwind_mutex, is_initialized, guard, calls>>

\* dlopen() and dlclose() change the link map; only then is it marked dirty.
LoaderUnchanged == /\ UNCHANGED <<is_dirty, is_dirty_mutex, tracker_fd_mutex, fifo, clock>>
                   /\ UNCHANGED <<unwind_mutex, preloadVars>>

LibcDlopen(x) ==
    LET m == frame[x].arg
    IN  /\ At(x, "libc") /\ frame[x].fn = "dlopen" /\ ~LoaderLocked
        /\ loaded' = IF m \in LoadedModules THEN loaded ELSE Append(loaded, m)
        /\ Goto(x, "set_dirty")
        /\ LoaderUnchanged

\* A module that was opened twice stays when it is closed once.
LibcDlclose(x) ==
    /\ At(x, "libc") /\ frame[x].fn = "dlclose" /\ ~LoaderLocked
    /\ \/ UNCHANGED loaded
       \/ \E i \in DOMAIN loaded :
              /\ loaded[i] = frame[x].arg
              /\ loaded' = SubSeq(loaded, 1, i - 1) \o SubSeq(loaded, i + 1, Len(loaded))
    /\ Goto(x, "set_dirty")
    /\ LoaderUnchanged

LoadFailed(x) == /\ MayFail
                 /\ At(x, "libc") /\ frame[x].fn \in Loaders
                 /\ Goto(x, "return")
                 /\ UNCHANGED loaded /\ LoaderUnchanged

LoaderReturn(x) == /\ At(x, "return")
                   /\ Return(x)
                   /\ UNCHANGED <<trackerVars, unwind_mutex>>
                   /\ UNCHANGED <<is_initialized, guard, live, calls>>

(***************************************************************************)
(* The part of calloc(), malloc(), realloc() and free() around the log.    *)
(***************************************************************************)
Leave(x) == IF frame[x].fn = "free"
            THEN Goto(x, "libc_free") /\ UNCHANGED owned
            ELSE Return(x)

MustLog_OneKey(x) == is_initialized /\ \A t \in Threads : frame[x].fn \notin guard[t]

MustLog(x) == is_initialized /\ frame[x].fn \notin guard[x[1]]

Guard(x) ==
    LET f == frame[x]
        t == x[1]
    IN  /\ At(x, "guard")
        /\ IF MustLog(x)
           THEN /\ guard' = [guard EXCEPT ![t] = @ \cup {f.fn}]
                /\ \/ f.fn # "free" /\ Goto(x, "update_trylock")
                   \/ f.fn = "free" /\ f.arg # NULL /\ Goto(x, "unwind_lock")
                   \/ f.fn = "free" /\ f.arg = NULL /\ Goto(x, "unguard")
                /\ UNCHANGED owned
           ELSE Leave(x) /\ UNCHANGED guard
        /\ UNCHANGED <<trackerVars, unwind_mutex, is_initialized, live, calls>>

Unguard(x) ==
    /\ At(x, "unguard")
    /\ guard' = [guard EXCEPT ![x[1]] = @ \ {frame[x].fn}]
    /\ Leave(x)
    /\ UNCHANGED <<trackerVars, unwind_mutex, is_initialized, live, calls>>

(***************************************************************************)
(* fork(), seen from the parent: nothing is logged between the handlers.   *)
(***************************************************************************)
ForkPrepare(x) == /\ At(x, "fork_prepare")
                  /\ is_initialized' = FALSE
                  /\ Goto(x, "fork_parent")
                  /\ UNCHANGED <<trackerVars, unwind_mutex, guard, heapVars, calls>>

ForkParent(x) == /\ At(x, "fork_parent")
                 /\ is_initialized' = TRUE
                 /\ Return(x)
                 /\ UNCHANGED <<trackerVars, unwind_mutex, guard, live, calls>>

Init == /\ StackInit /\ TrackerInit
        /\ unwind_mutex = NULL
        /\ is_initialized = TRUE
        /\ guard = [t \in Threads |-> {}]
        /\ live = {} /\ owned = {}
        /\ calls = 0

\* What an activation does once it was called.
Step(x) == \/ TrackerStep(x) /\ UNCHANGED <<unwind_mutex, preloadVars>>
           \/ BacktraceStep(x) /\ UNCHANGED preloadVars
           \/ LibcAlloc(x)   \/ LibcRealloc(x) \/ LibcFree(x)
           \/ LibcDlopen(x)  \/ LibcDlclose(x) \/ LoadFailed(x) \/ LoaderReturn(x)
           \/ Guard(x)       \/ Unguard(x)
           \/ ForkPrepare(x) \/ ForkParent(x)

\* The program may be busy elsewhere, or done.
Rest == AllIdle /\ UNCHANGED vars

Next == (\E x \in Activations : Call(x) \/ Step(x)) \/ Rest

Spec == Init /\ [][Next]_vars

Pcs == {"idle", "guard", "libc", "libc_free", "unguard", "return",
        "fork_prepare", "fork_parent", "set_dirty", "set_dirty_store",
        "update_trylock", "update_check", "update_iterate", "update_unlock",
        "fprintf_lock", "fprintf_write",
        "unwind_lock", "unwind_size", "unwind_trace", "unwind_unlock"}

Pointers == Addrs \cup Modules \cup {NULL}

Records == [op : {"a", "b", "f", "m"}, addr : Pointers]

Frames == [pc : Pcs, fn : Fns \cup {"none"}, arg : Pointers, zero : BOOLEAN,
           res : Addrs \cup {NULL}, out : Seq(Records), ret : Pcs, ts : Nat]

\* The values of the variables of the whole library.
TypeOK == /\ frame \in [Activations -> Frames]
          /\ is_dirty \in BOOLEAN
          /\ {is_dirty_mutex, tracker_fd_mutex, unwind_mutex} \subseteq Threads \cup {NULL}
          /\ fifo \in Seq([op : {"a", "b", "f", "m"}, addr : Pointers, thr : Threads, ts : Nat])
          /\ clock \in Nat
          /\ loaded \in Seq(Modules)
          /\ is_initialized \in BOOLEAN
          /\ guard \in [Threads -> SUBSET Fns]
          /\ live \subseteq Addrs
          /\ owned \subseteq Addrs
          /\ calls \in 0..MaxCalls

(***************************************************************************)
(* The library implements the abstract log: every 'a' comes after the      *)
(* block exists and before the program gets it, every 'f' before the block *)
(* can be reused by another thread, and no record is lost or doubled.      *)
(* Programs of malloc(), calloc() and free() that do not run out of memory.*)
(***************************************************************************)
ShownLog == [i \in DOMAIN fifo |-> [op |-> fifo[i].op, addr |-> fifo[i].addr,
                                    thr |-> fifo[i].thr]]

Trace == INSTANCE HeapTrace WITH heap <- live, trace <- ShownLog

ImplementsTrace == Trace!Init /\ [][is_initialized => Trace!Next]_<<live, ShownLog>>

\* A block in the hands of the program is in the log as allocated: no leak is
\* missed, whatever calls of other threads came in between (preload.c:139-145).
OwnedIsTraced == is_initialized => owned \subseteq Traced(fifo)

\* A 'b' record follows the 'a' or 'f' of the same thread, with no other
\* thread's in between: jmprof-ip adds it to the last block (interpret.c:322).
BacktraceOfItsBlock ==
    \A i \in DOMAIN fifo : fifo[i].op = "b" =>
        \E j \in DOMAIN fifo : IsOwnerOf(fifo, i, j) /\ fifo[j].thr = fifo[i].thr

\* malloc_usable_size() is given a block that is allocated and that only this
\* thread can free: it never reads a released header (backtrace.c:42).
Holds(x) == IF At(x, "libc") THEN frame[x].arg ELSE Block(frame[x])

SizeOfOwnBlock ==
    \A x \in Activations : At(x, "unwind_size") /\ Block(frame[x]) # NULL =>
        /\ Block(frame[x]) \in live \ owned
        /\ \A y \in Activations \ {x} : Holds(y) # Block(frame[x])

\* Every 'f' record retracts a block that was announced: what free() and
\* realloc(ptr, 0) release is named by the record (preload.c:190-192).
FreesAreOfTraced ==
    \A i \in DOMAIN fifo : fifo[i].op = "f" =>
        \E j \in DOMAIN fifo : j < i /\ fifo[j].op = "a" /\ fifo[j].addr = fifo[i].addr

\* The log is in the order of its timestamps, the order of the reads of the
\* clock being that of the writes (tracker.c:104-122).
TimestampsOrdered ==
    \A i, j \in DOMAIN fifo : i < j => fifo[i].ts < fifo[j].ts

\* jmprof-ip can resolve each frame of a backtrace: the module it lies in was
\* reported by an earlier record (interpret.c:237 looks it up as it reads).
BacktraceResolvable ==
    \A i \in DOMAIN fifo : fifo[i].op = "b" =>
        \E j \in DOMAIN fifo : j < i /\ fifo[j].op = "m" /\ fifo[j].addr = fifo[i].addr

\* The modules of the start are reported, though the thread that finds the dirty
\* mutex held does not wait: a frame in one of them has its 'm' record, or the
\* flag is set, or a thread is about to write it (tracker.c:138-147).
AboutToReport(m) ==
    is_dirty \/ \E x \in Activations :
        \/ At(x, "update_iterate")
        \/ \E i \in DOMAIN frame[x].out : frame[x].out[i] = Record("m", m)

ModulesReported ==
    \A i \in DOMAIN fifo : fifo[i].op = "b" /\ fifo[i].addr \in {Base[k] : k \in DOMAIN Base} =>
        \/ \E j \in DOMAIN fifo : fifo[j].op = "m" /\ fifo[j].addr = fifo[i].addr
        \/ AboutToReport(fifo[i].addr)

\* The guard of its function stops a call made by libunwind before it is
\* logged, or the thread would wait for the unwind mutex it holds.
NestedCallUnlogged ==
    \A x \in Activations : x[2] > 1 => frame[x].pc \in {"idle", "libc", "guard"}

\* The threads that x waits for: the owner of the mutex it wants or, as dlopen()
\* and dlclose() do, those that hold the lock of the dynamic linker.
WaitsFor(x) == CASE At(x, "fprintf_lock") -> {tracker_fd_mutex} \ {NULL}
                 [] At(x, "unwind_lock")  -> {unwind_mutex} \ {NULL}
                 [] At(x, "libc") /\ frame[x].fn \in Loaders ->
                        {y[1] : y \in {z \in Activations : Iterating(z)}}
                 [] OTHER -> {}

GoesOn(t) == \E x \in Activations :
                 x[1] = t /\ ~At(x, "idle") /\ OnTop(x) /\ WaitsFor(x) = {}

\* Who waits, waits for a thread that is inside the library and goes on, or waits
\* for one that does: never in a circle, for itself, or for a thread that left the
\* library with the mutex (tracker.c:104-122 and :138-149, backtrace.c:39-58).
NoDeadlock ==
    \A x \in Activations : \A t \in WaitsFor(x) :
        \/ GoesOn(t)
        \/ \E y \in Activations :
               y[1] = t /\ OnTop(y) /\ \E u \in WaitsFor(y) : GoesOn(u)
==============================================================================
