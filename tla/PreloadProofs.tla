---------------------------- MODULE PreloadProofs ----------------------------
(***************************************************************************)
(* Theorems about Preload, for any number of threads, addresses, modules,  *)
(* calls and frames.  First the types, and what every log of libjmprof.so  *)
(* has, however many threads write it and whatever functions they call: an *)
(* order of its timestamps, a block for each backtrace, and the modules of *)
(* the start.  These rest on the mutexes of tracker.c and backtrace.c, and *)
(* the first also on how the calls of a thread nest.  Then the blocks:     *)
(* which thread holds each, what the log says of them, and that the log is *)
(* an abstract one.  Last, that nobody waits for ever for a mutex.         *)
(***************************************************************************)
EXTENDS Preload, SequenceTheorems, TLAPS

(***************************************************************************)
(* The types, and what the locals of a call hold while it runs: a record   *)
(* is left to print wherever one is printed, and `arg` is a block or a     *)
(* module according to the function.                                       *)
(***************************************************************************)
FrameOK(f) == /\ f.ret \notin {"fprintf_lock", "fprintf_write"}
              /\ f.pc \in {"fprintf_lock", "fprintf_write"} => f.out # <<>>
              /\ f.pc # "idle" => f.fn # "none"
              /\ f.fn \in Loaders => f.arg \in Modules
              /\ f.fn \notin Loaders => f.arg \in Addrs \cup {NULL}

FramesOK == \A x \in Activations : FrameOK(frame[x])

TypeInv == TypeOK /\ FramesOK

LEMMA IdleFrameType == IdleFrame \in Frames /\ FrameOK(IdleFrame)
  BY DEF IdleFrame, Frames, FrameOK, Pcs, Pointers, Records, Fns, Loaders

LEMMA InitTypeInv == Init => TypeInv
  <1> SUFFICES ASSUME Init PROVE TypeInv
    OBVIOUS
  <1> USE DEF Init, StackInit, TrackerInit
  <1>1. frame \in [Activations -> Frames] /\ FramesOK
    BY IdleFrameType DEF FramesOK
  <1>2. TypeOK
    BY <1>1, TrackerAssumption, PreloadAssumption DEF TypeOK
  <1> QED BY <1>1, <1>2 DEF TypeInv

\* A step replaces the frame of one activation.
LEMMA FrameUpdate ==
  ASSUME TypeInv, NEW x \in Activations, NEW f \in Frames, FrameOK(f),
         frame' = [frame EXCEPT ![x] = f]
  PROVE  frame' \in [Activations -> Frames] /\ FramesOK'
  BY DEF TypeInv, TypeOK, FramesOK

LEMMA FprintfFrame ==
  ASSUME TypeInv, NEW x \in Activations, ~At(x, "idle"),
         NEW next \in Pcs \ {"fprintf_lock", "fprintf_write"},
         NEW records \in Seq(Records), Fprintf(x, records, next)
  PROVE  frame' \in [Activations -> Frames] /\ FramesOK'
  <1> DEFINE f == [frame[x] EXCEPT !.out = records, !.ret = next,
                                   !.pc = IF records = <<>> THEN next ELSE "fprintf_lock"]
  <1>1. frame[x] \in Frames /\ FrameOK(frame[x]) /\ frame[x].fn # "none"
    BY DEF TypeInv, TypeOK, FramesOK, FrameOK, At
  <1> DEFINE p == IF records = <<>> THEN next ELSE "fprintf_lock"
  <1>p. p \in Pcs /\ (p \in {"fprintf_lock", "fprintf_write"} => records # <<>>)
    BY DEF Pcs
  <1>f. f = [frame[x] EXCEPT !.out = records, !.ret = next, !.pc = p]
    OBVIOUS
  <1> HIDE DEF p, f
  <1>2. f \in Frames /\ FrameOK(f)
    BY <1>1, <1>p, <1>f DEF Frames, FrameOK
  <1>3. frame' = [frame EXCEPT ![x] = f]
    BY <1>f DEF p, Fprintf, TypeInv, TypeOK
  <1> QED BY <1>2, <1>3, FrameUpdate

LEMMA GotoFrame ==
  ASSUME TypeInv, NEW x \in Activations, ~At(x, "idle"),
         NEW next \in Pcs \ {"fprintf_lock", "fprintf_write"},
         Goto(x, next)
  PROVE  frame' \in [Activations -> Frames] /\ FramesOK'
  <1> DEFINE f == [frame[x] EXCEPT !.pc = next]
  <1>1. frame[x] \in Frames /\ FrameOK(frame[x]) /\ frame[x].fn # "none"
    BY DEF TypeInv, TypeOK, FramesOK, FrameOK, At
  <1>2. f \in Frames /\ FrameOK(f)
    BY <1>1 DEF Frames, FrameOK
  <1>3. frame' = [frame EXCEPT ![x] = f]
    BY DEF Goto, TypeInv, TypeOK
  <1> QED BY <1>2, <1>3, FrameUpdate

LEMMA ReturnFrame ==
  ASSUME TypeInv, NEW x \in Activations, Return(x)
  PROVE  frame' \in [Activations -> Frames] /\ FramesOK' /\ owned' \subseteq Addrs
  <1>1. frame[x] \in Frames /\ FrameOK(frame[x])
    BY DEF TypeInv, TypeOK, FramesOK
  <1>2. frame' = [frame EXCEPT ![x] = IdleFrame]
    BY DEF Return
  <1>3. Result(frame[x]) \in Addrs \cup {NULL}
    BY <1>1 DEF Result, Frames, FrameOK, Loaders
  <1>4. owned' \subseteq Addrs
    BY <1>3 DEF Return, TypeInv, TypeOK
  <1> QED BY <1>2, <1>4, IdleFrameType, FrameUpdate

LEMMA LeaveFrame ==
  ASSUME TypeInv, NEW x \in Activations, ~At(x, "idle"), Leave(x)
  PROVE  frame' \in [Activations -> Frames] /\ FramesOK' /\ owned' \subseteq Addrs
  <1>1. CASE frame[x].fn = "free"
    <2>1. Goto(x, "libc_free") /\ owned' = owned
      BY <1>1 DEF Leave
    <2> QED BY <2>1, GotoFrame DEF Pcs, TypeInv, TypeOK
  <1>2. CASE frame[x].fn # "free"
    BY <1>2, ReturnFrame DEF Leave
  <1> QED BY <1>1, <1>2

LEMMA GotFrame ==
  ASSUME TypeInv, NEW x \in Activations, ~At(x, "idle"),
         NEW ptr \in Addrs \cup {NULL}, Got(x, ptr)
  PROVE  frame' \in [Activations -> Frames] /\ FramesOK'
  <1> DEFINE f == [frame[x] EXCEPT !.res = ptr, !.pc = "guard"]
  <1>1. frame[x] \in Frames /\ FrameOK(frame[x]) /\ frame[x].fn # "none"
    BY DEF TypeInv, TypeOK, FramesOK, FrameOK, At
  <1>p. "guard" \in Pcs
    BY DEF Pcs
  <1>2. f \in Frames /\ FrameOK(f)
    BY <1>1, <1>p DEF Frames, FrameOK
  <1>3. frame' = [frame EXCEPT ![x] = f]
    BY DEF Got, TypeInv, TypeOK
  <1> QED BY <1>2, <1>3, FrameUpdate

LEMMA BeginFrame ==
  ASSUME TypeInv, NEW x \in Activations, NEW fn \in Fns, NEW arg, NEW zero \in BOOLEAN,
         IF fn \in Loaders THEN arg \in Modules ELSE arg \in Addrs \cup {NULL},
         Begin(x, fn, arg, zero)
  PROVE  frame' \in [Activations -> Frames] /\ FramesOK'
  <1> DEFINE p == CASE fn = "free" -> "guard"
                    [] fn = "fork" -> "fork_prepare"
                    [] OTHER       -> "libc"
             f == [IdleFrame EXCEPT !.fn = fn, !.arg = arg, !.zero = zero, !.pc = p]
  <1>1. p \in Pcs \ {"fprintf_lock", "fprintf_write"}
    BY DEF Pcs
  <1>2. frame' = [frame EXCEPT ![x] = f]
    BY DEF Begin
  <1> HIDE DEF p
  <1>3. arg \in Pointers /\ fn # "none"
    BY DEF Pointers, Fns, Allocators, Loaders
  <1>4. f \in Frames /\ FrameOK(f)
    BY <1>1, <1>3, IdleFrameType DEF Frames, FrameOK
  <1> QED BY <1>2, <1>4, FrameUpdate

(***************************************************************************)
(* Every step preserves the types.                                         *)
(***************************************************************************)
LEMMA TrackerTypeInv ==
  ASSUME TypeInv, NEW x \in Activations, TrackerStep(x), UNCHANGED <<unwind_mutex, preloadVars>>
  PROVE  TypeInv'
  <1> x[1] \in Threads
    BY DEF Activations
  <1> ~At(x, "idle")
    BY DEF TrackerStep, FprintfLock, FprintfWrite, SetDirtyTrylock, SetDirtyStore,
           UpdateTrylock, UpdateCheck, UpdateIterate, UpdateUnlock, At
  <1> USE DEF preloadVars, heapVars, trackerVars
  <1>1. CASE FprintfLock(x)
    <2> DEFINE f == [frame[x] EXCEPT !.pc = "fprintf_write", !.ts = clock]
    <2>1. /\ frame[x] \in Frames /\ FrameOK(frame[x])
          /\ frame[x].out # <<>> /\ frame[x].fn # "none"
      BY <1>1 DEF FprintfLock, At, TypeInv, TypeOK, FramesOK, FrameOK
    <2>2. f \in Frames /\ FrameOK(f)
      <3>1. f \in Frames
        BY <2>1 DEF Frames, Pcs, TypeInv, TypeOK
      <3>2. /\ f.pc = "fprintf_write" /\ f.out = frame[x].out /\ f.ret = frame[x].ret
            /\ f.fn = frame[x].fn /\ f.arg = frame[x].arg
        BY <2>1 DEF Frames
      <3> QED BY <2>1, <3>1, <3>2 DEF FrameOK
    <2>3. frame' = [frame EXCEPT ![x] = f]
      BY <1>1 DEF FprintfLock, TypeInv, TypeOK
    <2>4. frame' \in [Activations -> Frames] /\ FramesOK'
      BY <2>2, <2>3, FrameUpdate
    <2> QED BY <1>1, <2>4 DEF FprintfLock, TypeInv, TypeOK
  <1>2. CASE FprintfWrite(x)
    <2> DEFINE rest == Tail(frame[x].out)
               p == IF rest = <<>> THEN frame[x].ret ELSE "fprintf_lock"
               f == [frame[x] EXCEPT !.out = rest, !.pc = p]
    <2>1. /\ frame[x] \in Frames /\ FrameOK(frame[x])
          /\ frame[x].out # <<>> /\ frame[x].fn # "none"
      BY <1>2 DEF FprintfWrite, At, TypeInv, TypeOK, FramesOK, FrameOK
    <2>2. rest \in Seq(Records) /\ Head(frame[x].out) \in Records
      BY <2>1 DEF Frames
    <2>3. p \in Pcs /\ (p \in {"fprintf_lock", "fprintf_write"} => rest # <<>>)
      BY <2>1 DEF Frames, FrameOK, Pcs
    <2>4. frame' = [frame EXCEPT ![x] = f]
      BY <1>2 DEF FprintfWrite, TypeInv, TypeOK
    <2>5. f \in Frames /\ FrameOK(f)
      <3> HIDE DEF rest, p
      <3> QED BY <2>1, <2>2, <2>3 DEF Frames, FrameOK
    <2>6. frame' \in [Activations -> Frames] /\ FramesOK'
      BY <2>4, <2>5, FrameUpdate
    <2> DEFINE R == [op : {"a", "b", "f", "m"}, addr : Pointers, thr : Threads, ts : Nat]
               r == [op |-> Head(frame[x].out).op, addr |-> Head(frame[x].out).addr,
                     thr |-> x[1], ts |-> frame[x].ts]
    <2>7. r \in R
      BY <2>1, <2>2 DEF Frames, Records
    <2>8. fifo' = Append(fifo, r) /\ fifo \in Seq(R)
      BY <1>2 DEF FprintfWrite, TypeInv, TypeOK
    <2>9. fifo' \in Seq(R)
      <3> HIDE DEF R, r
      <3> QED BY <2>7, <2>8
    <2> QED BY <1>2, <2>6, <2>9 DEF FprintfWrite, TypeInv, TypeOK
  <1>3. CASE SetDirtyTrylock(x)
    <2>1. Goto(x, "set_dirty_store") \/ Goto(x, "return")
      BY <1>3 DEF SetDirtyTrylock
    <2>2. frame' \in [Activations -> Frames] /\ FramesOK'
      BY <2>1, GotoFrame DEF Pcs
    <2> QED BY <1>3, <2>2 DEF SetDirtyTrylock, TypeInv, TypeOK
  <1>4. CASE SetDirtyStore(x)
    <2>1. frame' \in [Activations -> Frames] /\ FramesOK'
      BY <1>4, GotoFrame DEF SetDirtyStore, Pcs
    <2> QED BY <1>4, <2>1 DEF SetDirtyStore, TypeInv, TypeOK
  <1>5. CASE UpdateTrylock(x)
    <2>1. Goto(x, "update_check") \/ Goto(x, "unwind_lock")
      BY <1>5 DEF UpdateTrylock, AfterUpdate
    <2>2. frame' \in [Activations -> Frames] /\ FramesOK'
      BY <2>1, GotoFrame DEF Pcs
    <2> QED BY <1>5, <2>2 DEF UpdateTrylock, TypeInv, TypeOK
  <1>6. CASE UpdateCheck(x)
    <2>1. Goto(x, "update_iterate") \/ Goto(x, "unwind_lock")
      BY <1>6 DEF UpdateCheck, AfterUpdate
    <2>2. frame' \in [Activations -> Frames] /\ FramesOK'
      BY <2>1, GotoFrame DEF Pcs
    <2> QED BY <1>6, <2>2 DEF UpdateCheck, TypeInv, TypeOK
  <1>7. CASE UpdateIterate(x)
    <2> DEFINE records == [i \in 1..Len(loaded) |-> Record("m", loaded[i])]
    <2>1. loaded \in Seq(Modules) /\ Len(loaded) \in Nat
      BY DEF TypeInv, TypeOK
    <2>2. \A i \in 1..Len(loaded) : Record("m", loaded[i]) \in Records
      BY <2>1 DEF Record, Records, Pointers
    <2>3. records \in Seq(Records)
      BY <2>1, <2>2
    <2>4. Fprintf(x, records, "update_unlock")
      BY <1>7 DEF UpdateIterate
    <2>5. frame' \in [Activations -> Frames] /\ FramesOK'
      BY <2>3, <2>4, FprintfFrame DEF Pcs
    <2> QED BY <1>7, <2>5 DEF UpdateIterate, TypeInv, TypeOK
  <1>8. CASE UpdateUnlock(x)
    <2>1. frame' \in [Activations -> Frames] /\ FramesOK'
      BY <1>8, GotoFrame DEF UpdateUnlock, AfterUpdate, Pcs
    <2> QED BY <1>8, <2>1 DEF UpdateUnlock, TypeInv, TypeOK
  <1> QED BY <1>1, <1>2, <1>3, <1>4, <1>5, <1>6, <1>7, <1>8 DEF TrackerStep

LEMMA BacktraceTypeInv ==
  ASSUME TypeInv, NEW x \in Activations, BacktraceStep(x), UNCHANGED preloadVars
  PROVE  TypeInv'
  <1> x[1] \in Threads
    BY DEF Activations
  <1> USE DEF preloadVars, heapVars, trackerVars
  <1>0. frame[x] \in Frames /\ FrameOK(frame[x])
    BY DEF TypeInv, TypeOK, FramesOK
  <1> ~At(x, "idle")
    BY DEF BacktraceStep, UnwindLock, UnwindSize, UnwindTrace, UnwindUnlock, At
  <1>1. CASE UnwindLock(x)
    <2>1. frame' \in [Activations -> Frames] /\ FramesOK'
      BY <1>1, GotoFrame DEF UnwindLock, Pcs
    <2> QED BY <1>1, <2>1 DEF UnwindLock, TypeInv, TypeOK
  <1>2. CASE UnwindSize(x)
    <2> DEFINE r == Record(Opcode(frame[x]), Block(frame[x]))
    <2>1. Opcode(frame[x]) \in {"a", "f"} /\ Block(frame[x]) \in Pointers
      BY <1>0 DEF Opcode, Block, Frames, FrameOK, Pointers
    <2>2. r \in Records
      BY <2>1 DEF Record, Records
    <2>3. <<r>> \in Seq(Records) /\ Fprintf(x, <<r>>, "unwind_trace")
      BY <1>2, <2>2 DEF UnwindSize
    <2>4. frame' \in [Activations -> Frames] /\ FramesOK'
      BY <2>3, FprintfFrame DEF Pcs
    <2> QED BY <1>2, <2>4 DEF UnwindSize, TypeInv, TypeOK
  <1>3. CASE UnwindTrace(x)
    <2>1. PICK n \in 0..MaxFrames : \E m \in [1..n -> LoadedModules] :
              Fprintf(x, [i \in 1..n |-> Record("b", m[i])], "unwind_unlock")
      BY <1>3 DEF UnwindTrace
    <2>2. PICK mods \in [1..n -> LoadedModules] :
              Fprintf(x, [i \in 1..n |-> Record("b", mods[i])], "unwind_unlock")
      BY <2>1
    <2>3. n \in Nat
      BY BacktraceAssumption DEF MAX_BACKTRACE_COUNT
    <2>4. \A i \in 1..n : Record("b", mods[i]) \in Records
      <3>1. LoadedModules \subseteq Modules
        BY DEF LoadedModules, TypeInv, TypeOK
      <3> QED BY <3>1 DEF Record, Records, Pointers
    <2>5. [i \in 1..n |-> Record("b", mods[i])] \in Seq(Records)
      BY <2>3, <2>4
    <2>6. frame' \in [Activations -> Frames] /\ FramesOK'
      BY <2>2, <2>5, FprintfFrame DEF Pcs
    <2> QED BY <1>3, <2>6 DEF UnwindTrace, TypeInv, TypeOK
  <1>4. CASE UnwindUnlock(x)
    <2>1. frame' \in [Activations -> Frames] /\ FramesOK'
      BY <1>4, GotoFrame DEF UnwindUnlock, Pcs
    <2> QED BY <1>4, <2>1 DEF UnwindUnlock, TypeInv, TypeOK
  <1> QED BY <1>1, <1>2, <1>3, <1>4 DEF BacktraceStep

LEMMA CallTypeInv ==
  ASSUME TypeInv, NEW x \in Activations, Call(x)
  PROVE  TypeInv'
  <1> USE DEF heapVars, trackerVars
  <1>1. owned \subseteq Addrs
    BY DEF TypeInv, TypeOK
  <1>2. /\ frame' \in [Activations -> Frames] /\ FramesOK'
        /\ owned' \subseteq Addrs
    <2>1. CASE Allocate(x)
      <3>1. PICK fn \in Allocators : Begin(x, fn, NULL, FALSE)
        BY <2>1 DEF Allocate
      <3>2. fn \in Fns /\ fn \notin Loaders
        BY DEF Fns, Allocators, Loaders
      <3> QED BY <1>1, <2>1, <3>1, <3>2, BeginFrame DEF Allocate
    <2>2. CASE Reallocate(x)
      <3>1. PICK ptr \in owned \cup {NULL}, zero \in BOOLEAN :
                Begin(x, "realloc", ptr, zero) /\ owned' = owned \ {ptr}
        BY <2>2 DEF Reallocate
      <3>2. "realloc" \in Fns /\ "realloc" \notin Loaders
        BY DEF Fns, Loaders
      <3> QED BY <1>1, <3>1, <3>2, BeginFrame
    <2>3. CASE Free(x)
      <3>1. PICK ptr \in owned \cup {NULL} :
                Begin(x, "free", ptr, FALSE) /\ owned' = owned \ {ptr}
        BY <2>3 DEF Free
      <3>2. "free" \in Fns /\ "free" \notin Loaders
        BY DEF Fns, Loaders
      <3> QED BY <1>1, <3>1, <3>2, BeginFrame
    <2>4. CASE Load(x)
      <3>1. PICK m \in Modules : Begin(x, "dlopen", m, FALSE) \/ Begin(x, "dlclose", m, FALSE)
        BY <2>4 DEF Load
      <3>2. {"dlopen", "dlclose"} \subseteq Fns \cap Loaders
        BY DEF Fns, Loaders
      <3>3. frame' \in [Activations -> Frames] /\ FramesOK'
        BY <3>1, <3>2, BeginFrame
      <3> QED BY <1>1, <2>4, <3>3 DEF Load
    <2>5. CASE Fork(x)
      <3>1. "fork" \in Fns /\ "fork" \notin Loaders
        BY DEF Fns, Loaders
      <3> QED BY <1>1, <2>5, <3>1, BeginFrame DEF Fork
    <2> QED BY <2>1, <2>2, <2>3, <2>4, <2>5 DEF Call
  <1>3. calls' \in 0..MaxCalls
    BY PreloadAssumption DEF Call, TypeInv, TypeOK
  <1> QED BY <1>2, <1>3 DEF Call, TypeInv, TypeOK

LEMMA LibraryTypeInv ==
  ASSUME TypeInv, NEW x \in Activations,
         \/ LibcAlloc(x)  \/ LibcRealloc(x) \/ LibcFree(x)
         \/ LibcDlopen(x) \/ LibcDlclose(x) \/ LoadFailed(x) \/ LoaderReturn(x)
         \/ Guard(x)      \/ Unguard(x)     \/ ForkPrepare(x) \/ ForkParent(x)
  PROVE  TypeInv'
  <1> x[1] \in Threads
    BY DEF Activations
  <1> USE DEF heapVars, trackerVars, preloadVars, LoaderUnchanged
  <1>0. frame[x] \in Frames /\ FrameOK(frame[x])
    BY DEF TypeInv, TypeOK, FramesOK
  <1> ~At(x, "idle")
    BY DEF LibcAlloc, LibcRealloc, LibcFree, LibcDlopen, LibcDlclose, LoadFailed,
           LoaderReturn, Guard, Unguard, ForkPrepare, ForkParent, At
  <1>1. CASE LibcAlloc(x)
    <2>1. frame' \in [Activations -> Frames] /\ FramesOK' /\ live' \subseteq Addrs
      BY <1>1, GotFrame DEF LibcAlloc, TypeInv, TypeOK
    <2> QED BY <1>1, <2>1 DEF LibcAlloc, TypeInv, TypeOK
  <1>2. CASE LibcRealloc(x)
    <2>1. frame[x].arg \in Addrs \cup {NULL}
      BY <1>0, <1>2 DEF LibcRealloc, FrameOK, Loaders
    <2>2. frame' \in [Activations -> Frames] /\ FramesOK'
      BY <1>2, <2>1, GotFrame DEF LibcRealloc
    <2>3. live' \subseteq Addrs
      BY <1>2 DEF LibcRealloc, TypeInv, TypeOK
    <2> QED BY <1>2, <2>2, <2>3 DEF LibcRealloc, TypeInv, TypeOK
  <1>3. CASE LibcFree(x)
    BY <1>3, ReturnFrame DEF LibcFree, TypeInv, TypeOK
  <1>4. CASE LibcDlopen(x)
    <2>1. frame[x].arg \in Modules
      BY <1>0, <1>4 DEF LibcDlopen, FrameOK, Loaders
    <2>2. loaded' \in Seq(Modules)
      BY <1>4, <2>1 DEF LibcDlopen, TypeInv, TypeOK
    <2>3. frame' \in [Activations -> Frames] /\ FramesOK'
      BY <1>4, GotoFrame DEF LibcDlopen, Pcs
    <2> QED BY <1>4, <2>2, <2>3 DEF LibcDlopen, TypeInv, TypeOK
  <1>5. CASE LibcDlclose(x)
    <2>1. loaded \in Seq(Modules)
      BY DEF TypeInv, TypeOK
    <2>2. \A i \in DOMAIN loaded :
              SubSeq(loaded, 1, i - 1) \o SubSeq(loaded, i + 1, Len(loaded)) \in Seq(Modules)
      <3> TAKE i \in DOMAIN loaded
      <3>1. i \in 1..Len(loaded)
        BY <2>1
      <3>2. SubSeq(loaded, 1, i - 1) \in Seq(Modules)
        BY <2>1, <3>1, SubSeqProperties
      <3>3. SubSeq(loaded, i + 1, Len(loaded)) \in Seq(Modules)
        BY <2>1, <3>1, SubSeqProperties
      <3> QED BY <3>2, <3>3, ConcatProperties
    <2>3. loaded' \in Seq(Modules)
      BY <1>5, <2>1, <2>2 DEF LibcDlclose
    <2>4. frame' \in [Activations -> Frames] /\ FramesOK'
      BY <1>5, GotoFrame DEF LibcDlclose, Pcs
    <2> QED BY <1>5, <2>3, <2>4 DEF LibcDlclose, TypeInv, TypeOK
  <1>6. CASE LoadFailed(x)
    <2>1. frame' \in [Activations -> Frames] /\ FramesOK'
      BY <1>6, GotoFrame DEF LoadFailed, Pcs
    <2> QED BY <1>6, <2>1 DEF LoadFailed, TypeInv, TypeOK
  <1>7. CASE LoaderReturn(x)
    BY <1>7, ReturnFrame DEF LoaderReturn, TypeInv, TypeOK
  <1>8. CASE Guard(x)
    <2>0. frame[x].fn \in Fns \cup {"none"}
      BY <1>0 DEF Frames
    <2>1. CASE MustLog(x)
      <3>1. Goto(x, "update_trylock") \/ Goto(x, "unwind_lock") \/ Goto(x, "unguard")
        BY <1>8, <2>1 DEF Guard
      <3>2. frame' \in [Activations -> Frames] /\ FramesOK'
        BY <3>1, GotoFrame DEF Pcs
      <3>3. frame[x].fn # "none"
        BY <1>0 DEF FrameOK, At
      <3>4. guard' \in [Threads -> SUBSET Fns]
        BY <1>8, <2>0, <2>1, <3>3 DEF Guard, TypeInv, TypeOK
      <3> QED BY <1>8, <2>1, <3>2, <3>4 DEF Guard, TypeInv, TypeOK
    <2>2. CASE ~MustLog(x)
      BY <1>8, <2>2, LeaveFrame DEF Guard, TypeInv, TypeOK
    <2> QED BY <2>1, <2>2
  <1>9. CASE Unguard(x)
    <2>1. guard' \in [Threads -> SUBSET Fns]
      BY <1>9 DEF Unguard, TypeInv, TypeOK
    <2> QED BY <1>9, <2>1, LeaveFrame DEF Unguard, TypeInv, TypeOK
  <1>10. CASE ForkPrepare(x)
    <2>1. frame' \in [Activations -> Frames] /\ FramesOK'
      BY <1>10, GotoFrame DEF ForkPrepare, Pcs
    <2> QED BY <1>10, <2>1 DEF ForkPrepare, TypeInv, TypeOK
  <1>11. CASE ForkParent(x)
    BY <1>11, ReturnFrame DEF ForkParent, TypeInv, TypeOK
  <1> QED BY <1>1, <1>2, <1>3, <1>4, <1>5, <1>6, <1>7, <1>8, <1>9, <1>10, <1>11

LEMMA NextTypeInv == TypeInv /\ [Next]_vars => TypeInv'
  <1> SUFFICES ASSUME TypeInv, [Next]_vars PROVE TypeInv'
    OBVIOUS
  <1>1. CASE UNCHANGED vars
    BY <1>1 DEF vars, trackerVars, preloadVars, heapVars, TypeInv, TypeOK, FramesOK
  <1>2. ASSUME NEW x \in Activations, Call(x) PROVE TypeInv'
    BY <1>2, CallTypeInv
  <1>3. ASSUME NEW x \in Activations, Step(x) PROVE TypeInv'
    BY <1>3, TrackerTypeInv, BacktraceTypeInv, LibraryTypeInv DEF Step
  <1> QED BY <1>1, <1>2, <1>3 DEF Next, Rest

(***************************************************************************)
(* The variables of the library always have their types: the locals of a   *)
(* call are those of its function wherever it stands (preload.c, tracker.c *)
(* and backtrace.c).                                                       *)
(***************************************************************************)
THEOREM TypeCorrect == Spec => []TypeOK
  <1>1. Spec => []TypeInv
    BY InitTypeInv, NextTypeInv, PTL DEF Spec
  <1>2. TypeInv => TypeOK
    BY DEF TypeInv
  <1> QED BY <1>1, <1>2, PTL

(***************************************************************************)
(* A step changes the locals of one activation, and only of one that is    *)
(* not waiting for a nested call: the others of a thread stand in          *)
(* unw_backtrace() until the deepest returns.                              *)
(***************************************************************************)
Nested == \A x, y \in Activations :
              x[1] = y[1] /\ x[2] < y[2] /\ ~At(y, "idle") => At(x, "unwind_trace")

LEMMA OneFrame ==
  ASSUME TypeInv, NEW x \in Activations, Call(x) \/ Step(x)
  PROVE  \A y \in Activations \ {x} : frame'[y] = frame[y]
  <1> frame \in [Activations -> Frames]
    BY DEF TypeInv, TypeOK
  <1>1. CASE Call(x)
    <2>1. PICK fn, arg, zero : Begin(x, fn, arg, zero)
      BY <1>1 DEF Call, Allocate, Reallocate, Free, Load, Fork
    <2> QED BY <2>1 DEF Begin
  <1>2. CASE TrackerStep(x)
    BY <1>2 DEF TrackerStep, FprintfLock, FprintfWrite, SetDirtyTrylock, SetDirtyStore,
                UpdateTrylock, UpdateCheck, UpdateIterate, UpdateUnlock, Goto, Fprintf
  <1>3. CASE BacktraceStep(x)
    BY <1>3 DEF BacktraceStep, UnwindLock, UnwindSize, UnwindTrace, UnwindUnlock, Goto, Fprintf
  <1>4. CASE LibcAlloc(x) \/ LibcRealloc(x)
    BY <1>4 DEF LibcAlloc, LibcRealloc, Got
  <1>5. CASE LibcFree(x) \/ LoaderReturn(x) \/ ForkParent(x)
    BY <1>5 DEF LibcFree, LoaderReturn, ForkParent, Return
  <1>6. CASE LibcDlopen(x) \/ LibcDlclose(x) \/ LoadFailed(x) \/ ForkPrepare(x)
    BY <1>6 DEF LibcDlopen, LibcDlclose, LoadFailed, ForkPrepare, Goto
  <1>7. CASE Guard(x) \/ Unguard(x)
    BY <1>7 DEF Guard, Unguard, Leave, Return, Goto
  <1> QED BY <1>1, <1>2, <1>3, <1>4, <1>5, <1>6, <1>7 DEF Step

LEMMA StepOnTop ==
  ASSUME NEW x \in Activations, Step(x)
  PROVE  ~At(x, "unwind_trace") \/ OnTop(x)
  BY DEF Step, TrackerStep, BacktraceStep, FprintfLock, FprintfWrite, SetDirtyTrylock,
         SetDirtyStore, UpdateTrylock, UpdateCheck, UpdateIterate, UpdateUnlock,
         UnwindLock, UnwindSize, UnwindTrace, UnwindUnlock, LibcAlloc, LibcRealloc,
         LibcFree, LibcDlopen, LibcDlclose, LoadFailed, LoaderReturn, Guard, Unguard,
         ForkPrepare, ForkParent, At

LEMMA NestedStep ==
  ASSUME TypeInv, Nested, NEW x \in Activations, Call(x) \/ Step(x)
  PROVE  Nested'
  <1> SUFFICES ASSUME NEW y \in Activations, NEW z \in Activations,
                      y[1] = z[1], y[2] < z[2], frame'[z].pc # "idle"
               PROVE  frame'[y].pc = "unwind_trace"
    BY DEF Nested, At
  <1> USE OneFrame
  <1>0. \A v \in Activations : v = <<v[1], v[2]>> /\ v[2] \in 1..MaxDepth /\ v[2] \in Int
    BY CallStackAssumption DEF Activations
  <1>1. CASE y # x /\ z # x
    BY <1>1 DEF Nested, At
  <1>2. CASE y = x
    <2>1. z # x
      BY <1>0, <1>2
    <2>2. frame[z].pc # "idle"
      BY <2>1
    <2>3. At(x, "unwind_trace")
      BY <1>2, <2>2 DEF Nested, At
    <2>4. ~OnTop(x)
      BY <1>2, <1>0, <2>2 DEF OnTop, At
    <2>5. ~Call(x) /\ ~Step(x)
      BY <2>3, <2>4, StepOnTop DEF Call, At
    <2> QED BY <2>5
  <1>3. CASE z = x /\ y # x
    <2>1. CASE Step(x)
      <3>1. ~At(x, "idle")
        BY <2>1 DEF Step, TrackerStep, BacktraceStep, FprintfLock, FprintfWrite,
             SetDirtyTrylock, SetDirtyStore, UpdateTrylock, UpdateCheck, UpdateIterate,
             UpdateUnlock, UnwindLock, UnwindSize, UnwindTrace, UnwindUnlock, LibcAlloc,
             LibcRealloc, LibcFree, LibcDlopen, LibcDlclose, LoadFailed, LoaderReturn,
             Guard, Unguard, ForkPrepare, ForkParent, At
      <3> QED BY <1>3, <3>1 DEF Nested, At
    <2>2. CASE Call(x)
      <3> DEFINE outer == <<x[1], x[2] - 1>>
      <3>1. x[2] > 1 /\ outer \in Activations
        <4>1. x[2] \in 1..MaxDepth /\ y[2] \in 1..MaxDepth /\ y[2] < x[2]
          BY <1>0, <1>3
        <4>2. x[2] > 1 /\ x[2] - 1 \in 1..MaxDepth
          BY <4>1, CallStackAssumption
        <4>3. x[1] \in Threads
          BY DEF Activations
        <4> QED BY <4>2, <4>3 DEF Activations
      <3>2. At(outer, "unwind_trace")
        BY <2>2, <3>1 DEF Call
      <3>3. CASE y = outer
        BY <1>3, <3>2, <3>3 DEF At
      <3>4. CASE y # outer
        <4>1. y[2] # outer[2] /\ y[1] = outer[1]
          BY <1>0, <1>3, <3>4
        <4>2. y[2] < outer[2]
          BY <4>1, <1>0, <1>3, <3>1
        <4> QED BY <1>3, <3>1, <3>2, <4>1, <4>2 DEF Nested, At
      <3> QED BY <3>3, <3>4
    <2> QED BY <2>1, <2>2
  <1> QED BY <1>1, <1>2, <1>3

\* The calls of a thread nest in every state.
LEMMA NestedInv == Spec => [](TypeInv /\ Nested)
  <1>1. Init => TypeInv /\ Nested
    <2>1. Init => Nested
      BY DEF Init, StackInit, IdleFrame, Nested, At
    <2> QED BY <2>1, InitTypeInv
  <1>2. TypeInv /\ Nested /\ [Next]_vars => (TypeInv /\ Nested)'
    <2> SUFFICES ASSUME TypeInv, Nested, [Next]_vars PROVE Nested'
      BY NextTypeInv
    <2>1. CASE UNCHANGED vars
      BY <2>1 DEF vars, Nested, At
    <2>2. ASSUME NEW x \in Activations, Call(x) \/ Step(x) PROVE Nested'
      BY <2>2, NestedStep
    <2> QED BY <2>1, <2>2 DEF Next, Rest
  <1> QED BY <1>1, <1>2, PTL DEF Spec

(***************************************************************************)
(* The steps that neither print a record nor hold the unwind mutex, but    *)
(* may take or leave any other thing.                                      *)
(***************************************************************************)
Elsewhere(x) ==
    \/ Call(x)
    \/ SetDirtyTrylock(x) /\ UNCHANGED <<unwind_mutex, preloadVars>>
    \/ SetDirtyStore(x)   /\ UNCHANGED <<unwind_mutex, preloadVars>>
    \/ UpdateTrylock(x)   /\ UNCHANGED <<unwind_mutex, preloadVars>>
    \/ UpdateCheck(x)     /\ UNCHANGED <<unwind_mutex, preloadVars>>
    \/ UpdateUnlock(x)    /\ UNCHANGED <<unwind_mutex, preloadVars>>
    \/ LibcAlloc(x)       \/ LibcRealloc(x) \/ LibcFree(x)
    \/ LibcDlopen(x)      \/ LibcDlclose(x) \/ LoadFailed(x) \/ LoaderReturn(x)
    \/ Guard(x)           \/ Unguard(x)     \/ ForkPrepare(x) \/ ForkParent(x)

LoggingPcs == {"fprintf_lock", "fprintf_write",
               "unwind_size", "unwind_trace", "unwind_unlock"}

\* Where an activation goes: its locals are those of a call, and `pc` is one.
LEMMA NextPc ==
  ASSUME TypeInv, NEW x \in Activations
  PROVE  /\ \A label : Goto(x, label) => frame'[x].pc = label
         /\ \A ptr : Got(x, ptr) => frame'[x].pc = "guard"
         /\ Return(x) => frame'[x].pc = "idle"
         /\ \A records, next : Fprintf(x, records, next) =>
                /\ frame'[x].out = records /\ frame'[x].ret = next
                /\ frame'[x].pc = IF records = <<>> THEN next ELSE "fprintf_lock"
  <1> frame \in [Activations -> Frames] /\ frame[x] \in Frames
    BY DEF TypeInv, TypeOK
  <1>1. ASSUME NEW label, Goto(x, label) PROVE frame'[x].pc = label
    BY <1>1 DEF Goto, Frames
  <1>2. ASSUME NEW ptr, Got(x, ptr) PROVE frame'[x].pc = "guard"
    BY <1>2 DEF Got, Frames
  <1>3. ASSUME Return(x) PROVE frame'[x].pc = "idle"
    BY <1>3 DEF Return, IdleFrame
  <1>4. ASSUME NEW records, NEW next, Fprintf(x, records, next)
        PROVE  /\ frame'[x].out = records /\ frame'[x].ret = next
               /\ frame'[x].pc = IF records = <<>> THEN next ELSE "fprintf_lock"
    <2> DEFINE p == IF records = <<>> THEN next ELSE "fprintf_lock"
    <2>1. frame'[x] = [frame[x] EXCEPT !.out = records, !.ret = next, !.pc = p]
      BY <1>4 DEF Fprintf
    <2> HIDE DEF p
    <2>2. frame'[x].out = records /\ frame'[x].ret = next /\ frame'[x].pc = p
      BY <2>1 DEF Frames
    <2> QED BY <2>2 DEF p
  <1> QED BY <1>1, <1>2, <1>3, <1>4

LEMMA ElsewhereQuiet ==
  ASSUME TypeInv, NEW x \in Activations, Elsewhere(x)
  PROVE  /\ UNCHANGED <<fifo, clock, tracker_fd_mutex, unwind_mutex>>
         /\ frame'[x].pc \notin LoggingPcs
  <1> frame \in [Activations -> Frames]
    BY DEF TypeInv, TypeOK
  <1> USE DEF trackerVars, preloadVars, LoaderUnchanged, LoggingPcs
  <1>1. CASE Call(x)
    <2>1. PICK fn, arg, zero : Begin(x, fn, arg, zero)
      BY <1>1 DEF Call, Allocate, Reallocate, Free, Load, Fork
    <2>2. frame'[x].pc \notin LoggingPcs
      BY <2>1 DEF Begin, IdleFrame
    <2> QED BY <1>1, <2>2 DEF Call
  <1>2. CASE \/ SetDirtyTrylock(x) /\ UNCHANGED <<unwind_mutex, preloadVars>>
             \/ SetDirtyStore(x)   /\ UNCHANGED <<unwind_mutex, preloadVars>>
             \/ UpdateTrylock(x)   /\ UNCHANGED <<unwind_mutex, preloadVars>>
             \/ UpdateCheck(x)     /\ UNCHANGED <<unwind_mutex, preloadVars>>
             \/ UpdateUnlock(x)    /\ UNCHANGED <<unwind_mutex, preloadVars>>
    BY <1>2, NextPc DEF SetDirtyTrylock, SetDirtyStore, UpdateTrylock, UpdateCheck, UpdateUnlock,
                AfterUpdate
  <1>3. CASE LibcAlloc(x) \/ LibcRealloc(x)
    BY <1>3, NextPc DEF LibcAlloc, LibcRealloc
  <1>4. CASE LibcFree(x) \/ LoaderReturn(x) \/ ForkParent(x)
    BY <1>4, NextPc DEF LibcFree, LoaderReturn, ForkParent
  <1>5. CASE LibcDlopen(x) \/ LibcDlclose(x) \/ LoadFailed(x) \/ ForkPrepare(x)
    BY <1>5, NextPc DEF LibcDlopen, LibcDlclose, LoadFailed, ForkPrepare
  <1>6. CASE Guard(x) \/ Unguard(x)
    BY <1>6, NextPc DEF Guard, Unguard, Leave
  <1> QED BY <1>1, <1>2, <1>3, <1>4, <1>5, <1>6 DEF Elsewhere

LEMMA StepCases ==
  ASSUME NEW x \in Activations, Call(x) \/ Step(x)
  PROVE  \/ Elsewhere(x)
         \/ UNCHANGED <<unwind_mutex, preloadVars>>
            /\ (FprintfLock(x) \/ FprintfWrite(x) \/ UpdateIterate(x))
         \/ BacktraceStep(x)
  BY DEF Step, TrackerStep, Elsewhere

(***************************************************************************)
(* The holder of tracker_fd_mutex is the one thread between stm_now() and  *)
(* write(); its timestamp is later than those in the log and the clock has *)
(* passed it.                                                              *)
(***************************************************************************)
WriterInv == /\ \A x \in Activations : At(x, "fprintf_write") =>
                    /\ tracker_fd_mutex = x[1]
                    /\ frame[x].ts < clock
                    /\ \A i \in DOMAIN fifo : fifo[i].ts < frame[x].ts
             /\ \A i \in DOMAIN fifo : fifo[i].ts < clock
             /\ TimestampsOrdered

LEMMA OneWriter ==
  ASSUME Nested, WriterInv, NEW x \in Activations, NEW y \in Activations,
         At(x, "fprintf_write"), At(y, "fprintf_write")
  PROVE  x = y
  <1>1. x[1] = y[1] /\ x[2] \in Int /\ y[2] \in Int
    BY CallStackAssumption DEF WriterInv, Activations
  <1>2. ~(x[2] < y[2]) /\ ~(y[2] < x[2])
    BY <1>1 DEF Nested, At
  <1>3. x = <<x[1], x[2]>> /\ y = <<y[1], y[2]>>
    BY DEF Activations
  <1> QED BY <1>1, <1>2, <1>3

LEMMA WriterStep ==
  ASSUME TypeInv, Nested, WriterInv, NEW x \in Activations, Call(x) \/ Step(x)
  PROVE  WriterInv'
  <1> frame \in [Activations -> Frames] /\ clock \in Nat
    BY DEF TypeInv, TypeOK
  <1>0. \A y \in Activations : frame[y].ts \in Nat
    BY DEF Frames
  <1>f. /\ \A i \in DOMAIN fifo : fifo[i].ts \in Nat
        /\ Len(fifo) \in Nat /\ DOMAIN fifo = 1..Len(fifo)
    <2> DEFINE R == [op : {"a", "b", "f", "m"}, addr : Pointers, thr : Threads, ts : Nat]
    <2>1. fifo \in Seq(R)
      BY DEF TypeInv, TypeOK
    <2>2. \A r \in R : r.ts \in Nat
      OBVIOUS
    <2> HIDE DEF R
    <2> QED BY <2>1, <2>2
  <1>1. CASE UNCHANGED <<fifo, clock, tracker_fd_mutex>> /\ frame'[x].pc # "fprintf_write"
    BY <1>1, OneFrame DEF WriterInv, At, TimestampsOrdered
  <1>2. CASE FprintfLock(x)
    <2>1. frame'[x].ts = clock /\ clock' = clock + 1 /\ fifo' = fifo /\ tracker_fd_mutex' = x[1]
      BY <1>2 DEF FprintfLock
    <2>2. \A y \in Activations \ {x} : frame'[y] = frame[y] /\ ~At(y, "fprintf_write")
      <3>1. tracker_fd_mutex = NULL
        BY <1>2 DEF FprintfLock
      <3>2. \A y \in Activations : y[1] # NULL
        BY CallStackAssumption DEF Activations
      <3> QED BY <3>1, <3>2, OneFrame DEF WriterInv
    <2>3. \A i \in DOMAIN fifo : fifo[i].ts < clock /\ fifo[i].ts < clock + 1
      BY <1>f DEF WriterInv
    <2> QED BY <2>1, <2>2, <2>3 DEF WriterInv, At, TimestampsOrdered
  <1>3. CASE FprintfWrite(x)
    <2>1. At(x, "fprintf_write")
      BY <1>3 DEF FprintfWrite, At
    <2>2. \A y \in Activations : frame'[y].pc # "fprintf_write"
      <3>1. frame'[x].pc # "fprintf_write"
        <4>1. frame[x].ret # "fprintf_write"
          BY DEF TypeInv, FramesOK, FrameOK
        <4> QED BY <1>3, <4>1 DEF FprintfWrite
      <3> QED BY <2>1, <3>1, OneFrame, OneWriter DEF At
    <2>3. /\ Len(fifo') = Len(fifo) + 1 /\ DOMAIN fifo' = 1..(Len(fifo) + 1)
          /\ fifo'[Len(fifo) + 1].ts = frame[x].ts
          /\ \A i \in 1..Len(fifo) : fifo'[i] = fifo[i]
          /\ clock' = clock
      BY <1>3, <1>f DEF FprintfWrite, TypeInv, TypeOK
    <2>4. frame[x].ts < clock /\ \A i \in 1..Len(fifo) : fifo[i].ts < frame[x].ts
      BY <2>1, <1>f DEF WriterInv
    <2>5. \A i \in DOMAIN fifo' : fifo'[i].ts < clock'
      BY <1>f, <2>3, <2>4 DEF WriterInv
    <2>6. ASSUME NEW i \in DOMAIN fifo', NEW j \in DOMAIN fifo', i < j
          PROVE  fifo'[i].ts < fifo'[j].ts
      <3>1. CASE j = Len(fifo) + 1
        <4>1. i \in 1..Len(fifo)
          BY <1>f, <2>3, <2>6, <3>1
        <4> QED BY <2>3, <2>4, <3>1, <4>1
      <3>2. CASE j # Len(fifo) + 1
        <4>1. i \in 1..Len(fifo) /\ j \in 1..Len(fifo)
          BY <1>f, <2>3, <2>6, <3>2
        <4> QED BY <1>f, <2>3, <2>6, <4>1 DEF WriterInv, TimestampsOrdered
      <3> QED BY <3>1, <3>2
    <2> QED BY <2>2, <2>5, <2>6 DEF WriterInv, At, TimestampsOrdered
  <1>4. CASE Elsewhere(x)
    BY <1>1, <1>4, ElsewhereQuiet DEF LoggingPcs
  <1>5. CASE UpdateIterate(x) \/ UnwindSize(x) \/ UnwindTrace(x)
    <2>1. PICK records, next : Fprintf(x, records, next) /\ next # "fprintf_write"
      <3>1. CASE UpdateIterate(x)
        BY <3>1 DEF UpdateIterate
      <3>2. CASE UnwindSize(x)
        BY <3>2 DEF UnwindSize
      <3>3. CASE UnwindTrace(x)
        BY <3>3 DEF UnwindTrace
      <3> QED BY <1>5, <3>1, <3>2, <3>3
    <2>2. frame'[x].pc # "fprintf_write"
      BY <2>1, NextPc
    <2> QED BY <1>1, <1>5, <2>2 DEF UpdateIterate, UnwindSize, UnwindTrace, trackerVars
  <1>6. CASE UnwindLock(x) \/ UnwindUnlock(x)
    BY <1>1, <1>6, NextPc DEF UnwindLock, UnwindUnlock, trackerVars
  <1> QED BY <1>2, <1>3, <1>4, <1>5, <1>6, StepCases DEF BacktraceStep

(***************************************************************************)
(* jmprof-ip may take the timestamps to be in order: whatever threads call *)
(* jm_tracker_fprintf() at once, the log is sorted by the clock and no two *)
(* records have the same time (tracker.c:96-128).                          *)
(***************************************************************************)
THEOREM LogInOrder == Spec => []TimestampsOrdered
  <1> DEFINE Inv == TypeInv /\ Nested /\ WriterInv
  <1>1. Init => WriterInv
    BY DEF Init, StackInit, TrackerInit, IdleFrame, WriterInv, TimestampsOrdered, At
  <1>2. TypeInv /\ Nested /\ WriterInv /\ [Next]_vars => WriterInv'
    <2> SUFFICES ASSUME TypeInv, Nested, WriterInv, [Next]_vars PROVE WriterInv'
      OBVIOUS
    <2>1. CASE UNCHANGED vars
      BY <2>1 DEF vars, trackerVars, WriterInv, TimestampsOrdered, At
    <2>2. ASSUME NEW x \in Activations, Call(x) \/ Step(x) PROVE WriterInv'
      BY <2>2, WriterStep
    <2> QED BY <2>1, <2>2 DEF Next, Rest
  <1>3. WriterInv => TimestampsOrdered
    BY DEF WriterInv
  <1> QED BY <1>1, <1>2, <1>3, NestedInv, PTL DEF Spec

(***************************************************************************)
(* The activation that holds unwind_mutex, and what it still has to print: *)
(* one 'a' or 'f' record and then, the owner of the backtrace being in the *)
(* log, nothing but 'b' records.  Whoever reports modules in between       *)
(* prints 'm' records only, which are of no block.                         *)
(***************************************************************************)
Printing(f) == f.pc \in {"fprintf_lock", "fprintf_write"}

InUnwind(f) == \/ f.pc \in {"unwind_size", "unwind_trace", "unwind_unlock"}
               \/ Printing(f) /\ f.ret \in {"unwind_trace", "unwind_unlock"}

HasOwner(log, t) == \E j \in DOMAIN log : IsOwnerOf(log, Len(log) + 1, j) /\ log[j].thr = t

OutOK(f) == \/ f.ret = "update_unlock" /\ \A i \in DOMAIN f.out : f.out[i].op = "m"
            \/ f.ret = "unwind_trace"  /\ Len(f.out) = 1 /\ f.out[1].op \in {"a", "f"}
            \/ f.ret = "unwind_unlock" /\ \A i \in DOMAIN f.out : f.out[i].op = "b"

UnwindInv ==
    /\ \A x \in Activations : InUnwind(frame[x]) =>
           /\ unwind_mutex = x[1]
           /\ \A y \in Activations \ {x} : ~InUnwind(frame[y])
    /\ \A x \in Activations : Printing(frame[x]) => OutOK(frame[x])
    /\ \A x \in Activations :
           \/ At(x, "unwind_trace")
           \/ Printing(frame[x]) /\ frame[x].ret = "unwind_unlock"
           => HasOwner(fifo, x[1])
    /\ BacktraceOfItsBlock

\* A record that is no block changes the owner of no backtrace.
LEMMA OwnerAppend ==
  ASSUME NEW S, NEW log \in Seq(S), NEW r \in S, NEW t
  PROVE  /\ ~IsBlock(r) /\ HasOwner(log, t) => HasOwner(Append(log, r), t)
         /\ IsBlock(r) /\ r.thr = t => HasOwner(Append(log, r), t)
         /\ \A i \in DOMAIN log, j \in DOMAIN log :
                IsOwnerOf(log, i, j) => IsOwnerOf(Append(log, r), i, j)
         /\ \A j \in DOMAIN log :
                IsOwnerOf(log, Len(log) + 1, j) => IsOwnerOf(Append(log, r), Len(log) + 1, j)
  <1> DEFINE new == Append(log, r)
  <1>1. /\ Len(log) \in Nat /\ DOMAIN log = 1..Len(log)
        /\ Len(new) = Len(log) + 1 /\ DOMAIN new = 1..(Len(log) + 1)
        /\ new[Len(log) + 1] = r
        /\ \A i \in DOMAIN log : new[i] = log[i]
    OBVIOUS
  <1> HIDE DEF new
  <1>2. ASSUME ~IsBlock(r), HasOwner(log, t) PROVE HasOwner(new, t)
    <2>1. PICK j \in DOMAIN log : IsOwnerOf(log, Len(log) + 1, j) /\ log[j].thr = t
      BY <1>2 DEF HasOwner
    <2>2. IsOwnerOf(new, Len(new) + 1, j)
      <3>1. j \in DOMAIN new /\ j < Len(new) + 1 /\ IsBlock(new[j])
        BY <1>1, <2>1 DEF IsOwnerOf
      <3>2. ASSUME NEW k \in DOMAIN new, j < k, k < Len(new) + 1 PROVE ~IsBlock(new[k])
        <4>1. CASE k = Len(log) + 1
          BY <1>1, <1>2, <4>1
        <4>2. CASE k \in DOMAIN log
          BY <1>1, <2>1, <3>2, <4>2 DEF IsOwnerOf
        <4> QED BY <1>1, <4>1, <4>2
      <3> QED BY <3>1, <3>2 DEF IsOwnerOf
    <2> QED BY <1>1, <2>1, <2>2 DEF HasOwner
  <1>3. ASSUME IsBlock(r), r.thr = t PROVE HasOwner(new, t)
    <2>1. IsOwnerOf(new, Len(new) + 1, Len(new))
      BY <1>1, <1>3 DEF IsOwnerOf
    <2> QED BY <1>1, <1>3, <2>1 DEF HasOwner
  <1>4. ASSUME NEW i \in 1..(Len(log) + 1), NEW j \in DOMAIN log, IsOwnerOf(log, i, j)
        PROVE  IsOwnerOf(new, i, j)
    <2>1. \A k \in DOMAIN new : j < k /\ k < i => k \in DOMAIN log
      BY <1>1
    <2> QED BY <1>1, <1>4, <2>1 DEF IsOwnerOf
  <1>5. \A i \in DOMAIN log : i \in 1..(Len(log) + 1)
    BY <1>1
  <1>6. Len(log) + 1 \in 1..(Len(log) + 1)
    BY <1>1
  <1> QED BY <1>2, <1>3, <1>4, <1>5, <1>6 DEF new

\* Every 'b' record has an owner: those of the log, and the one just written.
LEMMA WrittenBacktrace ==
  ASSUME NEW S, NEW log \in Seq(S), NEW r \in S,
         \A i \in DOMAIN log : log[i].op = "b" =>
             \E j \in DOMAIN log : IsOwnerOf(log, i, j) /\ log[j].thr = log[i].thr,
         r.op = "b" => HasOwner(log, r.thr),
         NEW i \in DOMAIN Append(log, r), Append(log, r)[i].op = "b"
  PROVE  \E j \in DOMAIN Append(log, r) : /\ IsOwnerOf(Append(log, r), i, j)
                                          /\ Append(log, r)[j].thr = Append(log, r)[i].thr
  <1> DEFINE new == Append(log, r)
  <1>1. /\ Len(log) \in Nat /\ DOMAIN log = 1..Len(log)
        /\ DOMAIN new = 1..(Len(log) + 1)
        /\ new[Len(log) + 1] = r
        /\ \A k \in DOMAIN log : new[k] = log[k] /\ k \in DOMAIN new
    OBVIOUS
  <1>2. /\ \A k \in DOMAIN log, j \in DOMAIN log : IsOwnerOf(log, k, j) => IsOwnerOf(new, k, j)
        /\ \A j \in DOMAIN log : IsOwnerOf(log, Len(log) + 1, j) => IsOwnerOf(new, Len(log) + 1, j)
    BY OwnerAppend
  <1>3. CASE i \in DOMAIN log
    <2>1. PICK j \in DOMAIN log : IsOwnerOf(log, i, j) /\ log[j].thr = log[i].thr
      BY <1>1, <1>3
    <2> HIDE DEF new
    <2>2. IsOwnerOf(new, i, j) /\ new[j].thr = new[i].thr /\ j \in DOMAIN new
      BY <1>1, <1>2, <1>3, <2>1
    <2> QED BY <2>2 DEF new
  <1>4. CASE i = Len(log) + 1
    <2>1. PICK j \in DOMAIN log : IsOwnerOf(log, Len(log) + 1, j) /\ log[j].thr = r.thr
      BY <1>1, <1>4 DEF HasOwner
    <2> HIDE DEF new
    <2>2. IsOwnerOf(new, i, j) /\ new[j].thr = new[i].thr /\ j \in DOMAIN new
      BY <1>1, <1>2, <1>4, <2>1
    <2> QED BY <2>2 DEF new
  <1> QED BY <1>1, <1>3, <1>4

LEMMA UnwindWrite ==
  ASSUME TypeInv, UnwindInv, NEW x \in Activations, FprintfWrite(x),
         UNCHANGED <<unwind_mutex, preloadVars>>
  PROVE  UnwindInv'
  <1> DEFINE f == frame[x]
             p == IF Tail(f.out) = <<>> THEN f.ret ELSE "fprintf_lock"
             r == [op |-> Head(f.out).op, addr |-> Head(f.out).addr, thr |-> x[1], ts |-> f.ts]
             R == [op : {"a", "b", "f", "m"}, addr : Pointers, thr : Threads, ts : Nat]
  <1>1. /\ f \in Frames /\ FrameOK(f) /\ f.pc = "fprintf_write"
        /\ f.out # <<>> /\ f.out \in Seq(Records) /\ x[1] \in Threads
    BY DEF TypeInv, TypeOK, FramesOK, FrameOK, FprintfWrite, At, Frames, Activations
  <1>2. /\ frame'[x].pc = p /\ frame'[x].out = Tail(f.out) /\ frame'[x].ret = f.ret
        /\ \A y \in Activations \ {x} : frame'[y] = frame[y]
    <2> HIDE DEF p
    <2>1. frame' = [frame EXCEPT ![x] = [frame[x] EXCEPT !.out = Tail(f.out), !.pc = p]]
      BY DEF FprintfWrite, p, TypeInv, TypeOK
    <2> QED BY <1>1, <2>1 DEF Frames, TypeInv, TypeOK
  <1>3. fifo \in Seq(R) /\ fifo' = Append(fifo, r) /\ unwind_mutex' = unwind_mutex
    BY DEF FprintfWrite, TypeInv, TypeOK
  <1>4. r \in R /\ r.op = Head(f.out).op /\ r.thr = x[1]
    <2>1. Head(f.out) \in Records /\ f.ts \in Nat
      BY <1>1 DEF Frames
    <2> QED BY <1>1, <2>1 DEF Records
  <1>5. OutOK(f) /\ Head(f.out) = f.out[1] /\ 1 \in DOMAIN f.out
    BY <1>1 DEF UnwindInv, Printing
  <1> HIDE DEF r, R, p
  <1>6. OutOK(frame'[x]) \/ Tail(f.out) = <<>>
    <2>1. /\ Tail(f.out) \in Seq(Records) /\ Len(Tail(f.out)) = Len(f.out) - 1
          /\ \A i \in DOMAIN Tail(f.out) : Tail(f.out)[i] = f.out[i + 1] /\ i + 1 \in DOMAIN f.out
      BY <1>1
    <2>2. Len(f.out) = 1 => Tail(f.out) = <<>>
      BY <2>1
    <2> QED BY <1>2, <1>5, <2>1, <2>2 DEF OutOK
  <1>7. r.op = "b" => f.ret = "unwind_unlock"
    BY <1>4, <1>5 DEF OutOK
  <1>8. BacktraceOfItsBlock'
    <2>1. r.op = "b" => HasOwner(fifo, r.thr)
      BY <1>1, <1>4, <1>7 DEF UnwindInv, Printing
    <2> QED BY <1>3, <1>4, <2>1, WrittenBacktrace DEF BacktraceOfItsBlock, UnwindInv
  <1>9. InUnwind(frame'[x]) => InUnwind(frame[x])
    BY <1>1, <1>2, <1>5 DEF p, InUnwind, Printing, OutOK
  <1>10. CASE f.ret = "update_unlock"
    <2>1. ~InUnwind(frame'[x]) /\ frame'[x].pc # "unwind_trace"
      BY <1>2, <1>10 DEF p, InUnwind, Printing
    <2>2. ~IsBlock(r)
      BY <1>4, <1>5, <1>10 DEF OutOK, IsBlock
    <2>3. \A t : HasOwner(fifo, t) => HasOwner(fifo', t)
      BY <1>3, <1>4, <2>2, OwnerAppend
    <2>4. Printing(frame'[x]) => OutOK(frame'[x])
      BY <1>2, <1>6, <1>10 DEF p, Printing
    <2> QED BY <1>2, <1>3, <1>8, <1>10, <2>1, <2>3, <2>4 DEF UnwindInv, At
  <1>11. CASE f.ret \in {"unwind_trace", "unwind_unlock"}
    <2>1. InUnwind(frame[x])
      BY <1>1, <1>11 DEF InUnwind, Printing
    <2>2. \A y \in Activations \ {x} : ~InUnwind(frame'[y])
      BY <1>2, <2>1 DEF UnwindInv
    <2>3. Printing(frame'[x]) => OutOK(frame'[x])
      BY <1>2, <1>6, <1>11 DEF p, Printing
    <2>4. HasOwner(fifo', x[1])
      <3>1. CASE f.ret = "unwind_trace"
        BY <1>3, <1>4, <1>5, <3>1, OwnerAppend DEF OutOK, IsBlock
      <3>2. CASE f.ret = "unwind_unlock"
        <4>1. HasOwner(fifo, x[1])
          BY <1>1, <3>2 DEF UnwindInv, Printing
        <4>2. ~IsBlock(r)
          BY <1>4, <1>5, <3>2 DEF OutOK, IsBlock
        <4> QED BY <1>3, <1>4, <4>1, <4>2, OwnerAppend
      <3> QED BY <1>11, <3>1, <3>2
    <2>5. \A y \in Activations \ {x} :
              ~(At(y, "unwind_trace") \/ (Printing(frame[y]) /\ frame[y].ret = "unwind_unlock"))
      BY <2>1 DEF UnwindInv, InUnwind, At
    <2> QED BY <1>2, <1>3, <1>8, <2>1, <2>2, <2>3, <2>4, <2>5 DEF UnwindInv, At
  <1> QED BY <1>5, <1>10, <1>11 DEF OutOK

LEMMA UnwindStep ==
  ASSUME TypeInv, UnwindInv, NEW x \in Activations, Call(x) \/ Step(x)
  PROVE  UnwindInv'
  <1> frame \in [Activations -> Frames]
    BY DEF TypeInv, TypeOK
  <1>0. \A y \in Activations : y[1] # NULL
    BY CallStackAssumption DEF Activations
  <1>q. ASSUME UNCHANGED <<fifo, unwind_mutex>>, ~InUnwind(frame'[x]),
               Printing(frame'[x]) => OutOK(frame'[x])
        PROVE  UnwindInv'
    <2>1. ~(At(x, "unwind_trace") \/ (Printing(frame[x]) /\ frame[x].ret = "unwind_unlock"))'
      BY <1>q DEF InUnwind, At
    <2> QED BY <1>q, <2>1, OneFrame DEF UnwindInv, At, BacktraceOfItsBlock
  <1>1. CASE Elsewhere(x)
    <2>1. frame'[x].pc \notin LoggingPcs /\ UNCHANGED <<fifo, unwind_mutex>>
      BY <1>1, ElsewhereQuiet
    <2> QED BY <1>q, <2>1 DEF LoggingPcs, InUnwind, Printing
  <1>2. CASE FprintfLock(x) /\ UNCHANGED <<unwind_mutex, preloadVars>>
    <2>1. frame'[x] = [frame[x] EXCEPT !.pc = "fprintf_write", !.ts = clock]
      BY <1>2 DEF FprintfLock
    <2>2. /\ frame[x].pc = "fprintf_lock" /\ frame'[x].pc = "fprintf_write"
          /\ frame'[x].ret = frame[x].ret /\ frame'[x].out = frame[x].out
      BY <1>2, <2>1 DEF FprintfLock, At, Frames
    <2>3. /\ InUnwind(frame'[x]) <=> InUnwind(frame[x])
          /\ OutOK(frame'[x]) <=> OutOK(frame[x])
          /\ Printing(frame[x])
      BY <2>2 DEF InUnwind, OutOK, Printing
    <2>4. UNCHANGED <<fifo, unwind_mutex>>
      BY <1>2 DEF FprintfLock
    <2> QED BY <2>2, <2>3, <2>4, OneFrame DEF UnwindInv, At, BacktraceOfItsBlock
  <1>3. CASE FprintfWrite(x) /\ UNCHANGED <<unwind_mutex, preloadVars>>
    BY <1>3, UnwindWrite
  <1>4. CASE UpdateIterate(x) /\ UNCHANGED <<unwind_mutex, preloadVars>>
    <2> DEFINE records == [i \in 1..Len(loaded) |-> Record("m", loaded[i])]
    <2>1. \A i \in DOMAIN records : records[i].op = "m"
      BY DEF Record
    <2>2. Fprintf(x, records, "update_unlock")
      BY <1>4 DEF UpdateIterate
    <2> HIDE DEF records
    <2>3. ~InUnwind(frame'[x]) /\ OutOK(frame'[x])
      BY <2>1, <2>2, NextPc DEF InUnwind, Printing, OutOK
    <2> QED BY <1>4, <1>q, <2>3 DEF UpdateIterate, trackerVars
  <1>5. CASE UnwindLock(x)
    <2>1. \A y \in Activations : ~InUnwind(frame[y])
      BY <1>0, <1>5 DEF UnwindLock, UnwindInv
    <2>2. frame'[x].pc = "unwind_size"
      BY <1>5, NextPc DEF UnwindLock
    <2>3. fifo' = fifo /\ unwind_mutex' = x[1]
      BY <1>5 DEF UnwindLock, trackerVars
    <2> QED BY <2>1, <2>2, <2>3, OneFrame
            DEF UnwindInv, InUnwind, Printing, At, BacktraceOfItsBlock
  <1>6. CASE UnwindSize(x)
    <2> DEFINE r == Record(Opcode(frame[x]), Block(frame[x]))
    <2>1. r.op \in {"a", "f"}
      BY DEF Record, Opcode
    <2> HIDE DEF r
    <2>2. Fprintf(x, <<r>>, "unwind_trace")
      BY <1>6 DEF UnwindSize, r
    <2>3. frame'[x].pc = "fprintf_lock" /\ frame'[x].ret = "unwind_trace" /\ frame'[x].out = <<r>>
      <3> DEFINE records == <<r>>
      <3>1. records # <<>> /\ Fprintf(x, records, "unwind_trace")
        BY <2>2
      <3> HIDE DEF records
      <3>2. /\ frame'[x].pc = "fprintf_lock" /\ frame'[x].ret = "unwind_trace"
            /\ frame'[x].out = records
        BY <3>1, NextPc
      <3> QED BY <3>2 DEF records
    <2>4. OutOK(frame'[x])
      BY <2>1, <2>3 DEF OutOK
    <2>5. InUnwind(frame[x])
      BY <1>6 DEF UnwindSize, At, InUnwind
    <2>6. UNCHANGED <<fifo, unwind_mutex>>
      BY <1>6 DEF UnwindSize, trackerVars
    <2> QED BY <2>3, <2>4, <2>5, <2>6, OneFrame DEF UnwindInv, At, BacktraceOfItsBlock
  <1>7. CASE UnwindTrace(x)
    <2>1. PICK n \in 0..MaxFrames : \E m \in [1..n -> LoadedModules] :
              Fprintf(x, [i \in 1..n |-> Record("b", m[i])], "unwind_unlock")
      BY <1>7 DEF UnwindTrace
    <2>2. PICK m \in [1..n -> LoadedModules] :
              Fprintf(x, [i \in 1..n |-> Record("b", m[i])], "unwind_unlock")
      BY <2>1
    <2> DEFINE records == [i \in 1..n |-> Record("b", m[i])]
    <2>3. \A i \in DOMAIN records : records[i].op = "b"
      BY DEF Record
    <2>4. Fprintf(x, records, "unwind_unlock")
      BY <2>2
    <2> HIDE DEF records
    <2>5. /\ frame'[x].pc \in {"fprintf_lock", "unwind_unlock"}
          /\ OutOK(frame'[x])
      BY <2>3, <2>4, NextPc DEF OutOK
    <2>6. InUnwind(frame[x]) /\ At(x, "unwind_trace")
      BY <1>7 DEF UnwindTrace, At, InUnwind
    <2>7. UNCHANGED <<fifo, unwind_mutex>>
      BY <1>7 DEF UnwindTrace, trackerVars
    <2> QED BY <2>5, <2>6, <2>7, OneFrame DEF UnwindInv, At, BacktraceOfItsBlock
  <1>8. CASE UnwindUnlock(x)
    <2>1. InUnwind(frame[x])
      BY <1>8 DEF UnwindUnlock, At, InUnwind
    <2>2. frame'[x].pc = "unguard"
      BY <1>8, NextPc DEF UnwindUnlock
    <2>3. fifo' = fifo
      BY <1>8 DEF UnwindUnlock, trackerVars
    <2> QED BY <2>1, <2>2, <2>3, OneFrame
            DEF UnwindInv, InUnwind, Printing, At, BacktraceOfItsBlock
  <1> QED BY <1>1, <1>2, <1>3, <1>4, <1>5, <1>6, <1>7, <1>8, StepCases DEF BacktraceStep

LEMMA UnwindInvariant == Spec => [](TypeInv /\ Nested /\ UnwindInv)
  <1>1. Init => UnwindInv
    BY DEF Init, StackInit, TrackerInit, IdleFrame, UnwindInv, InUnwind, Printing,
           BacktraceOfItsBlock, At
  <1>2. TypeInv /\ UnwindInv /\ [Next]_vars => UnwindInv'
    <2> SUFFICES ASSUME TypeInv, UnwindInv, [Next]_vars PROVE UnwindInv'
      OBVIOUS
    <2>1. CASE UNCHANGED vars
      BY <2>1 DEF vars, trackerVars, UnwindInv, BacktraceOfItsBlock, At
    <2>2. ASSUME NEW x \in Activations, Call(x) \/ Step(x) PROVE UnwindInv'
      BY <2>2, UnwindStep
    <2> QED BY <2>1, <2>2 DEF Next, Rest
  <1> QED BY <1>1, <1>2, NestedInv, PTL DEF Spec

(***************************************************************************)
(* jmprof-ip may add each frame it reads to the block it read last: however*)
(* many threads allocate and free at once, and whichever of them reports   *)
(* the modules, the last block before a 'b' record is the one whose        *)
(* backtrace it belongs to (backtrace.c:38-59, interpret.c:322-336).       *)
(***************************************************************************)
THEOREM BacktracesAttributed == Spec => []BacktraceOfItsBlock
  <1>1. UnwindInv => BacktraceOfItsBlock
    BY DEF UnwindInv
  <1> QED BY <1>1, UnwindInvariant, PTL

(***************************************************************************)
(* The locals of a call at each of its steps.                              *)
(***************************************************************************)
Reallocators == Allocators \cup {"realloc"}

\* Between pthread_setspecific(key, &key) and pthread_setspecific(key, NULL).
GuardedPcs == {"update_trylock", "update_check", "update_iterate", "update_unlock",
               "fprintf_lock", "fprintf_write",
               "unwind_lock", "unwind_size", "unwind_trace", "unwind_unlock", "unguard"}

LogPcs == {"guard"} \cup GuardedPcs

LoaderPcs == {"set_dirty", "set_dirty_store", "return"}

ForkPcs == {"fork_prepare", "fork_parent"}

CallOK(f) == /\ f.pc = "idle" => f = IdleFrame
             /\ f.pc = "libc" => f.fn \in Reallocators \cup Loaders
             /\ f.pc = "libc_free" => f.fn = "free"
             /\ f.pc \in LogPcs => f.fn \in Reallocators \cup {"free"}
             /\ f.pc \in LoaderPcs => f.fn \in Loaders
             /\ f.pc \in ForkPcs => f.fn = "fork"
             /\ f.fn \notin Reallocators => f.res = NULL
             /\ f.fn \in Allocators => f.arg = NULL
             /\ f.fn = "realloc" /\ f.zero /\ f.arg # NULL => f.res = NULL

CallsOK == \A x \in Activations : CallOK(frame[x])

\* The step leaves the call what it is: its function, arguments and result.
SameCall(x) == /\ frame'[x].fn = frame[x].fn     /\ frame'[x].arg = frame[x].arg
               /\ frame'[x].zero = frame[x].zero /\ frame'[x].res = frame[x].res

LEMMA NextLocals ==
  ASSUME TypeInv, NEW x \in Activations
  PROVE  /\ \A label : Goto(x, label) =>
                /\ SameCall(x) /\ frame'[x].pc = label
                /\ frame'[x].out = frame[x].out /\ frame'[x].ret = frame[x].ret
         /\ \A ptr : Got(x, ptr) =>
                /\ frame'[x].fn = frame[x].fn /\ frame'[x].arg = frame[x].arg
                /\ frame'[x].zero = frame[x].zero /\ frame'[x].res = ptr
                /\ frame'[x].pc = "guard"
                /\ frame'[x].out = frame[x].out /\ frame'[x].ret = frame[x].ret
         /\ \A records, next : Fprintf(x, records, next) => SameCall(x)
         /\ FprintfLock(x) =>
                /\ SameCall(x) /\ frame'[x].pc = "fprintf_write"
                /\ frame'[x].out = frame[x].out /\ frame'[x].ret = frame[x].ret
         /\ FprintfWrite(x) =>
                /\ SameCall(x) /\ frame'[x].ret = frame[x].ret
                /\ frame'[x].out = Tail(frame[x].out)
                /\ frame'[x].pc = IF Tail(frame[x].out) = <<>> THEN frame[x].ret
                                                              ELSE "fprintf_lock"
         /\ Return(x) => frame'[x] = IdleFrame
  <1> frame \in [Activations -> Frames] /\ frame[x] \in Frames
    BY DEF TypeInv, TypeOK
  <1>1. ASSUME NEW label, Goto(x, label)
        PROVE  /\ SameCall(x) /\ frame'[x].pc = label
               /\ frame'[x].out = frame[x].out /\ frame'[x].ret = frame[x].ret
    <2>1. frame'[x] = [frame[x] EXCEPT !.pc = label]
      BY <1>1 DEF Goto
    <2> QED BY <2>1 DEF Frames, SameCall
  <1>2. ASSUME NEW ptr, Got(x, ptr)
        PROVE  /\ frame'[x].fn = frame[x].fn /\ frame'[x].arg = frame[x].arg
               /\ frame'[x].zero = frame[x].zero /\ frame'[x].res = ptr
               /\ frame'[x].pc = "guard"
               /\ frame'[x].out = frame[x].out /\ frame'[x].ret = frame[x].ret
    <2>1. frame'[x] = [frame[x] EXCEPT !.res = ptr, !.pc = "guard"]
      BY <1>2 DEF Got
    <2> QED BY <2>1 DEF Frames
  <1>3. ASSUME NEW records, NEW next, Fprintf(x, records, next) PROVE SameCall(x)
    <2> DEFINE p == IF records = <<>> THEN next ELSE "fprintf_lock"
    <2>1. frame'[x] = [frame[x] EXCEPT !.out = records, !.ret = next, !.pc = p]
      BY <1>3 DEF Fprintf
    <2> HIDE DEF p
    <2> QED BY <2>1 DEF Frames, SameCall
  <1>4. ASSUME FprintfLock(x)
        PROVE  /\ SameCall(x) /\ frame'[x].pc = "fprintf_write"
               /\ frame'[x].out = frame[x].out /\ frame'[x].ret = frame[x].ret
    <2>1. frame'[x] = [frame[x] EXCEPT !.pc = "fprintf_write", !.ts = clock]
      BY <1>4 DEF FprintfLock
    <2> QED BY <2>1 DEF Frames, SameCall
  <1>5. ASSUME FprintfWrite(x)
        PROVE  /\ SameCall(x) /\ frame'[x].ret = frame[x].ret
               /\ frame'[x].out = Tail(frame[x].out)
               /\ frame'[x].pc = IF Tail(frame[x].out) = <<>> THEN frame[x].ret
                                                             ELSE "fprintf_lock"
    <2> DEFINE rest == Tail(frame[x].out)
               p == IF rest = <<>> THEN frame[x].ret ELSE "fprintf_lock"
    <2>1. frame'[x] = [frame[x] EXCEPT !.out = rest, !.pc = p]
      BY <1>5 DEF FprintfWrite
    <2> HIDE DEF p, rest
    <2>2. /\ SameCall(x) /\ frame'[x].ret = frame[x].ret
          /\ frame'[x].out = rest /\ frame'[x].pc = p
      BY <2>1 DEF Frames, SameCall
    <2> QED BY <2>2 DEF p, rest
  <1>6. Return(x) => frame'[x] = IdleFrame
    BY DEF Return
  <1> QED BY <1>1, <1>2, <1>3, <1>4, <1>5, <1>6

LEMMA BegunLocals ==
  ASSUME TypeInv, NEW x \in Activations, NEW fn, NEW arg, NEW zero, Begin(x, fn, arg, zero)
  PROVE  /\ frame'[x].fn = fn /\ frame'[x].arg = arg /\ frame'[x].zero = zero
         /\ frame'[x].res = NULL /\ frame'[x].out = <<>>
         /\ fn = "free" => frame'[x].pc = "guard"
         /\ fn = "fork" => frame'[x].pc = "fork_prepare"
         /\ fn \notin {"free", "fork"} => frame'[x].pc = "libc"
  <1> DEFINE p == CASE fn = "free" -> "guard"
                    [] fn = "fork" -> "fork_prepare"
                    [] OTHER       -> "libc"
  <1>1. frame'[x] = [IdleFrame EXCEPT !.fn = fn, !.arg = arg, !.zero = zero, !.pc = p]
    BY DEF Begin, TypeInv, TypeOK
  <1> HIDE DEF p
  <1>2. /\ frame'[x].fn = fn /\ frame'[x].arg = arg /\ frame'[x].zero = zero
        /\ frame'[x].res = NULL /\ frame'[x].out = <<>> /\ frame'[x].pc = p
    BY <1>1 DEF IdleFrame
  <1> QED BY <1>2 DEF p

\* Steps of the tracker and of the backtraces stay inside the part of a call
\* that logs, or inside jm_tracker_set_dirty().
LEMMA TracingStep ==
  ASSUME TypeInv, UnwindInv, NEW x \in Activations,
         \/ TrackerStep(x) /\ UNCHANGED <<unwind_mutex, preloadVars>>
         \/ BacktraceStep(x) /\ UNCHANGED preloadVars
  PROVE  /\ SameCall(x) /\ UNCHANGED preloadVars
         /\ \/ frame[x].pc \in GuardedPcs /\ frame'[x].pc \in GuardedPcs
            \/ frame[x].pc \in LoaderPcs  /\ frame'[x].pc \in LoaderPcs
  <1> USE DEF GuardedPcs, LoaderPcs
  <1>0. Printing(frame[x]) =>
            frame[x].ret \in {"update_unlock", "unwind_trace", "unwind_unlock"}
    BY DEF UnwindInv, OutOK
  <1>1. CASE FprintfLock(x) \/ FprintfWrite(x)
    BY <1>0, <1>1, NextLocals
       DEF FprintfLock, FprintfWrite, At, Printing, TrackerStep, BacktraceStep
  <1>2. CASE SetDirtyTrylock(x) \/ SetDirtyStore(x)
    BY <1>2, NextLocals DEF SetDirtyTrylock, SetDirtyStore, At
  <1>3. CASE UpdateTrylock(x) \/ UpdateCheck(x) \/ UpdateUnlock(x)
    BY <1>3, NextLocals DEF UpdateTrylock, UpdateCheck, UpdateUnlock, AfterUpdate, At
  <1>4. CASE UpdateIterate(x)
    <2>1. PICK records : Fprintf(x, records, "update_unlock") /\ At(x, "update_iterate")
      BY <1>4 DEF UpdateIterate
    <2>2. frame'[x].pc \in GuardedPcs
      BY <2>1, NextPc
    <2> QED BY <2>1, <2>2, NextLocals DEF At
  <1>5. CASE UnwindLock(x) \/ UnwindUnlock(x)
    BY <1>5, NextLocals DEF UnwindLock, UnwindUnlock, At
  <1>6. CASE UnwindSize(x)
    <2>1. PICK records : Fprintf(x, records, "unwind_trace") /\ At(x, "unwind_size")
      BY <1>6 DEF UnwindSize
    <2>2. frame'[x].pc \in GuardedPcs
      BY <2>1, NextPc
    <2> QED BY <2>1, <2>2, NextLocals DEF At
  <1>7. CASE UnwindTrace(x)
    <2>1. PICK records : Fprintf(x, records, "unwind_unlock") /\ At(x, "unwind_trace")
      BY <1>7 DEF UnwindTrace
    <2>2. frame'[x].pc \in GuardedPcs
      BY <2>1, NextPc
    <2> QED BY <2>1, <2>2, NextLocals DEF At
  <1> QED BY <1>1, <1>2, <1>3, <1>4, <1>5, <1>6, <1>7 DEF TrackerStep, BacktraceStep

LEMMA CallsOKStep ==
  ASSUME TypeInv, UnwindInv, CallsOK, NEW x \in Activations, Call(x) \/ Step(x)
  PROVE  CallsOK'
  <1> SUFFICES CallOK(frame'[x])
    BY OneFrame DEF CallsOK
  <1> frame[x] \in Frames /\ CallOK(frame[x])
    BY DEF TypeInv, TypeOK, CallsOK
  <1>0. CallOK(IdleFrame)
    BY DEF CallOK, IdleFrame, LogPcs, GuardedPcs, LoaderPcs, ForkPcs, Allocators
  <1> USE DEF CallOK, SameCall, At, Reallocators, LogPcs, GuardedPcs, LoaderPcs, ForkPcs
  <1>1. CASE Call(x)
    <2>1. PICK fn, arg, zero : /\ Begin(x, fn, arg, zero)
                               /\ fn \in Allocators => arg = NULL
                               /\ fn \in Fns
      BY <1>1 DEF Call, Allocate, Reallocate, Free, Load, Fork, Fns, Allocators, Loaders
    <2> QED BY <2>1, BegunLocals DEF Fns, Allocators, Loaders
  <1>2. CASE \/ TrackerStep(x) /\ UNCHANGED <<unwind_mutex, preloadVars>>
             \/ BacktraceStep(x) /\ UNCHANGED preloadVars
    <2> HIDE DEF LogPcs, GuardedPcs, LoaderPcs, ForkPcs
    <2>1. /\ SameCall(x)
          /\ \/ frame[x].pc \in GuardedPcs /\ frame'[x].pc \in GuardedPcs
             \/ frame[x].pc \in LoaderPcs  /\ frame'[x].pc \in LoaderPcs
      BY <1>2, TracingStep
    <2> QED BY <2>1 DEF LogPcs, GuardedPcs, LoaderPcs, ForkPcs
  <1>3. CASE LibcAlloc(x)
    <2>1. PICK ptr : Got(x, ptr)
      BY <1>3 DEF LibcAlloc
    <2> QED BY <1>3, <2>1, NextLocals DEF LibcAlloc
  <1>4. CASE LibcRealloc(x)
    <2>1. PICK ptr : Got(x, ptr) /\ (frame[x].zero => ptr = NULL)
      BY <1>4 DEF LibcRealloc
    <2> QED BY <1>4, <2>1, NextLocals DEF LibcRealloc, Allocators
  <1>5. CASE LibcFree(x) \/ LoaderReturn(x) \/ ForkParent(x)
    BY <1>0, <1>5, NextLocals DEF LibcFree, LoaderReturn, ForkParent
  <1>6. CASE LibcDlopen(x) \/ LibcDlclose(x) \/ LoadFailed(x)
    BY <1>6, NextLocals DEF LibcDlopen, LibcDlclose, LoadFailed, Loaders
  <1>7. CASE ForkPrepare(x)
    BY <1>7, NextLocals DEF ForkPrepare
  <1>8. CASE Guard(x) \/ Unguard(x)
    BY <1>0, <1>8, NextLocals DEF Guard, Unguard, Leave
  <1> QED BY <1>1, <1>2, <1>3, <1>4, <1>5, <1>6, <1>7, <1>8 DEF Step

LEMMA CallsInvariant == Spec => [](TypeInv /\ Nested /\ UnwindInv /\ CallsOK)
  <1>1. Init => CallsOK
    BY DEF Init, StackInit, IdleFrame, CallsOK, CallOK, Reallocators, Allocators, Loaders,
           LogPcs, GuardedPcs, LoaderPcs, ForkPcs
  <1>2. TypeInv /\ UnwindInv /\ CallsOK /\ [Next]_vars => CallsOK'
    <2> SUFFICES ASSUME TypeInv, UnwindInv, CallsOK, [Next]_vars PROVE CallsOK'
      OBVIOUS
    <2>1. CASE UNCHANGED vars
      BY <2>1 DEF vars, CallsOK
    <2>2. ASSUME NEW x \in Activations, Call(x) \/ Step(x) PROVE CallsOK'
      BY <2>2, CallsOKStep
    <2> QED BY <2>1, <2>2 DEF Next, Rest
  <1> QED BY <1>1, <1>2, UnwindInvariant, PTL DEF Spec

(***************************************************************************)
(* The modules of the start stay loaded, as the program closes only what   *)
(* it opened.  Until its record is in the log, each of them is kept in     *)
(* sight by is_dirty, by the thread that cleared it, or by the records     *)
(* that thread still has to write: nothing else empties those.             *)
(***************************************************************************)
BaseModules == {Base[k] : k \in DOMAIN Base}

Reported(m) == \E j \in DOMAIN fifo : fifo[j].op = "m" /\ fifo[j].addr = m

ModulesInv ==
    /\ BaseModules \subseteq LoadedModules
    /\ \A m \in BaseModules : Reported(m) \/ AboutToReport(m)
    /\ \A x \in Activations : ~Printing(frame[x]) => frame[x].out = <<>>
    /\ \A x \in Activations : frame[x].fn \in Loaders => frame[x].arg \notin BaseModules

\* dlclose() takes one module out of the link map and leaves the others.
Without(s, i) == SubSeq(s, 1, i - 1) \o SubSeq(s, i + 1, Len(s))

LEMMA LinkMapRemove ==
  ASSUME NEW s \in Seq(Modules), NEW i \in 1..Len(s), NEW k \in 1..Len(s), s[k] # s[i]
  PROVE  \E j \in DOMAIN Without(s, i) : Without(s, i)[j] = s[k]
  <1>t. PICK t : t = Without(s, i)
    OBVIOUS
  <1> SUFFICES \E j \in DOMAIN t : t[j] = s[k]
    BY <1>t
  <1> DEFINE l == SubSeq(s, 1, i - 1)
             r == SubSeq(s, i + 1, Len(s))
             n == Len(s)
  <1>1. /\ n \in Nat /\ i \in 1..n /\ k \in 1..n /\ k # i
        /\ \A j \in 1..n : s[j] \in Modules
    OBVIOUS
  <1> HIDE DEF n
  <1>2. /\ l \in Seq(Modules) /\ Len(l) = i - 1
        /\ \A j \in 1..(i - 1) : l[j] = s[j]
    <2>1. \A j \in 1..(i - 1) : s[j] \in Modules
      BY <1>1
    <2>2. /\ l \in Seq(Modules) /\ Len(l) = IF 1 <= i - 1 THEN i - 1 - 1 + 1 ELSE 0
          /\ \A j \in 1..(i - 1 - 1 + 1) : l[j] = s[1 + j - 1]
      BY <1>1, <2>1, SubSeqProperties
    <2> HIDE DEF l
    <2> QED BY <1>1, <2>2
  <1>3. /\ r \in Seq(Modules) /\ Len(r) = n - i
        /\ \A j \in 1..(n - i) : r[j] = s[i + j]
    <2>1. \A j \in (i + 1)..n : s[j] \in Modules
      BY <1>1
    <2>2. /\ r \in Seq(Modules) /\ Len(r) = IF i + 1 <= n THEN n - (i + 1) + 1 ELSE 0
          /\ \A j \in 1..(n - (i + 1) + 1) : r[j] = s[i + 1 + j - 1]
      BY <1>1, <2>1, SubSeqProperties DEF n
    <2> HIDE DEF r
    <2> QED BY <1>1, <2>2
  <1>4. t = l \o r
    BY <1>t DEF Without
  <1> HIDE DEF l, r
  <1>5. /\ t \in Seq(Modules) /\ Len(t) = Len(l) + Len(r)
        /\ \A j \in 1..(Len(l) + Len(r)) : t[j] = IF j <= Len(l) THEN l[j] ELSE r[j - Len(l)]
    <2>1. /\ l \o r \in Seq(Modules) /\ Len(l \o r) = Len(l) + Len(r)
          /\ \A j \in 1..(Len(l) + Len(r)) : (l \o r)[j] = IF j <= Len(l) THEN l[j]
                                                           ELSE r[j - Len(l)]
      BY <1>2, <1>3, ConcatProperties
    <2> QED BY <1>4, <2>1
  <1>6. /\ Len(l) + Len(r) = n - 1 /\ DOMAIN t = 1..(n - 1)
    <2>1. Len(l) + Len(r) = n - 1
      BY <1>1, <1>2, <1>3
    <2> QED BY <1>5, <2>1, LenProperties
  <1>7. CASE k < i
    <2>1. k \in 1..(n - 1) /\ k <= i - 1 /\ k \in 1..(i - 1)
      BY <1>1, <1>7
    <2>2. t[k] = s[k]
      BY <1>2, <1>5, <1>6, <2>1
    <2> QED BY <1>6, <2>1, <2>2
  <1>8. CASE k > i
    <2>1. /\ k - 1 \in 1..(n - 1) /\ ~(k - 1 <= i - 1)
          /\ k - 1 - (i - 1) = k - i /\ k - i \in 1..(n - i) /\ i + (k - i) = k
      BY <1>1, <1>8
    <2>2. t[k - 1] = r[k - i] /\ r[k - i] = s[k]
      BY <1>2, <1>3, <1>5, <1>6, <2>1
    <2> QED BY <1>6, <2>1, <2>2
  <1>9. k < i \/ k > i
    BY <1>1
  <1> QED BY <1>7, <1>8, <1>9

\* A step of an activation that neither prints nor reports.
LEMMA ModulesKept ==
  ASSUME TypeInv, ModulesInv, NEW x \in Activations, Call(x) \/ Step(x),
         ~Printing(frame[x]), ~At(x, "update_iterate"), fifo' = fifo,
         is_dirty => is_dirty' \/ frame'[x].pc = "update_iterate",
         BaseModules \subseteq LoadedModules',
         ~Printing(frame'[x]) => frame'[x].out = <<>>,
         frame'[x].fn \in Loaders => frame'[x].arg \notin BaseModules
  PROVE  ModulesInv'
  <1>1. \A y \in Activations \ {x} : frame'[y] = frame[y]
    BY OneFrame
  <1>2. ASSUME NEW m \in BaseModules PROVE (Reported(m) \/ AboutToReport(m))'
    <2>1. CASE Reported(m)
      BY <2>1 DEF Reported
    <2>2. CASE is_dirty
      BY <2>2 DEF AboutToReport, At
    <2>3. CASE \E y \in Activations : \/ At(y, "update_iterate")
                                      \/ \E i \in DOMAIN frame[y].out :
                                             frame[y].out[i] = Record("m", m)
      <3>1. PICK y \in Activations : \/ At(y, "update_iterate")
                                     \/ \E i \in DOMAIN frame[y].out :
                                            frame[y].out[i] = Record("m", m)
        BY <2>3
      <3>2. frame[x].out = <<>>
        BY DEF ModulesInv
      <3>3. y # x
        BY <3>1, <3>2
      <3> QED BY <1>1, <3>1, <3>3 DEF AboutToReport, At
    <2> QED BY <2>1, <2>2, <2>3 DEF ModulesInv, AboutToReport
  <1>3. BaseModules' = BaseModules
    BY DEF BaseModules
  <1> QED BY <1>1, <1>2, <1>3 DEF ModulesInv

LEMMA ModulesWrite ==
  ASSUME TypeInv, UnwindInv, ModulesInv, NEW x \in Activations, FprintfWrite(x),
         Call(x) \/ Step(x)
  PROVE  ModulesInv'
  <1> DEFINE f == frame[x]
             g == frame'[x]
             R == [op : {"a", "b", "f", "m"}, addr : Pointers, thr : Threads, ts : Nat]
             r == [op |-> Head(f.out).op, addr |-> Head(f.out).addr, thr |-> x[1], ts |-> f.ts]
  <1>0. \A y \in Activations \ {x} : frame'[y] = frame[y]
    BY OneFrame
  <1>1. /\ f \in Frames /\ f.out # <<>> /\ f.out \in Seq(Records) /\ x[1] \in Threads
        /\ f.ret \notin {"fprintf_lock", "fprintf_write"} /\ f.ts \in Nat
    BY DEF TypeInv, TypeOK, FramesOK, FrameOK, FprintfWrite, At, Frames, Activations
  <1>2. /\ SameCall(x) /\ g.out = Tail(f.out)
        /\ g.pc = IF Tail(f.out) = <<>> THEN f.ret ELSE "fprintf_lock"
        /\ is_dirty' = is_dirty /\ loaded' = loaded /\ fifo' = Append(fifo, r)
        /\ ~At(x, "update_iterate")
    BY NextLocals DEF FprintfWrite, At
  <1>3. r \in R /\ fifo \in Seq(R)
    <2>1. Head(f.out) \in Records
      BY <1>1
    <2>2. r \in R
      BY <1>1, <2>1 DEF Records
    <2> QED BY <2>2 DEF TypeInv, TypeOK
  <1> HIDE DEF R
  <1>4. /\ \A j \in DOMAIN fifo : j \in DOMAIN fifo' /\ fifo'[j] = fifo[j]
        /\ Len(fifo) + 1 \in DOMAIN fifo' /\ fifo'[Len(fifo) + 1] = r
    BY <1>2, <1>3
  <1>5. \A i \in DOMAIN f.out : f.out[i] = Head(f.out)
                                 \/ \E k \in DOMAIN g.out : g.out[k] = f.out[i]
    <2> TAKE i \in DOMAIN f.out
    <2>1. /\ DOMAIN f.out = 1..Len(f.out) /\ Len(f.out) \in Nat
          /\ DOMAIN g.out = 1..(Len(f.out) - 1) /\ Head(f.out) = f.out[1]
          /\ \A k \in 1..(Len(f.out) - 1) : g.out[k] = f.out[k + 1]
      BY <1>1, <1>2
    <2>2. CASE i # 1
      <3>1. i - 1 \in DOMAIN g.out /\ g.out[i - 1] = f.out[i]
        BY <2>1, <2>2
      <3> QED BY <3>1
    <2> QED BY <2>1, <2>2
  <1> HIDE DEF f, g, r
  <1>6. ASSUME NEW m \in BaseModules PROVE (Reported(m) \/ AboutToReport(m))'
    <2>1. CASE Reported(m)
      BY <1>4, <2>1 DEF Reported
    <2>2. CASE is_dirty
      BY <1>2, <2>2 DEF AboutToReport
    <2>3. CASE \E y \in Activations : \/ At(y, "update_iterate")
                                      \/ \E i \in DOMAIN frame[y].out :
                                             frame[y].out[i] = Record("m", m)
      <3>1. PICK y \in Activations : \/ At(y, "update_iterate")
                                     \/ \E i \in DOMAIN frame[y].out :
                                            frame[y].out[i] = Record("m", m)
        BY <2>3
      <3>2. CASE y # x
        BY <1>0, <3>1, <3>2 DEF AboutToReport, At
      <3>3. CASE y = x
        <4>1. PICK i \in DOMAIN f.out : f.out[i] = Record("m", m)
          BY <1>2, <3>1, <3>3 DEF f
        <4>2. CASE f.out[i] = Head(f.out)
          <5>1. r.op = "m" /\ r.addr = m
            BY <4>1, <4>2 DEF Record, r
          <5> QED BY <1>4, <5>1 DEF Reported
        <4>3. CASE \E k \in DOMAIN g.out : g.out[k] = f.out[i]
          BY <4>1, <4>3 DEF AboutToReport, g
        <4> QED BY <1>5, <4>2, <4>3
      <3> QED BY <3>2, <3>3
    <2> QED BY <2>1, <2>2, <2>3 DEF ModulesInv, AboutToReport
  <1>7. ~Printing(g) => g.out = <<>>
    BY <1>1, <1>2 DEF Printing
  <1>8. BaseModules' = BaseModules /\ LoadedModules' = LoadedModules
    BY <1>2 DEF BaseModules, LoadedModules
  <1> QED BY <1>0, <1>2, <1>6, <1>7, <1>8 DEF ModulesInv, SameCall, g

LEMMA ModulesStep ==
  ASSUME TypeInv, UnwindInv, CallsOK, ModulesInv, NEW x \in Activations, Call(x) \/ Step(x)
  PROVE  ModulesInv'
  <1> DEFINE f == frame[x]
             g == frame'[x]
  <1> f \in Frames /\ CallOK(f) /\ loaded \in Seq(Modules)
    BY DEF TypeInv, TypeOK, CallsOK
  <1>0. \A y \in Activations \ {x} : frame'[y] = frame[y]
    BY OneFrame
  <1>idle. IdleFrame.out = <<>> /\ IdleFrame.fn \notin Loaders
    BY DEF IdleFrame, Loaders
  <1>base. loaded' = loaded => BaseModules \subseteq LoadedModules'
    BY DEF ModulesInv, LoadedModules
  <1>arg. (f.fn \in Loaders => f.arg \notin BaseModules) /\ (~Printing(f) => f.out = <<>>)
    BY DEF ModulesInv
  <1> HIDE DEF f, g
  <1>keep. ASSUME f.pc \notin {"fprintf_lock", "fprintf_write", "update_iterate"},
                  fifo' = fifo, is_dirty => is_dirty' \/ g.pc = "update_iterate",
                  BaseModules \subseteq LoadedModules',
                  ~Printing(g) => g.out = <<>>,
                  g.fn \in Loaders => g.arg \notin BaseModules
           PROVE  ModulesInv'
    BY <1>keep, ModulesKept DEF Printing, At, f, g
  <1>1. CASE Call(x)
    <2>1. PICK fn, arg, zero : /\ Begin(x, fn, arg, zero)
                               /\ fn \in Loaders => arg \notin BaseModules
      <3>1. CASE Load(x)
        <4>1. PICK m \in Modules \ BaseModules, fn \in Loaders : Begin(x, fn, m, FALSE)
          BY <3>1 DEF Load, Loaders, BaseModules
        <4> QED BY <4>1
      <3>2. CASE ~Load(x)
        <4>1. PICK fn, arg, zero : /\ Begin(x, fn, arg, zero)
                                   /\ fn \in Allocators \cup {"realloc", "free", "fork"}
          BY <1>1, <3>2 DEF Call, Allocate, Reallocate, Free, Fork
        <4> QED BY <4>1 DEF Allocators, Loaders
      <3> QED BY <3>1, <3>2
    <2>2. g.fn = fn /\ g.arg = arg /\ g.out = <<>>
      BY <2>1, BegunLocals DEF g
    <2> QED BY <1>1, <1>base, <1>keep, <2>1, <2>2 DEF Call, At, trackerVars, f
  <1>2. CASE FprintfLock(x)
    <2>1. /\ SameCall(x) /\ g.pc = "fprintf_write" /\ g.out = f.out
          /\ UNCHANGED <<fifo, is_dirty, loaded>> /\ f.pc = "fprintf_lock"
      BY <1>2, NextLocals DEF FprintfLock, At, f, g
    <2>2. ASSUME NEW m \in BaseModules PROVE (Reported(m) \/ AboutToReport(m))'
      BY <1>0, <2>1 DEF ModulesInv, AboutToReport, Reported, At, f, g
    <2> QED BY <1>0, <1>arg, <1>base, <2>1, <2>2
            DEF ModulesInv, BaseModules, Printing, SameCall, f, g
  <1>3. CASE FprintfWrite(x)
    BY <1>3, ModulesWrite
  <1>4. CASE UpdateIterate(x)
    <2> DEFINE records == [i \in 1..Len(loaded) |-> Record("m", loaded[i])]
    <2>1. /\ Fprintf(x, records, "update_unlock") /\ f.pc = "update_iterate"
          /\ UNCHANGED <<fifo, is_dirty, loaded>>
      BY <1>4 DEF UpdateIterate, At, trackerVars, f
    <2>2. \A m \in BaseModules : \E i \in DOMAIN records : records[i] = Record("m", m)
      BY DEF ModulesInv, LoadedModules
    <2> HIDE DEF records
    <2>3. /\ SameCall(x) /\ g.out = records /\ (~Printing(g) => g.out = <<>>)
      BY <2>1, NextPc, NextLocals DEF Printing, g
    <2>4. ASSUME NEW m \in BaseModules PROVE AboutToReport(m)'
      BY <2>2, <2>3 DEF AboutToReport, g
    <2> QED BY <1>0, <1>arg, <1>base, <2>1, <2>3, <2>4
            DEF ModulesInv, BaseModules, SameCall, f, g
  <1>5. CASE UpdateCheck(x)
    BY <1>5, <1>arg, <1>base, <1>keep, NextLocals
       DEF UpdateCheck, At, Printing, SameCall, f, g
  <1>6. CASE \/ SetDirtyTrylock(x) \/ SetDirtyStore(x) \/ UpdateTrylock(x)
             \/ UpdateUnlock(x) \/ UnwindLock(x) \/ UnwindUnlock(x)
    <2>1. /\ SameCall(x) /\ g.out = f.out /\ UNCHANGED <<fifo, loaded>> /\ (is_dirty => is_dirty')
          /\ f.pc \notin {"fprintf_lock", "fprintf_write", "update_iterate"}
      BY <1>6, NextLocals DEF SetDirtyTrylock, SetDirtyStore, UpdateTrylock, UpdateUnlock,
             UnwindLock, UnwindUnlock, AfterUpdate, trackerVars, At, f, g
    <2> QED BY <1>arg, <1>base, <1>keep, <2>1 DEF SameCall, Printing, f, g
  <1>7. CASE UnwindSize(x) \/ UnwindTrace(x)
    <2>1. \E records, next : Fprintf(x, records, next)
      <3>1. CASE UnwindSize(x)
        BY <3>1 DEF UnwindSize
      <3>2. CASE UnwindTrace(x)
        BY <3>2 DEF UnwindTrace
      <3> QED BY <1>7, <3>1, <3>2
    <2>2. SameCall(x) /\ (~Printing(g) => g.out = <<>>)
      BY <2>1, NextPc, NextLocals DEF Printing, g
    <2>3. /\ UNCHANGED <<fifo, is_dirty, loaded>>
          /\ f.pc \notin {"fprintf_lock", "fprintf_write", "update_iterate"}
      BY <1>7 DEF UnwindSize, UnwindTrace, trackerVars, At, f
    <2> QED BY <1>arg, <1>base, <1>keep, <2>2, <2>3 DEF SameCall, f, g
  <1>8. CASE \/ LibcAlloc(x)  \/ LibcRealloc(x) \/ LibcFree(x) \/ LoaderReturn(x)
             \/ Guard(x) \/ Unguard(x) \/ ForkPrepare(x) \/ ForkParent(x) \/ LoadFailed(x)
    <2>1. /\ UNCHANGED <<fifo, is_dirty, loaded>>
          /\ f.pc \notin {"fprintf_lock", "fprintf_write", "update_iterate"}
      BY <1>8 DEF LibcAlloc, LibcRealloc, LibcFree, LoaderReturn, Guard, Unguard, ForkPrepare,
                  ForkParent, LoadFailed, LoaderUnchanged, trackerVars, At, f
    <2>2. \/ g.fn = f.fn /\ g.arg = f.arg /\ g.out = f.out
          \/ g = IdleFrame
      <3>1. CASE LibcAlloc(x) \/ LibcRealloc(x)
        <4>1. PICK ptr : Got(x, ptr)
          BY <3>1 DEF LibcAlloc, LibcRealloc
        <4> QED BY <4>1, NextLocals DEF f, g
      <3>2. CASE LibcFree(x) \/ LoaderReturn(x) \/ ForkParent(x)
        BY <3>2, NextLocals DEF LibcFree, LoaderReturn, ForkParent, g
      <3>3. CASE LoadFailed(x) \/ ForkPrepare(x)
        BY <3>3, NextLocals DEF LoadFailed, ForkPrepare, SameCall, f, g
      <3>4. CASE Guard(x) \/ Unguard(x)
        <4>1. Return(x) \/ \E label : Goto(x, label)
          BY <3>4 DEF Guard, Unguard, Leave
        <4> QED BY <4>1, NextLocals DEF SameCall, f, g
      <3> QED BY <1>8, <3>1, <3>2, <3>3, <3>4
    <2> QED BY <1>arg, <1>base, <1>idle, <1>keep, <2>1, <2>2 DEF Printing
  <1>9. CASE LibcDlopen(x) \/ LibcDlclose(x)
    <2>1. /\ UNCHANGED <<fifo, is_dirty>> /\ f.pc = "libc" /\ f.fn \in Loaders
          /\ SameCall(x) /\ g.out = f.out /\ g.pc = "set_dirty"
      BY <1>9, NextLocals DEF LibcDlopen, LibcDlclose, LoaderUnchanged, Loaders, At, f, g
    <2>2. BaseModules \subseteq LoadedModules'
      <3>1. CASE LibcDlopen(x) /\ loaded' = Append(loaded, f.arg)
        <4>1. \A i \in DOMAIN loaded : i \in DOMAIN loaded' /\ loaded'[i] = loaded[i]
          BY <3>1
        <4> QED BY <4>1 DEF ModulesInv, LoadedModules
      <3>2. CASE \E i \in DOMAIN loaded :
                   /\ loaded[i] = f.arg
                   /\ loaded' = SubSeq(loaded, 1, i - 1) \o SubSeq(loaded, i + 1, Len(loaded))
        <4> SUFFICES ASSUME NEW m \in BaseModules PROVE m \in LoadedModules'
          OBVIOUS
        <4>1. PICK i \in DOMAIN loaded :
                   /\ loaded[i] = f.arg
                   /\ loaded' = SubSeq(loaded, 1, i - 1) \o SubSeq(loaded, i + 1, Len(loaded))
          BY <3>2
        <4>2. PICK k \in DOMAIN loaded : loaded[k] = m
          BY DEF ModulesInv, LoadedModules
        <4>3. loaded[k] # loaded[i]
          BY <1>arg, <2>1, <4>1, <4>2
        <4>4. i \in 1..Len(loaded) /\ k \in 1..Len(loaded)
          OBVIOUS
        <4>5. PICK t : t = loaded'
          OBVIOUS
        <4>6. t = SubSeq(loaded, 1, i - 1) \o SubSeq(loaded, i + 1, Len(loaded))
          BY <4>1, <4>5
        <4>7. \E j \in DOMAIN t : t[j] = loaded[k]
          <5>1. loaded \in Seq(Modules)
            BY DEF TypeInv, TypeOK
          <5>2. \E j \in DOMAIN Without(loaded, i) : Without(loaded, i)[j] = loaded[k]
            BY <4>3, <4>4, <5>1, LinkMapRemove
          <5>3. t = Without(loaded, i)
            BY <4>6 DEF Without
          <5> QED BY <5>2, <5>3
        <4> QED BY <4>2, <4>5, <4>7 DEF LoadedModules
      <3> QED BY <1>9, <1>base, <3>1, <3>2 DEF LibcDlopen, LibcDlclose, f
    <2> QED BY <1>arg, <1>keep, <2>1, <2>2 DEF SameCall, Printing, f, g
  <1> QED BY <1>1, <1>2, <1>3, <1>4, <1>5, <1>6, <1>7, <1>8, <1>9
          DEF Step, TrackerStep, BacktraceStep

(***************************************************************************)
(* No module of the start is forgotten: whenever the log has a frame in    *)
(* one, its 'm' record is there, or the flag is set, or a thread is about  *)
(* to write it, though a thread that finds is_dirty_mutex held goes on     *)
(* without the report and dlclose() edits the link map meanwhile           *)
(* (tracker.c:138-150).                                                    *)
(***************************************************************************)
THEOREM StartModulesReported == Spec => []ModulesReported
  <1>1. Init => ModulesInv
    BY DEF Init, StackInit, TrackerInit, IdleFrame, ModulesInv, BaseModules, LoadedModules,
           AboutToReport, Loaders
  <1>2. TypeInv /\ UnwindInv /\ CallsOK /\ ModulesInv /\ [Next]_vars => ModulesInv'
    <2> SUFFICES ASSUME TypeInv, UnwindInv, CallsOK, ModulesInv, [Next]_vars PROVE ModulesInv'
      OBVIOUS
    <2>1. CASE UNCHANGED vars
      BY <2>1 DEF vars, trackerVars, ModulesInv, BaseModules, LoadedModules, Reported,
                  AboutToReport, At
    <2>2. ASSUME NEW x \in Activations, Call(x) \/ Step(x) PROVE ModulesInv'
      BY <2>2, ModulesStep
    <2> QED BY <2>1, <2>2 DEF Next, Rest
  <1>3. ModulesInv => ModulesReported
    BY DEF ModulesInv, ModulesReported, Reported, BaseModules
  <1> QED BY <1>1, <1>2, <1>3, CallsInvariant, PTL DEF Spec

(***************************************************************************)
(* The block that an activation holds: nobody else may free it, reallocate *)
(* it or read its header.  free() and realloc() take theirs from the       *)
(* program, and what a function returns was its own before.                *)
(***************************************************************************)
Held(f) == IF f.fn \in Loaders THEN NULL
           ELSE IF f.fn = "free" \/ f.pc = "libc" THEN f.arg ELSE Result(f)

HeldInv ==
    /\ owned \subseteq live
    /\ \A x \in Activations : Held(frame[x]) # NULL => Held(frame[x]) \in live \ owned
    /\ \A x, y \in Activations :
           x # y /\ Held(frame[x]) = Held(frame[y]) => Held(frame[x]) = NULL

\* What the steps do to the blocks comes down to four ways.
LEMMA HeldSame ==
  ASSUME HeldInv, NEW x \in Activations, \A y \in Activations \ {x} : frame'[y] = frame[y],
         UNCHANGED heapVars, Held(frame'[x]) \in {Held(frame[x]), NULL}
  PROVE  HeldInv'
  BY DEF HeldInv, heapVars

LEMMA HeldTaken ==
  ASSUME HeldInv, NEW x \in Activations, \A y \in Activations \ {x} : frame'[y] = frame[y],
         NEW a, a \in owned \/ (a = NULL /\ NULL \notin live),
         live' = live, owned' = owned \ {a}, Held(frame'[x]) = a
  PROVE  HeldInv'
  BY DEF HeldInv

LEMMA HeldGiven ==
  ASSUME HeldInv, NEW x \in Activations, \A y \in Activations \ {x} : frame'[y] = frame[y],
         live' = live, owned' = owned \cup ({Held(frame[x])} \ {NULL}),
         Held(frame'[x]) = NULL
  PROVE  HeldInv'
  BY DEF HeldInv

LEMMA HeldReplaced ==
  ASSUME HeldInv, NEW x \in Activations, \A y \in Activations \ {x} : frame'[y] = frame[y],
         NEW a, a = NULL \/ a \notin live \/ a = Held(frame[x]), UNCHANGED owned,
         Held(frame'[x]) = a, a # NULL => a \in live',
         live \ {Held(frame[x])} \subseteq live', NULL \notin live
  PROVE  HeldInv'
  BY DEF HeldInv

LEMMA HeldStep ==
  ASSUME TypeInv, UnwindInv, CallsOK, HeldInv, NEW x \in Activations, Call(x) \/ Step(x)
  PROVE  HeldInv'
  <1> DEFINE f == frame[x]
             g == frame'[x]
  <1> f \in Frames /\ CallOK(f) /\ FrameOK(f)
    BY DEF TypeInv, TypeOK, CallsOK, FramesOK
  <1> NULL \notin live /\ NULL \notin owned
    BY PreloadAssumption DEF TypeInv, TypeOK
  <1>0. \A y \in Activations \ {x} : frame'[y] = frame[y]
    BY OneFrame
  <1>idle. Held(IdleFrame) = NULL
    BY DEF Held, IdleFrame, Result, Loaders
  <1> HIDE DEF f, g
  <1>1. CASE Call(x)
    <2>1. PICK fn, arg, zero : /\ Begin(x, fn, arg, zero) /\ fn \in Fns
                               /\ IF fn \in {"free", "realloc"}
                                  THEN arg \in owned \cup {NULL} /\ owned' = owned \ {arg}
                                  ELSE owned' = owned /\ (fn \notin Loaders => arg = NULL)
      BY <1>1 DEF Call, Allocate, Reallocate, Free, Load, Fork, Fns, Allocators, Loaders
    <2>2. At(x, "idle") /\ live' = live
      BY <1>1 DEF Call
    <2>3. CASE fn \in {"free", "realloc"}
      <3>1. Held(g) = arg
        BY <2>1, <2>3, BegunLocals DEF Held, Loaders, g
      <3> QED BY <1>0, <2>1, <2>2, <2>3, <3>1, HeldTaken DEF g
    <2>4. CASE fn \notin {"free", "realloc"}
      <3>1. Held(g) = NULL
        BY <2>1, <2>4, BegunLocals DEF Held, Result, g
      <3> QED BY <1>0, <2>1, <2>2, <2>4, <3>1, HeldSame DEF g, heapVars
    <2> QED BY <2>3, <2>4
  <1>2. CASE \/ TrackerStep(x) /\ UNCHANGED <<unwind_mutex, preloadVars>>
             \/ BacktraceStep(x) /\ UNCHANGED preloadVars
    <2>1. /\ SameCall(x) /\ UNCHANGED preloadVars
          /\ \/ f.pc \in GuardedPcs /\ g.pc \in GuardedPcs
             \/ f.pc \in LoaderPcs  /\ g.pc \in LoaderPcs
      BY <1>2, TracingStep DEF f, g
    <2>2. f.pc # "libc" /\ g.pc # "libc"
      BY <2>1 DEF LogPcs, GuardedPcs, LoaderPcs
    <2>3. Held(g) = Held(f)
      BY <2>1, <2>2 DEF Held, Result, SameCall, f, g
    <2> QED BY <1>0, <2>1, <2>3, HeldSame DEF preloadVars, f, g
  <1>3. CASE LibcAlloc(x)
    <2>1. PICK ptr : /\ Got(x, ptr)
                     /\ \/ ptr \in Addrs \ live /\ live' = live \cup {ptr}
                        \/ ptr = NULL /\ live' = live
      BY <1>3 DEF LibcAlloc
    <2>2. /\ At(x, "libc") /\ UNCHANGED owned
          /\ f.fn \in Allocators \/ (f.fn = "realloc" /\ f.arg = NULL)
      BY <1>3 DEF LibcAlloc, f
    <2>3. Held(f) = NULL
      BY <2>2 DEF Held, At, CallOK, f, Allocators, Loaders
    <2>4. Held(g) = ptr
      BY <2>1, <2>2, NextLocals DEF Held, Result, f, g, Allocators, Loaders
    <2> QED BY <1>0, <2>1, <2>2, <2>3, <2>4, HeldReplaced DEF f, g
  <1>4. CASE LibcRealloc(x)
    <2>0. f.fn = "realloc" /\ At(x, "libc") /\ UNCHANGED owned /\ f.arg # NULL
      BY <1>4 DEF LibcRealloc, f
    <2>1. Held(f) = f.arg
      BY <2>0 DEF Held, At, f, Loaders
    <2>2. PICK ptr : /\ Got(x, ptr)
                     /\ \/ f.zero /\ ptr = NULL /\ live' = live \ {f.arg}
                        \/ ~f.zero /\ ptr \in {f.arg, NULL} /\ live' = live
                        \/ ~f.zero /\ ptr \in Addrs \ live /\ live' = (live \ {f.arg}) \cup {ptr}
      BY <1>4 DEF LibcRealloc, f
    <2>3. Held(g) = IF ptr = NULL /\ ~f.zero THEN f.arg ELSE ptr
      BY <2>0, <2>2, NextLocals DEF Held, Result, f, g, Loaders
    <2>4. f.arg \in live
      BY <2>0, <2>1 DEF HeldInv, f
    <2>5. PICK a : a = Held(g)
      OBVIOUS
    <2>6. /\ a = NULL \/ a \notin live \/ a = Held(f)
          /\ a # NULL => a \in live'
          /\ live \ {Held(f)} \subseteq live'
      BY <2>1, <2>2, <2>3, <2>4, <2>5, PreloadAssumption
    <2> QED BY <1>0, <2>0, <2>5, <2>6, HeldReplaced DEF f, g
  <1>5. CASE LibcFree(x)
    <2>1. /\ f.fn = "free" /\ f.res = NULL /\ live' = live \ {f.arg}
          /\ g = IdleFrame /\ owned' = owned
      BY <1>5, NextLocals DEF LibcFree, Return, Result, CallOK, At, f, g, Reallocators, Allocators
    <2>2. Held(f) = f.arg /\ Held(g) = NULL
      BY <1>idle, <2>1 DEF Held, Loaders
    <2> QED BY <1>0, <2>1, <2>2, HeldReplaced DEF f, g
  <1>6. ASSUME Return(x), UNCHANGED live, f.fn # "free", f.pc # "libc" PROVE HeldInv'
    <2>1. g = IdleFrame /\ owned' \in {owned, owned \cup ({Result(f)} \ {NULL})}
      BY <1>6, NextLocals DEF Return, f, g
    <2>2. Result(f) = Held(f)
      BY <1>6 DEF Held, Result, CallOK, Reallocators, Allocators, Loaders
    <2>3. CASE owned' = owned
      BY <1>0, <1>6, <1>idle, <2>1, <2>3, HeldSame DEF heapVars, g
    <2>4. CASE owned' = owned \cup ({Held(f)} \ {NULL})
      BY <1>0, <1>6, <1>idle, <2>1, <2>4, HeldGiven DEF f, g
    <2> QED BY <2>1, <2>2, <2>3, <2>4
  <1>7. CASE LoaderReturn(x) \/ ForkParent(x)
    <2>1. Return(x) /\ UNCHANGED live /\ f.pc \in {"return", "fork_parent"}
      BY <1>7 DEF LoaderReturn, ForkParent, At, f
    <2>2. f.fn # "free"
      BY <2>1 DEF CallOK, LoaderPcs, ForkPcs, Loaders
    <2> QED BY <1>6, <2>1, <2>2
  <1>8. CASE LibcDlopen(x) \/ LibcDlclose(x) \/ LoadFailed(x) \/ ForkPrepare(x)
    <2>1. /\ SameCall(x) /\ UNCHANGED heapVars
          /\ f.fn \in Loaders \/ f.fn = "fork"
      BY <1>8, NextLocals DEF LibcDlopen, LibcDlclose, LoadFailed, ForkPrepare, LoaderUnchanged,
                              preloadVars, CallOK, At, ForkPcs, Loaders, f
    <2>2. Held(g) = NULL \/ Held(g) = Held(f)
      <3>1. CASE f.fn \in Loaders
        BY <2>1, <3>1 DEF Held, SameCall, f, g
      <3>2. CASE f.fn = "fork"
        <4>1. g.pc # "libc" /\ g.res = NULL /\ g.fn = "fork"
          BY <1>8, <2>1, <3>2, NextLocals DEF LibcDlopen, LibcDlclose, LoadFailed, ForkPrepare,
                 CallOK, SameCall, f, g, Reallocators, Allocators
        <4> QED BY <4>1 DEF Held, Result
      <3> QED BY <2>1, <3>1, <3>2
    <2> QED BY <1>0, <2>1, <2>2, HeldSame DEF f, g
  <1>9. CASE Guard(x) \/ Unguard(x)
    <2>1. UNCHANGED live /\ f.pc \in {"guard", "unguard"}
      BY <1>9 DEF Guard, Unguard, At, f
    <2>2. CASE Return(x) /\ f.fn # "free"
      BY <1>6, <2>1, <2>2
    <2>3. CASE UNCHANGED owned /\ \E label \in Pcs \ {"libc"} : Goto(x, label)
      <3>1. SameCall(x) /\ g.pc # "libc"
        BY <2>3, NextLocals DEF g
      <3>2. Held(g) = Held(f)
        BY <2>1, <3>1 DEF Held, Result, SameCall, f, g
      <3> QED BY <1>0, <2>1, <2>3, <3>2, HeldSame DEF heapVars, f, g
    <2> QED BY <1>9, <2>2, <2>3 DEF Guard, Unguard, Leave, Pcs, f
  <1> QED BY <1>1, <1>2, <1>3, <1>4, <1>5, <1>7, <1>8, <1>9 DEF Step

LEMMA HeldInvariant == Spec => [](TypeInv /\ Nested /\ UnwindInv /\ CallsOK /\ HeldInv)
  <1>1. Init => HeldInv
    BY DEF Init, StackInit, IdleFrame, HeldInv, Held, Result, Loaders
  <1>2. TypeInv /\ UnwindInv /\ CallsOK /\ HeldInv /\ [Next]_vars => HeldInv'
    <2> SUFFICES ASSUME TypeInv, UnwindInv, CallsOK, HeldInv, [Next]_vars PROVE HeldInv'
      OBVIOUS
    <2>1. CASE UNCHANGED vars
      BY <2>1 DEF vars, preloadVars, heapVars, HeldInv
    <2>2. ASSUME NEW x \in Activations, Call(x) \/ Step(x) PROVE HeldInv'
      BY <2>2, HeldStep
    <2> QED BY <2>1, <2>2 DEF Next, Rest
  <1> QED BY <1>1, <1>2, CallsInvariant, PTL DEF Spec

(***************************************************************************)
(* malloc_usable_size() reads the header of a block that is allocated, that*)
(* the program does not own and that no other call of any thread can free  *)
(* meanwhile, whatever of the four functions are called, nested or failing *)
(* (backtrace.c:42).                                                       *)
(***************************************************************************)
THEOREM SizeIsOfOwnBlock == Spec => []SizeOfOwnBlock
  <1>1. TypeInv /\ CallsOK /\ HeldInv => SizeOfOwnBlock
    <2> SUFFICES ASSUME TypeInv, CallsOK, HeldInv,
                        NEW x \in Activations, At(x, "unwind_size"), Block(frame[x]) # NULL
                 PROVE  /\ Block(frame[x]) \in live \ owned
                        /\ \A y \in Activations \ {x} : Holds(y) # Block(frame[x])
      BY DEF SizeOfOwnBlock
    <2>0. \A y \in Activations : CallOK(frame[y]) /\ FrameOK(frame[y])
      BY DEF CallsOK, TypeInv, FramesOK
    <2>1. Held(frame[x]) = Block(frame[x])
      BY <2>0 DEF Held, Block, Result, CallOK, At, LogPcs, GuardedPcs, Reallocators, Allocators,
                  Loaders
    <2>2. Block(frame[x]) \in live \ owned
      BY <2>1 DEF HeldInv
    <2>3. ASSUME NEW y \in Activations \ {x} PROVE Holds(y) # Block(frame[x])
      <3>1. Held(frame[y]) # Block(frame[x])
        BY <2>1 DEF HeldInv
      <3>2. Holds(y) \in {Held(frame[y]), NULL} \cup Modules
        BY <2>0 DEF Holds, Held, Block, Result, CallOK, FrameOK, At, Loaders, Reallocators,
                    Allocators
      <3>3. Block(frame[x]) \notin Modules
        BY <2>2, PreloadAssumption DEF TypeInv, TypeOK
      <3> QED BY <3>1, <3>2, <3>3
    <2> QED BY <2>2, <2>3
  <1> QED BY <1>1, HeldInvariant, PTL

(***************************************************************************)
(* What a record does to the blocks that the log shows as allocated.       *)
(***************************************************************************)
LEMMA TracedAppend ==
  ASSUME NEW S, NEW log \in Seq(S), NEW r \in S
  PROVE  Traced(Append(log, r)) = IF r.op = "a" THEN Traced(log) \cup {r.addr}
                                  ELSE IF r.op = "f" THEN Traced(log) \ {r.addr}
                                  ELSE Traced(log)
  <1> DEFINE new == Append(log, r)
             Shows(l, a) == \E k \in DOMAIN l :
                                /\ l[k].op = "a" /\ l[k].addr = a
                                /\ \A j \in DOMAIN l : j > k => ~(l[j].op = "f" /\ l[j].addr = a)
  <1>1. /\ Len(log) \in Nat /\ DOMAIN log = 1..Len(log)
        /\ DOMAIN new = 1..(Len(log) + 1) /\ new[Len(log) + 1] = r
        /\ \A i \in DOMAIN log : new[i] = log[i]
    OBVIOUS
  <1>2. \A a : /\ a \in Traced(log) <=> Shows(log, a)
               /\ a \in Traced(new) <=> Shows(new, a)
    BY DEF Traced
  <1> HIDE DEF new
  <1>3. \A a : Shows(new, a) <=> \/ r.op = "a" /\ r.addr = a
                                 \/ Shows(log, a) /\ ~(r.op = "f" /\ r.addr = a)
    <2> TAKE a
    <2>1. ASSUME r.op = "a", r.addr = a PROVE Shows(new, a)
      BY <1>1, <2>1
    <2>2. ASSUME Shows(log, a), ~(r.op = "f" /\ r.addr = a) PROVE Shows(new, a)
      <3>1. PICK k \in DOMAIN log :
                /\ log[k].op = "a" /\ log[k].addr = a
                /\ \A j \in DOMAIN log : j > k => ~(log[j].op = "f" /\ log[j].addr = a)
        BY <2>2
      <3> QED BY <1>1, <2>2, <3>1
    <2>3. ASSUME Shows(new, a), ~(r.op = "a" /\ r.addr = a)
          PROVE  Shows(log, a) /\ ~(r.op = "f" /\ r.addr = a)
      <3>1. PICK k \in DOMAIN new :
                /\ new[k].op = "a" /\ new[k].addr = a
                /\ \A j \in DOMAIN new : j > k => ~(new[j].op = "f" /\ new[j].addr = a)
        BY <2>3
      <3>2. k \in DOMAIN log
        BY <1>1, <2>3, <3>1
      <3> QED BY <1>1, <3>1, <3>2
    <2> QED BY <2>1, <2>2, <2>3
  <1> HIDE DEF Shows
  <1>4. \A a : a \in Traced(new) <=> \/ r.op = "a" /\ r.addr = a
                                     \/ a \in Traced(log) /\ ~(r.op = "f" /\ r.addr = a)
    BY <1>2, <1>3
  <1>5. Traced(new) = IF r.op = "a" THEN Traced(log) \cup {r.addr}
                      ELSE IF r.op = "f" THEN Traced(log) \ {r.addr}
                      ELSE Traced(log)
    BY <1>4
  <1> QED BY <1>5 DEF new

(***************************************************************************)
(* The guards of a program that does not call fork(): each one that is set *)
(* is of a call that is still logging, so that a call by the program finds *)
(* the one of its function clear.                                          *)
(***************************************************************************)
GuardInv ==
    /\ is_initialized
    /\ \A x \in Activations : frame[x].fn # "fork"
    /\ \A t \in Threads : \A g \in guard[t] : \E x \in Activations :
           x[1] = t /\ frame[x].fn = g /\ frame[x].pc \in GuardedPcs

LEMMA ProgramMustLog ==
  ASSUME Nested, GuardInv, NEW x \in Activations, x[2] = 1, At(x, "guard")
  PROVE  MustLog(x)
  <1> SUFFICES ASSUME frame[x].fn \in guard[x[1]] PROVE FALSE
    BY DEF MustLog, GuardInv
  <1>0. \A y \in Activations : y = <<y[1], y[2]>> /\ y[1] \in Threads /\ y[2] \in 1..MaxDepth
    BY DEF Activations
  <1>1. PICK y \in Activations : y[1] = x[1] /\ frame[y].pc \in GuardedPcs
    BY <1>0 DEF GuardInv
  <1>2. frame[y].pc # "guard" /\ frame[y].pc # "idle"
    BY <1>1 DEF GuardedPcs
  <1>3. y[2] > x[2]
    <2>1. y[2] # 1
      BY <1>0, <1>1, <1>2 DEF At
    <2> QED BY <1>0, <2>1, CallStackAssumption
  <1> QED BY <1>1, <1>2, <1>3 DEF Nested, At

LEMMA GuardStep ==
  ASSUME "fork" \notin ProgramFns, TypeInv, UnwindInv, CallsOK, GuardInv,
         NEW x \in Activations, Call(x) \/ Step(x)
  PROVE  GuardInv'
  <1> DEFINE f == frame[x]
             g == frame'[x]
  <1> f \in Frames /\ CallOK(f) /\ guard \in [Threads -> SUBSET Fns] /\ x[1] \in Threads
    BY DEF TypeInv, TypeOK, CallsOK, Activations
  <1>0. \A y \in Activations \ {x} : frame'[y] = frame[y]
    BY OneFrame
  <1>keep. ASSUME UNCHANGED <<is_initialized, guard>>, g.fn # "fork",
                  f.pc \in GuardedPcs => g.fn = f.fn /\ g.pc \in GuardedPcs
           PROVE  GuardInv'
    BY <1>0, <1>keep DEF GuardInv
  <1> HIDE DEF f, g
  <1>1. CASE Call(x)
    <2>1. PICK fn, arg, zero : Begin(x, fn, arg, zero) /\ fn # "fork"
      BY <1>1 DEF Call, Allocate, Reallocate, Free, Load, Fork, Allocators
    <2>2. f.pc \notin GuardedPcs
      BY <1>1 DEF Call, At, GuardedPcs, f
    <2> QED BY <1>1, <1>keep, <2>1, <2>2, BegunLocals DEF Call, g
  <1>2. CASE \/ TrackerStep(x) /\ UNCHANGED <<unwind_mutex, preloadVars>>
             \/ BacktraceStep(x) /\ UNCHANGED preloadVars
    <2>1. /\ SameCall(x) /\ UNCHANGED preloadVars
          /\ \/ f.pc \in GuardedPcs /\ g.pc \in GuardedPcs
             \/ f.pc \in LoaderPcs  /\ g.pc \in LoaderPcs
      BY <1>2, TracingStep DEF f, g
    <2> QED BY <1>keep, <2>1 DEF SameCall, preloadVars, GuardInv, LoaderPcs, GuardedPcs, f, g
  <1>3. CASE \/ LibcAlloc(x)  \/ LibcRealloc(x) \/ LibcFree(x)   \/ LibcDlopen(x)
             \/ LibcDlclose(x) \/ LoadFailed(x) \/ LoaderReturn(x)
    <2>1. UNCHANGED <<is_initialized, guard>> /\ f.pc \notin GuardedPcs
      BY <1>3 DEF LibcAlloc, LibcRealloc, LibcFree, LibcDlopen, LibcDlclose, LoadFailed,
                  LoaderReturn, LoaderUnchanged, preloadVars, At, GuardedPcs, f
    <2>2. g.fn = f.fn \/ g = IdleFrame
      BY <1>3, NextLocals DEF LibcAlloc, LibcRealloc, LibcFree, LibcDlopen, LibcDlclose,
                              LoadFailed, LoaderReturn, SameCall, f, g
    <2> QED BY <1>keep, <2>1, <2>2 DEF GuardInv, IdleFrame, f
  <1>4. CASE Guard(x)
    <2>1. CASE MustLog(x)
      <3>1. /\ guard' = [guard EXCEPT ![x[1]] = @ \cup {f.fn}] /\ is_initialized' = is_initialized
            /\ f.pc \notin GuardedPcs
            /\ \E label \in GuardedPcs : Goto(x, label)
        BY <1>4, <2>1 DEF Guard, At, GuardedPcs, f
      <3>2. g.fn = f.fn /\ g.pc \in GuardedPcs
        BY <3>1, NextLocals DEF SameCall, f, g
      <3> QED BY <1>0, <3>1, <3>2 DEF GuardInv, f, g
    <2>2. CASE ~MustLog(x)
      <3>1. Leave(x) /\ UNCHANGED <<is_initialized, guard>> /\ f.pc \notin GuardedPcs
        BY <1>4, <2>2 DEF Guard, At, GuardedPcs, f
      <3>2. g.fn = f.fn \/ g = IdleFrame
        BY <3>1, NextLocals DEF Leave, SameCall, f, g
      <3> QED BY <1>keep, <3>1, <3>2 DEF GuardInv, IdleFrame, f
    <2> QED BY <2>1, <2>2
  <1>5. CASE Unguard(x)
    <2>1. /\ guard' = [guard EXCEPT ![x[1]] = @ \ {f.fn}] /\ is_initialized' = is_initialized
      BY <1>5 DEF Unguard, f
    <2>2. g.fn = f.fn \/ g = IdleFrame
      BY <1>5, NextLocals DEF Unguard, Leave, SameCall, f, g
    <2>3. g.fn # "fork"
      BY <2>2 DEF GuardInv, IdleFrame, f
    <2> QED BY <1>0, <2>1, <2>3 DEF GuardInv, f, g
  <1>6. CASE ForkPrepare(x) \/ ForkParent(x)
    BY <1>6 DEF ForkPrepare, ForkParent, At, CallOK, ForkPcs, GuardInv, f
  <1> QED BY <1>1, <1>2, <1>3, <1>4, <1>5, <1>6 DEF Step

(***************************************************************************)
(* What the program owns is in the log, and so is what a call of its own   *)
(* is about to hand it: the block of its result once the record was        *)
(* written, and the one that realloc() may still leave where it is.        *)
(***************************************************************************)
Announced(f) == \/ f.pc \in {"unwind_trace", "unwind_unlock", "unguard"}
                \/ Printing(f) /\ f.ret = "unwind_unlock"

ResultTraced(f) == f.fn # "free" /\ Held(f) # NULL /\ (Announced(f) \/ Held(f) = f.arg)
                       => Held(f) \in Traced(fifo)

OutIsBlock(f) == Printing(f) /\ f.ret = "unwind_trace"
                     => f.out = <<Record(Opcode(f), Block(f))>>

OwnedTraced == owned \subseteq Traced(fifo)

TracedInv ==
    /\ OwnedTraced
    /\ \A x \in Activations : x[2] = 1 => ResultTraced(frame[x])
    /\ \A x \in Activations : OutIsBlock(frame[x])

\* The steps between the guards that write nothing announce nothing.
LEMMA AnnouncedStep ==
  ASSUME TypeInv, UnwindInv, NEW x \in Activations,
         \/ TrackerStep(x) /\ ~FprintfWrite(x) /\ UNCHANGED <<unwind_mutex, preloadVars>>
         \/ BacktraceStep(x) /\ UNCHANGED preloadVars
  PROVE  /\ fifo' = fifo
         /\ Announced(frame'[x]) <=> Announced(frame[x])
         /\ OutIsBlock(frame[x]) => OutIsBlock(frame'[x])
  <1> DEFINE f == frame[x]
             g == frame'[x]
  <1> SUFFICES /\ fifo' = fifo
               /\ Announced(g) <=> Announced(f)
               /\ OutIsBlock(f) => OutIsBlock(g)
    OBVIOUS
  <1> USE DEF Announced, Printing, OutIsBlock, At, trackerVars
  <1>1. CASE FprintfLock(x)
    <2>1. f.pc = "fprintf_lock" /\ fifo' = fifo
      BY <1>1 DEF FprintfLock
    <2>2. /\ SameCall(x) /\ g.pc = "fprintf_write" /\ g.out = f.out /\ g.ret = f.ret
      BY <1>1, NextLocals
    <2> QED BY <2>1, <2>2 DEF SameCall, Opcode, Block
  <1>2. CASE \/ SetDirtyTrylock(x) \/ SetDirtyStore(x) \/ UpdateTrylock(x)
             \/ UpdateCheck(x) \/ UpdateUnlock(x)
    BY <1>2, NextLocals DEF SetDirtyTrylock, SetDirtyStore, UpdateTrylock, UpdateCheck,
                            UpdateUnlock, AfterUpdate
  <1>3. CASE UpdateIterate(x)
    <2>1. PICK records : Fprintf(x, records, "update_unlock")
      BY <1>3 DEF UpdateIterate
    <2>2. f.pc = "update_iterate" /\ fifo' = fifo
      BY <1>3 DEF UpdateIterate
    <2>3. g.ret = "update_unlock" /\ g.pc \in {"update_unlock", "fprintf_lock"}
      BY <2>1, NextPc
    <2> QED BY <2>2, <2>3
  <1>4. CASE UnwindLock(x) \/ UnwindUnlock(x)
    BY <1>4, NextLocals DEF UnwindLock, UnwindUnlock
  <1>5. CASE UnwindSize(x)
    <2> DEFINE records == <<Record(Opcode(f), Block(f))>>
    <2>1. f.pc = "unwind_size" /\ fifo' = fifo /\ Fprintf(x, records, "unwind_trace")
      BY <1>5 DEF UnwindSize
    <2>2. records # <<>> /\ (SameCall(x) => records = <<Record(Opcode(g), Block(g))>>)
      BY DEF SameCall, Opcode, Block
    <2> HIDE DEF records
    <2>3. /\ g.ret = "unwind_trace" /\ g.pc = "fprintf_lock" /\ g.out = records /\ SameCall(x)
      BY <2>1, <2>2, NextPc, NextLocals
    <2> QED BY <2>1, <2>2, <2>3
  <1>6. CASE UnwindTrace(x)
    <2>1. PICK records : Fprintf(x, records, "unwind_unlock")
      BY <1>6 DEF UnwindTrace
    <2>2. f.pc = "unwind_trace" /\ fifo' = fifo
      BY <1>6 DEF UnwindTrace
    <2>3. g.ret = "unwind_unlock" /\ g.pc \in {"unwind_unlock", "fprintf_lock"}
      BY <2>1, NextPc
    <2> QED BY <2>2, <2>3
  <1> QED BY <1>1, <1>2, <1>3, <1>4, <1>5, <1>6 DEF TrackerStep, BacktraceStep

\* What one record is, and what it does to the locals of its call.
LEMMA RecordWritten ==
  ASSUME TypeInv, UnwindInv, NEW x \in Activations, OutIsBlock(frame[x]), FprintfWrite(x)
  PROVE  \E r \in [op : {"a", "b", "f", "m"}, addr : Pointers, thr : Threads, ts : Nat] :
            /\ fifo' = Append(fifo, r)
            /\ r.op = Head(frame[x].out).op /\ r.addr = Head(frame[x].out).addr
            /\ r.thr = x[1]
            /\ SameCall(x)
            /\ frame[x].pc = "fprintf_write" /\ frame'[x].pc \notin {"libc", "guard"}
            /\ frame'[x].ret = frame[x].ret
            /\ \/ /\ frame[x].ret = "unwind_trace" /\ frame'[x].pc = "unwind_trace"
                  /\ r.op = Opcode(frame[x]) /\ r.addr = Block(frame[x])
                  /\ frame'[x].out = <<>>
               \/ /\ frame[x].ret = "unwind_unlock" /\ r.op = "b"
                  /\ frame'[x].pc \in {"fprintf_lock", "unwind_unlock"}
               \/ /\ frame[x].ret = "update_unlock" /\ r.op = "m"
                  /\ frame'[x].pc \in {"fprintf_lock", "update_unlock"}
  <1> DEFINE f == frame[x]
             g == frame'[x]
             R == [op : {"a", "b", "f", "m"}, addr : Pointers, thr : Threads, ts : Nat]
             r == [op |-> Head(f.out).op, addr |-> Head(f.out).addr, thr |-> x[1], ts |-> f.ts]
  <1>1. /\ f \in Frames /\ f.pc = "fprintf_write" /\ f.out # <<>> /\ f.out \in Seq(Records)
        /\ OutOK(f) /\ x[1] \in Threads /\ f.ts \in Nat
    BY DEF TypeInv, TypeOK, FramesOK, FrameOK, FprintfWrite, At, Frames, Activations,
           UnwindInv, Printing
  <1>2. fifo' = Append(fifo, r)
    BY DEF FprintfWrite
  <1>3. Head(f.out) \in Records /\ 1 \in DOMAIN f.out /\ Head(f.out) = f.out[1]
    BY <1>1
  <1>4. r \in R
    BY <1>1, <1>3 DEF Records
  <1>5. /\ SameCall(x) /\ g.ret = f.ret /\ g.out = Tail(f.out)
        /\ g.pc = IF Tail(f.out) = <<>> THEN f.ret ELSE "fprintf_lock"
    BY NextLocals
  <1>6. CASE f.ret = "unwind_trace"
    <2>1. f.out = <<Record(Opcode(f), Block(f))>>
      BY <1>1, <1>6 DEF OutIsBlock, Printing
    <2>2. Head(f.out) = Record(Opcode(f), Block(f)) /\ Tail(f.out) = <<>>
      BY <2>1
    <2>3. r.op = Opcode(f) /\ r.addr = Block(f)
      BY <2>2 DEF Record
    <2> QED BY <1>1, <1>2, <1>4, <1>5, <1>6, <2>2, <2>3
  <1>7. CASE f.ret # "unwind_trace"
    <2>1. \/ f.ret = "unwind_unlock" /\ r.op = "b"
          \/ f.ret = "update_unlock" /\ r.op = "m"
      BY <1>1, <1>3, <1>7 DEF OutOK
    <2> QED BY <1>1, <1>2, <1>4, <1>5, <2>1
  <1> QED BY <1>6, <1>7

LEMMA TracedStep ==
  ASSUME TypeInv, Nested, UnwindInv, CallsOK, HeldInv, GuardInv, TracedInv,
         NEW x \in Activations, Call(x) \/ Step(x)
  PROVE  TracedInv'
  <1> DEFINE f == frame[x]
             g == frame'[x]
  <1> /\ f \in Frames /\ CallOK(f) /\ FrameOK(f) /\ f.fn # "fork"
      /\ NULL \notin live /\ NULL \notin owned
    BY PreloadAssumption DEF TypeInv, TypeOK, FramesOK, CallsOK, GuardInv
  <1>0. \A y \in Activations \ {x} : frame'[y] = frame[y]
    BY OneFrame
  <1>idle. Held(IdleFrame) = NULL /\ ~Printing(IdleFrame)
    BY DEF Held, IdleFrame, Result, Loaders, Printing
  <1> HIDE DEF f, g
  <1>keep. ASSUME fifo' = fifo, owned' \subseteq Traced(fifo),
                  x[2] = 1 => ResultTraced(g), OutIsBlock(g)
           PROVE  TracedInv'
    BY <1>0, <1>keep DEF TracedInv, OwnedTraced, ResultTraced, OutIsBlock, g
  <1>1. CASE Call(x)
    <2>1. PICK fn, arg, zero : /\ Begin(x, fn, arg, zero) /\ fn \in Fns
                               /\ IF fn \in {"free", "realloc"}
                                  THEN arg \in owned \cup {NULL} /\ owned' = owned \ {arg}
                                  ELSE owned' = owned /\ (fn \notin Loaders => arg = NULL)
      BY <1>1 DEF Call, Allocate, Reallocate, Free, Load, Fork, Fns, Allocators, Loaders
    <2>2. /\ g.fn = fn /\ g.arg = arg /\ g.res = NULL
          /\ g.pc \in {"guard", "fork_prepare", "libc"}
      BY <2>1, BegunLocals DEF g
    <2>3. ResultTraced(g)
      BY <2>1, <2>2 DEF ResultTraced, Held, Result, TracedInv, OwnedTraced
    <2>4. OutIsBlock(g)
      BY <2>2 DEF OutIsBlock, Printing
    <2> QED BY <1>1, <1>keep, <2>1, <2>3, <2>4 DEF Call, trackerVars, TracedInv, OwnedTraced
  <1>2. CASE \/ TrackerStep(x) /\ ~FprintfWrite(x) /\ UNCHANGED <<unwind_mutex, preloadVars>>
             \/ BacktraceStep(x) /\ UNCHANGED preloadVars
    <2>1. /\ SameCall(x) /\ UNCHANGED preloadVars
          /\ \/ f.pc \in GuardedPcs /\ g.pc \in GuardedPcs
             \/ f.pc \in LoaderPcs  /\ g.pc \in LoaderPcs
      BY <1>2, TracingStep DEF f, g
    <2>2. Held(g) = Held(f) /\ g.fn = f.fn /\ g.arg = f.arg
      BY <2>1 DEF Held, Result, SameCall, GuardedPcs, LoaderPcs, f, g
    <2>3. /\ fifo' = fifo
          /\ Announced(g) <=> Announced(f)
          /\ OutIsBlock(f) => OutIsBlock(g)
      BY <1>2, AnnouncedStep DEF f, g
    <2> QED BY <1>keep, <2>1, <2>2, <2>3
            DEF TracedInv, OwnedTraced, ResultTraced, preloadVars, heapVars, f
  <1>3. CASE FprintfWrite(x) /\ UNCHANGED <<unwind_mutex, preloadVars>>
    <2> DEFINE R == [op : {"a", "b", "f", "m"}, addr : Pointers, thr : Threads, ts : Nat]
    <2>1. PICK r \in R :
            /\ fifo' = Append(fifo, r)
            /\ SameCall(x) /\ f.pc = "fprintf_write" /\ g.pc \notin {"libc", "guard"}
            /\ g.ret = f.ret
            /\ \/ /\ f.ret = "unwind_trace" /\ g.pc = "unwind_trace"
                  /\ r.op = Opcode(f) /\ r.addr = Block(f) /\ g.out = <<>>
               \/ /\ f.ret = "unwind_unlock" /\ r.op = "b"
                  /\ g.pc \in {"fprintf_lock", "unwind_unlock"}
               \/ /\ f.ret = "update_unlock" /\ r.op = "m"
                  /\ g.pc \in {"fprintf_lock", "update_unlock"}
      BY <1>3, RecordWritten DEF TracedInv, f, g
    <2>2. fifo \in Seq(R)
      BY DEF TypeInv, TypeOK
    <2> HIDE DEF R
    <2>3. Traced(fifo') = IF r.op = "a" THEN Traced(fifo) \cup {r.addr}
                          ELSE IF r.op = "f" THEN Traced(fifo) \ {r.addr}
                          ELSE Traced(fifo)
      BY <2>1, <2>2, TracedAppend
    <2>4. /\ Held(g) = Held(f) /\ g.fn = f.fn /\ g.arg = f.arg
          /\ f.fn \in Reallocators \cup {"free"} \cup Loaders
      BY <2>1 DEF Held, Result, SameCall, CallOK, LogPcs, GuardedPcs, f, g
    <2>5. r.op = "f" => r.addr = Held(f) \/ r.addr = NULL
      BY <2>1, <2>4 DEF Opcode, Block, Held, Result, CallOK, LogPcs, GuardedPcs, Loaders
    <2>6. ASSUME NEW a, a # NULL, a \in Traced(fifo), r.op = "f" => a # Held(f)
          PROVE  a \in Traced(fifo')
      BY <2>3, <2>5, <2>6
    <2>7. owned' = owned /\ OwnedTraced'
      <3>1. owned' = owned
        BY <1>3 DEF preloadVars, heapVars
      <3> QED BY <3>1, <2>6 DEF TracedInv, OwnedTraced, HeldInv, f
    <2>8. ASSUME NEW y \in Activations \ {x}, y[2] = 1 PROVE ResultTraced(frame[y])'
      <3>1. Held(frame[y]) = NULL \/ Held(frame[y]) # Held(f)
        BY DEF HeldInv, f
      <3> QED BY <1>0, <2>6, <2>8, <3>1 DEF TracedInv, ResultTraced
    <2>9. ASSUME x[2] = 1 PROVE ResultTraced(frame[x])'
      <3> SUFFICES ASSUME g.fn # "free", Held(g) # NULL, Announced(g) \/ Held(g) = g.arg
                   PROVE  Held(g) \in Traced(fifo')
        BY DEF ResultTraced, g
      <3>0. ASSUME Held(f) \in Traced(fifo), r.op # "f" PROVE Held(g) \in Traced(fifo')
        BY <2>4, <2>6, <3>0
      <3>1. CASE f.ret = "unwind_trace" /\ r.op = "a"
        <4>1. r.addr = Held(f) \/ Held(f) = f.arg
          BY <2>1, <2>4, <3>1 DEF Block, Held, Result, Opcode, Reallocators, Allocators, Loaders
        <4>2. CASE r.addr = Held(f)
          BY <2>3, <2>4, <3>1, <4>2
        <4>3. CASE Held(f) = f.arg
          BY <2>4, <2>9, <3>0, <3>1, <4>3 DEF TracedInv, ResultTraced, f
        <4> QED BY <4>1, <4>2, <4>3
      <3>2. CASE f.ret = "unwind_trace" /\ r.op # "a"
        <4>1. f.fn = "realloc" /\ f.arg # NULL /\ f.zero
          BY <2>1, <2>4, <3>2 DEF Opcode
        <4>2. Held(f) = NULL
          BY <2>1, <4>1 DEF Held, Result, CallOK, Loaders
        <4> QED BY <2>4, <4>2
      <3>3. CASE f.ret # "unwind_trace"
        <4>1. Announced(g) => Announced(f)
          BY <2>1, <3>3 DEF Announced, Printing
        <4>2. Held(f) \in Traced(fifo)
          BY <2>4, <2>9, <4>1 DEF TracedInv, ResultTraced, f
        <4> QED BY <2>1, <3>0, <3>3, <4>2
      <3> QED BY <3>1, <3>2, <3>3
    <2>10. OutIsBlock(g)
      BY <2>1 DEF OutIsBlock, Printing
    <2> QED BY <1>0, <2>7, <2>8, <2>9, <2>10 DEF TracedInv, OutIsBlock, g
  <1>4. CASE LibcAlloc(x) \/ LibcRealloc(x)
    <2>1. PICK ptr : Got(x, ptr)
      BY <1>4 DEF LibcAlloc, LibcRealloc
    <2>2. /\ f.pc = "libc" /\ f.fn \in Reallocators /\ UNCHANGED <<fifo, owned>>
          /\ f.arg = NULL \/ f.fn = "realloc"
      BY <1>4 DEF LibcAlloc, LibcRealloc, At, CallOK, Reallocators, trackerVars, f
    <2>3. /\ g.fn = f.fn /\ g.arg = f.arg /\ g.pc = "guard"
      BY <2>1, NextLocals DEF f, g
    <2>4. Held(f) = f.arg
      BY <2>2 DEF Held, Loaders, Reallocators, Allocators
    <2>5. x[2] = 1 => ResultTraced(g)
      BY <2>2, <2>3, <2>4 DEF TracedInv, ResultTraced, Announced, Printing, f, Held
    <2>6. OutIsBlock(g)
      BY <2>3 DEF OutIsBlock, Printing
    <2> QED BY <1>keep, <2>2, <2>5, <2>6 DEF TracedInv, OwnedTraced
  <1>5. ASSUME Return(x), UNCHANGED fifo, f.fn # "free", f.pc # "libc",
               x[2] = 1 /\ Held(f) # NULL => Announced(f)
        PROVE  TracedInv'
    <2>1. Result(f) = Held(f)
      BY <1>5 DEF Result, Held, CallOK, Reallocators, Allocators, Loaders
    <2>2. g = IdleFrame /\ owned' \subseteq Traced(fifo)
      <3>1. owned \subseteq Traced(fifo) /\ (x[2] = 1 => ResultTraced(f))
        BY DEF TracedInv, OwnedTraced, f
      <3>2. x[2] = 1 /\ Result(f) # NULL => Result(f) \in Traced(fifo)
        BY <1>5, <2>1, <3>1 DEF ResultTraced
      <3>3. owned' = IF x[2] = 1 THEN owned \cup ({Result(f)} \ {NULL}) ELSE owned
        BY <1>5 DEF Return, f
      <3>4. g = IdleFrame
        BY <1>5, NextLocals DEF g
      <3> QED BY <3>1, <3>2, <3>3, <3>4
    <2>3. ResultTraced(g) /\ OutIsBlock(g)
      BY <1>idle, <2>2 DEF ResultTraced, OutIsBlock
    <2> QED BY <1>5, <1>keep, <2>2, <2>3
  <1>6. CASE LibcFree(x)
    <2>1. f.res = NULL /\ f.fn = "free" /\ UNCHANGED fifo /\ Return(x)
      BY <1>6 DEF LibcFree, CallOK, At, trackerVars, f, Reallocators, Allocators
    <2>2. owned' = owned /\ g = IdleFrame
      BY <2>1, NextLocals DEF Return, Result, f, g
    <2> QED BY <1>idle, <1>keep, <2>1, <2>2 DEF ResultTraced, OutIsBlock, TracedInv, OwnedTraced
  <1>7. CASE LoaderReturn(x)
    <2>1. Return(x) /\ UNCHANGED fifo /\ f.pc = "return"
      BY <1>7 DEF LoaderReturn, At, trackerVars, f
    <2>2. f.fn \in Loaders
      BY <2>1 DEF CallOK, LoaderPcs
    <2> QED BY <1>5, <2>1, <2>2 DEF Held, Loaders
  <1>8. CASE LibcDlopen(x) \/ LibcDlclose(x) \/ LoadFailed(x)
    <2>1. /\ f.fn \in Loaders /\ UNCHANGED <<fifo, owned>> /\ g.fn = f.fn
          /\ g.pc \in {"set_dirty", "return"}
      BY <1>8, NextLocals DEF LibcDlopen, LibcDlclose, LoadFailed, LoaderUnchanged, preloadVars,
             heapVars, SameCall, Loaders, f, g
    <2> QED BY <1>keep, <2>1 DEF ResultTraced, Held, OutIsBlock, Printing, TracedInv, OwnedTraced
  <1>9. CASE Guard(x)
    <2>0. f.pc = "guard" /\ UNCHANGED fifo
      BY <1>9 DEF Guard, At, trackerVars, f
    <2>1. CASE MustLog(x)
      <3>1. /\ UNCHANGED owned
            /\ \/ Goto(x, "update_trylock") \/ Goto(x, "unwind_lock")
               \/ f.fn = "free" /\ Goto(x, "unguard")
        BY <1>9, <2>1 DEF Guard, f
      <3>2. SameCall(x) /\ (g.fn = "free" \/ g.pc \in {"update_trylock", "unwind_lock"})
                        /\ g.pc \in {"update_trylock", "unwind_lock", "unguard"}
        BY <3>1, NextLocals DEF SameCall, f, g
      <3>3. ResultTraced(f) /\ ~Announced(f) => ResultTraced(g)
        BY <2>0, <3>2 DEF ResultTraced, Announced, Printing, Held, Result, SameCall, f, g
      <3> QED BY <1>keep, <2>0, <3>1, <3>2, <3>3
              DEF TracedInv, OwnedTraced, OutIsBlock, Announced, Printing, f
    <2>2. CASE ~MustLog(x)
      <3>1. x[2] # 1 /\ Leave(x)
        BY <1>9, <2>0, <2>2, ProgramMustLog DEF Guard, At, f
      <3>2. CASE f.fn = "free"
        <4>1. UNCHANGED owned /\ g.pc = "libc_free"
          BY <3>1, <3>2, NextLocals DEF Leave, f, g
        <4> QED BY <1>keep, <2>0, <3>1, <4>1 DEF TracedInv, OwnedTraced, OutIsBlock, Printing
      <3>3. CASE f.fn # "free"
        BY <1>5, <2>0, <3>1, <3>3 DEF Leave, f
      <3> QED BY <3>2, <3>3
    <2> QED BY <2>1, <2>2
  <1>10. CASE Unguard(x)
    <2>0. f.pc = "unguard" /\ UNCHANGED fifo /\ Leave(x)
      BY <1>10 DEF Unguard, At, trackerVars, f
    <2>1. CASE f.fn = "free"
      <3>1. UNCHANGED owned /\ g.pc = "libc_free" /\ g.fn = "free"
        BY <2>0, <2>1, NextLocals DEF Leave, SameCall, f, g
      <3> QED BY <1>keep, <2>0, <3>1
              DEF TracedInv, OwnedTraced, OutIsBlock, Printing, ResultTraced
    <2>2. CASE f.fn # "free"
      BY <1>5, <2>0, <2>2 DEF Leave, Announced, f
    <2> QED BY <2>1, <2>2
  <1>11. CASE ForkPrepare(x) \/ ForkParent(x)
    BY <1>11 DEF ForkPrepare, ForkParent, At, CallOK, ForkPcs, f
  <1> QED BY <1>1, <1>2, <1>3, <1>4, <1>6, <1>7, <1>8, <1>9, <1>10, <1>11 DEF Step, TrackerStep

LEMMA TracedInvariant ==
  ASSUME "fork" \notin ProgramFns
  PROVE  Spec => [](/\ TypeInv /\ Nested /\ UnwindInv /\ CallsOK /\ HeldInv
                    /\ GuardInv /\ TracedInv)
  <1>1. Init => GuardInv /\ TracedInv
    BY DEF Init, StackInit, IdleFrame, TrackerInit, GuardInv, TracedInv, OwnedTraced,
           ResultTraced, OutIsBlock, Printing, Held, Result, Loaders
  <1>2. TypeInv /\ Nested /\ UnwindInv /\ CallsOK /\ HeldInv /\ GuardInv /\ TracedInv
        /\ [Next]_vars => (GuardInv /\ TracedInv)'
    <2> SUFFICES ASSUME TypeInv, Nested, UnwindInv, CallsOK, HeldInv, GuardInv, TracedInv,
                        [Next]_vars
                 PROVE  GuardInv' /\ TracedInv'
      OBVIOUS
    <2>1. CASE UNCHANGED vars
      BY <2>1 DEF vars, trackerVars, preloadVars, heapVars, GuardInv, TracedInv, OwnedTraced,
                  ResultTraced, OutIsBlock
    <2>2. ASSUME NEW x \in Activations, Call(x) \/ Step(x) PROVE GuardInv' /\ TracedInv'
      BY <2>2, GuardStep, TracedStep
    <2> QED BY <2>1, <2>2 DEF Next, Rest
  <1> QED BY <1>1, <1>2, HeldInvariant, PTL DEF Spec

(***************************************************************************)
(* No leak is missed: in a program that does not fork, every block that it *)
(* holds a pointer to has an 'a' record that no later 'f' retracts, however*)
(* many threads log at once, whatever libunwind allocates in the middle of *)
(* a record, and when malloc(), realloc() or dlopen() fails                *)
(* (preload.c:134-214).                                                    *)
(***************************************************************************)
THEOREM AllocationsAnnounced ==
  ASSUME "fork" \notin ProgramFns
  PROVE  Spec => []OwnedIsTraced
  <1>1. TracedInv => OwnedIsTraced
    BY DEF TracedInv, OwnedTraced, OwnedIsTraced
  <1> QED BY <1>1, TracedInvariant, PTL

(***************************************************************************)
(* The library implements HeapTrace, for a program of malloc(), calloc(),  *)
(* free(), dlopen() and dlclose() whose calls do not fail.  A block is     *)
(* announced by the call that holds it, once, and retracted by the free()  *)
(* that holds it, before it is released.                                   *)
(***************************************************************************)
Retracted(f) == Announced(f) \/ f.pc = "libc_free"

BlockOK(f) ==
    /\ f.fn # "realloc"
    /\ f.fn \in Allocators /\ f.pc # "libc" =>
           /\ f.res # NULL
           /\ ~Announced(f) => f.res \notin Traced(fifo)
    /\ f.fn = "free" =>
           /\ f.arg # NULL => (f.arg \in Traced(fifo) <=> ~Retracted(f))
           /\ f.pc \in GuardedPcs \ {"unguard"} => f.arg # NULL

ModulesOut(f) ==
    \A i \in DOMAIN f.out : f.out[i].op \in {"m", "b"} => f.out[i].addr \in Modules

BlocksInv ==
    /\ Traced(fifo) \subseteq live
    /\ \A x \in Activations : /\ BlockOK(frame[x])
                              /\ frame[x].fn = "free" => x[2] = 1
                              /\ ModulesOut(frame[x])

NothingFails == /\ ProgramFns \cap {"fork", "realloc"} = {}
                /\ MayFail = FALSE

\* A record as HeapTrace sees it.
Shown(r) == [op |-> r.op, addr |-> r.addr, thr |-> r.thr]

\* The two logs show the same blocks.
LEMMA ShownTraced == Trace!Traced(ShownLog) = Traced(fifo)
  <1>1. /\ DOMAIN ShownLog = DOMAIN fifo
        /\ \A i \in DOMAIN fifo : ShownLog[i].op = fifo[i].op /\ ShownLog[i].addr = fifo[i].addr
    BY DEF ShownLog
  <1> QED BY <1>1 DEF Traced, Trace!Traced

LEMMA ShownOwner ==
  ASSUME NEW S, fifo \in Seq(S), NEW j \in DOMAIN fifo
  PROVE  /\ Len(ShownLog) = Len(fifo)
         /\ IsOwnerOf(fifo, Len(fifo) + 1, j)
               => Trace!IsOwnerOf(ShownLog, Len(ShownLog) + 1, j)
  <1>1. /\ DOMAIN ShownLog = DOMAIN fifo /\ DOMAIN fifo = 1..Len(fifo) /\ Len(fifo) \in Nat
        /\ \A i \in DOMAIN fifo : ShownLog[i].op = fifo[i].op
    BY DEF ShownLog
  <1>2. Len(ShownLog) = Len(fifo)
    BY <1>1 DEF ShownLog
  <1> QED BY <1>1, <1>2 DEF IsOwnerOf, Trace!IsOwnerOf, IsBlock, Trace!IsBlock

\* A record of the library is a record of HeapTrace.
LEMMA ShownAppend ==
  ASSUME NEW S, fifo \in Seq(S), NEW r \in S, fifo' = Append(fifo, r)
  PROVE  ShownLog' = Append(ShownLog, Shown(r))
  <1>1. /\ DOMAIN fifo = 1..Len(fifo) /\ Len(fifo) \in Nat
        /\ DOMAIN fifo' = 1..(Len(fifo) + 1)
        /\ fifo'[Len(fifo) + 1] = r
        /\ \A i \in DOMAIN fifo : fifo'[i] = fifo[i]
    OBVIOUS
  <1> DEFINE T == {Shown(e) : e \in S}
             shown == Append(ShownLog, Shown(r))
  <1>2. ShownLog \in Seq(T) /\ Len(ShownLog) = Len(fifo) /\ Shown(r) \in T
    <2>1. \A i \in 1..Len(fifo) : fifo[i] \in S
      BY <1>1
    <2>2. ShownLog = [i \in 1..Len(fifo) |-> Shown(fifo[i])]
      BY <1>1 DEF ShownLog, Shown
    <2> QED BY <1>1, <2>1, <2>2
  <1> HIDE DEF T
  <1>3. /\ shown \in Seq(T) /\ Len(shown) = Len(fifo) + 1
        /\ shown[Len(fifo) + 1] = Shown(r)
        /\ \A i \in 1..Len(fifo) : shown[i] = ShownLog[i]
    BY <1>2, AppendProperties
  <1>4. ShownLog' = [i \in 1..(Len(fifo) + 1) |-> Shown(fifo'[i])]
    BY <1>1 DEF ShownLog, Shown
  <1>5. \A i \in 1..(Len(fifo) + 1) : shown[i] = Shown(fifo'[i])
    <2>1. \A i \in 1..Len(fifo) : ShownLog[i] = Shown(fifo[i])
      BY <1>1 DEF ShownLog, Shown
    <2> QED BY <1>1, <1>3, <2>1
  <1> HIDE DEF shown
  <1>6. shown = [i \in 1..(Len(fifo) + 1) |-> shown[i]]
    <2>1. shown \in [1..(Len(fifo) + 1) -> T]
      BY <1>3, LenProperties
    <2> QED BY <2>1
  <1> QED BY <1>4, <1>5, <1>6 DEF shown

\* The steps that write nothing, allocate nothing and release nothing.
LEMMA QuietStep ==
  ASSUME UNCHANGED <<fifo, live>>
  PROVE  Traced(fifo') = Traced(fifo) /\ UNCHANGED <<live, ShownLog>>
  BY DEF ShownLog

LEMMA BlocksStep ==
  ASSUME NothingFails, TypeInv, Nested, UnwindInv, CallsOK, HeldInv, GuardInv, TracedInv,
         BlocksInv, NEW x \in Activations, Call(x) \/ Step(x)
  PROVE  BlocksInv' /\ [Trace!Next]_<<live, ShownLog>>
  <1> DEFINE f == frame[x]
             g == frame'[x]
  <1> /\ f \in Frames /\ CallOK(f) /\ FrameOK(f) /\ f.fn \notin {"fork", "realloc"}
      /\ NULL \notin live /\ NULL \notin owned /\ x[1] \in Threads
    BY PreloadAssumption
       DEF TypeInv, TypeOK, FramesOK, CallsOK, GuardInv, BlocksInv, BlockOK, Activations
  <1>0. \A y \in Activations \ {x} : frame'[y] = frame[y]
    BY OneFrame
  <1> HIDE DEF f, g
  <1>keep. ASSUME UNCHANGED <<fifo, live>>, BlockOK(g), g.fn = "free" => x[2] = 1, ModulesOut(g)
           PROVE  BlocksInv' /\ [Trace!Next]_<<live, ShownLog>>
    <2>1. BlocksInv'
      BY <1>0, <1>keep DEF BlocksInv, BlockOK, ModulesOut, g
    <2> QED BY <1>keep, <2>1, QuietStep
  <1>idle. BlockOK(IdleFrame) /\ IdleFrame.fn # "free" /\ ModulesOut(IdleFrame)
    BY DEF IdleFrame, BlockOK, ModulesOut, Allocators
  <1>1. CASE Call(x)
    <2>0. "realloc" \notin ProgramFns
      BY DEF NothingFails
    <2>1. PICK fn, arg, zero : /\ Begin(x, fn, arg, zero) /\ fn # "realloc"
                               /\ fn = "free" => x[2] = 1 /\ arg \in owned \cup {NULL}
      <3>1. CASE Allocate(x)
        BY <3>1 DEF Allocate, Allocators
      <3>2. CASE Free(x)
        BY <3>2 DEF Free
      <3>3. CASE Load(x)
        <4>1. PICK m \in Modules, fn \in Loaders : Begin(x, fn, m, FALSE)
          BY <3>3 DEF Load, Loaders
        <4> QED BY <4>1 DEF Loaders
      <3>4. CASE Fork(x)
        BY <3>4 DEF Fork
      <3> QED BY <1>1, <2>0, <3>1, <3>2, <3>3, <3>4 DEF Call, Reallocate
    <2>2. /\ g.fn = fn /\ g.arg = arg /\ g.out = <<>>
          /\ fn = "free" => g.pc = "guard"
          /\ fn \in Allocators => g.pc = "libc"
      BY <2>1, BegunLocals DEF g, Allocators
    <2>3. BlockOK(g)
      BY <2>1, <2>2 DEF BlockOK, Retracted, Announced, Printing, GuardedPcs, Allocators,
                        TracedInv, OwnedTraced
    <2>4. ModulesOut(g)
      BY <2>2 DEF ModulesOut
    <2> QED BY <1>1, <1>keep, <2>1, <2>2, <2>3, <2>4 DEF Call, trackerVars
  <1>2. CASE \/ TrackerStep(x) /\ ~FprintfWrite(x) /\ UNCHANGED <<unwind_mutex, preloadVars>>
             \/ BacktraceStep(x) /\ UNCHANGED preloadVars
    <2>1. /\ SameCall(x) /\ UNCHANGED preloadVars
          /\ \/ f.pc \in GuardedPcs /\ g.pc \in GuardedPcs
             \/ f.pc \in LoaderPcs  /\ g.pc \in LoaderPcs
      BY <1>2, TracingStep DEF f, g
    <2>2. fifo' = fifo /\ (Announced(g) <=> Announced(f))
      BY <1>2, AnnouncedStep DEF f, g
    <2>3. /\ g.fn = f.fn /\ g.arg = f.arg /\ g.res = f.res
          /\ f.pc \in LoaderPcs => f.fn \in Loaders
      BY <2>1 DEF SameCall, CallOK, f, g
    <2>4. BlockOK(g)
      <3>1. CASE f.pc \in GuardedPcs
        <4>1. f.pc = "unguard" => ~(TrackerStep(x) \/ BacktraceStep(x))
          BY DEF TrackerStep, FprintfLock, FprintfWrite, SetDirtyTrylock, SetDirtyStore,
                 UpdateTrylock, UpdateCheck, UpdateIterate, UpdateUnlock, BacktraceStep,
                 UnwindLock, UnwindSize, UnwindTrace, UnwindUnlock, At, f
        <4>2. f.pc \notin {"libc", "libc_free", "unguard"} /\ g.pc \notin {"libc", "libc_free"}
          BY <1>2, <2>1, <3>1, <4>1 DEF GuardedPcs, LoaderPcs
        <4> QED BY <2>2, <2>3, <3>1, <4>2 DEF BlocksInv, BlockOK, Retracted, f
      <3>2. CASE f.pc \in LoaderPcs
        BY <2>3, <3>2 DEF BlockOK, Loaders, Allocators
      <3> QED BY <2>1, <3>1, <3>2
    <2>5. ModulesOut(g)
      <3>1. CASE UpdateIterate(x)
        <4> DEFINE records == [i \in 1..Len(loaded) |-> Record("m", loaded[i])]
        <4>1. \A i \in DOMAIN records : records[i].addr \in Modules
          BY DEF Record, TypeInv, TypeOK
        <4>2. Fprintf(x, records, "update_unlock")
          BY <3>1 DEF UpdateIterate
        <4> HIDE DEF records
        <4> QED BY <4>1, <4>2, NextPc DEF ModulesOut, g
      <3>2. CASE UnwindSize(x)
        <4> DEFINE records == <<Record(Opcode(f), Block(f))>>
        <4>1. \A i \in DOMAIN records : records[i].op \notin {"m", "b"}
          BY DEF Record, Opcode
        <4>2. Fprintf(x, records, "unwind_trace")
          BY <3>2 DEF UnwindSize, f
        <4> HIDE DEF records
        <4> QED BY <4>1, <4>2, NextPc DEF ModulesOut, g
      <3>3. CASE UnwindTrace(x)
        <4>1. PICK n \in 0..MaxFrames : \E m \in [1..n -> LoadedModules] :
                  Fprintf(x, [i \in 1..n |-> Record("b", m[i])], "unwind_unlock")
          BY <3>3 DEF UnwindTrace
        <4>2. PICK mods \in [1..n -> LoadedModules] :
                  Fprintf(x, [i \in 1..n |-> Record("b", mods[i])], "unwind_unlock")
          BY <4>1
        <4> DEFINE records == [i \in 1..n |-> Record("b", mods[i])]
        <4>3. \A i \in DOMAIN records : records[i].addr \in Modules
          BY DEF Record, LoadedModules, TypeInv, TypeOK
        <4>4. Fprintf(x, records, "unwind_unlock")
          BY <4>2
        <4> HIDE DEF records
        <4> QED BY <4>3, <4>4, NextPc DEF ModulesOut, g
      <3>4. CASE ~(UpdateIterate(x) \/ UnwindSize(x) \/ UnwindTrace(x))
        <4>1. g.out = f.out
          BY <1>2, <3>4, NextLocals
             DEF TrackerStep, SetDirtyTrylock, SetDirtyStore, UpdateTrylock, UpdateCheck,
                 UpdateUnlock, AfterUpdate, BacktraceStep, UnwindLock, UnwindUnlock, f, g
        <4> QED BY <4>1 DEF ModulesOut, BlocksInv, f
      <3> QED BY <3>1, <3>2, <3>3, <3>4
    <2> QED BY <1>keep, <2>1, <2>2, <2>3, <2>4, <2>5 DEF preloadVars, heapVars, BlocksInv, f
  <1>3. CASE FprintfWrite(x) /\ UNCHANGED <<unwind_mutex, preloadVars>>
    <2> DEFINE R == [op : {"a", "b", "f", "m"}, addr : Pointers, thr : Threads, ts : Nat]
    <2>1. PICK r \in R :
            /\ fifo' = Append(fifo, r)
            /\ r.op = Head(f.out).op /\ r.addr = Head(f.out).addr /\ r.thr = x[1]
            /\ SameCall(x) /\ f.pc = "fprintf_write" /\ g.ret = f.ret
            /\ \/ /\ f.ret = "unwind_trace" /\ g.pc = "unwind_trace"
                  /\ r.op = Opcode(f) /\ r.addr = Block(f) /\ g.out = <<>>
               \/ /\ f.ret = "unwind_unlock" /\ r.op = "b"
                  /\ g.pc \in {"fprintf_lock", "unwind_unlock"}
               \/ /\ f.ret = "update_unlock" /\ r.op = "m"
                  /\ g.pc \in {"fprintf_lock", "update_unlock"}
      BY <1>3, RecordWritten DEF TracedInv, f, g
    <2>2. fifo \in Seq(R) /\ f.out \in Seq(Records) /\ f.out # <<>> /\ live' = live
      BY <1>3, <2>1 DEF TypeInv, TypeOK, FrameOK, Frames, preloadVars, heapVars
    <2> HIDE DEF R
    <2>3. Traced(fifo') = IF r.op = "a" THEN Traced(fifo) \cup {r.addr}
                          ELSE IF r.op = "f" THEN Traced(fifo) \ {r.addr}
                          ELSE Traced(fifo)
      BY <2>1, <2>2, TracedAppend
    <2>4. ShownLog' = Append(ShownLog, Shown(r))
      BY <2>1, <2>2, ShownAppend
    <2>5. /\ g.fn = f.fn /\ g.arg = f.arg /\ g.res = f.res
          /\ f.fn \in Allocators \cup {"free"}
      BY <2>1 DEF SameCall, CallOK, LogPcs, GuardedPcs, Reallocators, f, g
    <2>6. ModulesOut(g)
      <3>1. g.out = Tail(f.out)
        BY <1>3, NextLocals DEF f, g
      <3>2. \A i \in DOMAIN Tail(f.out) : Tail(f.out)[i] = f.out[i + 1] /\ i + 1 \in DOMAIN f.out
        BY <2>2
      <3> QED BY <3>1, <3>2 DEF ModulesOut, BlocksInv, f
    <2>a. ASSUME Traced(fifo') \subseteq live, BlockOK(frame[x])',
                 \A a : a # Held(f) => (a \in Traced(fifo') <=> a \in Traced(fifo))
          PROVE  BlocksInv'
      <3>1. ASSUME NEW y \in Activations \ {x} PROVE BlockOK(frame[y])'
        <4>1. /\ BlockOK(frame[y]) /\ CallOK(frame[y]) /\ frame'[y] = frame[y]
              /\ Held(frame[y]) = NULL \/ Held(frame[y]) # Held(f)
          BY <1>0 DEF BlocksInv, CallsOK, HeldInv, f
        <4> DEFINE h == frame[y]
        <4>2. h.fn \in Allocators /\ h.pc # "libc" => Held(h) = h.res
          BY DEF Held, Result, Allocators, Loaders
        <4>3. h.fn = "free" => Held(h) = h.arg
          BY DEF Held, Loaders
        <4> QED BY <2>a, <4>1, <4>2, <4>3 DEF BlockOK, Retracted, Announced, Printing
      <3>2. \A y \in Activations : frame'[y].fn = frame[y].fn /\ ModulesOut(frame[y])'
        BY <1>0, <2>5, <2>6 DEF BlocksInv, ModulesOut, f, g
      <3> QED BY <2>2, <2>a, <3>1, <3>2 DEF BlocksInv
    <2>7. CASE f.ret = "unwind_trace" /\ f.fn \in Allocators
      <3>1. r.op = "a" /\ r.addr = f.res /\ Held(f) = f.res /\ f.fn # "free" /\ f.res # NULL
        BY <2>1, <2>7 DEF Opcode, Block, Held, Result, Allocators, Loaders, BlocksInv, BlockOK, f
      <3>2. f.res \in live \ Traced(fifo) /\ f.res \in Addrs
        BY <2>1, <2>7, <3>1
           DEF HeldInv, BlocksInv, BlockOK, Announced, Printing, TypeInv, TypeOK, f
      <3>3. Traced(fifo') = Traced(fifo) \cup {f.res}
        BY <2>3, <3>1
      <3>4. BlocksInv'
        <4>1. BlockOK(frame[x])'
          BY <2>1, <2>5, <2>7, <3>1 DEF BlockOK, Announced, Allocators, g
        <4> QED BY <2>a, <3>1, <3>2, <3>3, <4>1 DEF BlocksInv
      <3>5. Trace!LogAlloc(f.res, x[1])
        BY <2>2, <2>4, <3>1, <3>2, <2>1, ShownTraced
           DEF Trace!LogAlloc, Trace!Log, Shown, ShownLog
      <3> QED BY <3>2, <3>4, <3>5 DEF Trace!Next
    <2>8. CASE f.ret = "unwind_trace" /\ f.fn = "free"
      <3>1. /\ r.op = "f" /\ r.addr = f.arg /\ Held(f) = f.arg /\ f.arg # NULL
            /\ f.arg \in Traced(fifo)
        BY <2>1, <2>8 DEF Opcode, Block, Held, Loaders, BlocksInv, BlockOK, GuardedPcs,
             Retracted, Announced, Printing, f
      <3>2. Traced(fifo') = Traced(fifo) \ {f.arg} /\ f.arg \in Addrs
        BY <2>3, <3>1 DEF BlocksInv, TypeInv, TypeOK
      <3>3. BlocksInv'
        <4>1. BlockOK(frame[x])'
          BY <2>1, <2>5, <2>8, <3>1, <3>2 DEF BlockOK, Retracted, Announced, Allocators, g
        <4> QED BY <2>a, <3>1, <3>2, <4>1 DEF BlocksInv
      <3>4. Trace!LogFree(f.arg, x[1])
        BY <2>2, <2>4, <3>1, <2>1, ShownTraced
           DEF Trace!LogFree, Trace!Log, Shown, ShownLog
      <3> QED BY <3>2, <3>3, <3>4 DEF Trace!Next
    <2>9. CASE f.ret # "unwind_trace"
      <3>1. Traced(fifo') = Traced(fifo)
        BY <2>1, <2>3, <2>9
      <3>2. r.addr \in Modules
        BY <2>1, <2>2, <2>9 DEF BlocksInv, ModulesOut, f
      <3>3. Announced(g) <=> Announced(f)
        BY <2>1, <2>9 DEF Announced, Printing
      <3>4. BlocksInv'
        <4>1. BlockOK(frame[x])'
          BY <2>1, <2>5, <2>9, <3>1, <3>3
             DEF BlocksInv, BlockOK, Retracted, Announced, Printing, GuardedPcs, f, g
        <4> QED BY <2>a, <3>1, <4>1 DEF BlocksInv
      <3>5. CASE r.op = "m"
        <4>1. Trace!LogModule(r.addr, x[1])
          BY <2>1, <2>2, <2>4, <3>5 DEF Trace!LogModule, Trace!Log, Shown, ShownLog
        <4> QED BY <3>2, <3>4, <4>1 DEF Trace!Next
      <3>6. CASE r.op = "b"
        <4>1. HasOwner(fifo, x[1])
          BY <2>1, <2>9, <3>6 DEF UnwindInv, Printing, f
        <4>2. PICK j \in DOMAIN fifo : IsOwnerOf(fifo, Len(fifo) + 1, j) /\ fifo[j].thr = x[1]
          BY <4>1 DEF HasOwner
        <4>3. j \in DOMAIN ShownLog /\ ShownLog[j].thr = x[1]
              /\ Trace!IsOwnerOf(ShownLog, Len(ShownLog) + 1, j)
          BY <2>2, <4>2, ShownOwner DEF ShownLog
        <4>4. Trace!LogFrame(r.addr, x[1])
          BY <2>1, <2>2, <2>4, <3>6, <4>3 DEF Trace!LogFrame, Trace!Log, Shown, ShownLog
        <4> QED BY <3>2, <3>4, <4>4 DEF Trace!Next
      <3> QED BY <2>1, <2>9, <3>5, <3>6
    <2> QED BY <2>5, <2>7, <2>8, <2>9
  <1>4. CASE LibcAlloc(x)
    <2>1. PICK ptr \in Addrs \ live : Got(x, ptr) /\ live' = live \cup {ptr}
      BY <1>4 DEF LibcAlloc, NothingFails
    <2>2. f.fn \in Allocators /\ UNCHANGED fifo
      BY <1>4 DEF LibcAlloc, trackerVars, f
    <2>3. /\ g.fn = f.fn /\ g.res = ptr /\ g.pc = "guard" /\ g.out = f.out
      BY <2>1, NextLocals DEF f, g
    <2>4. ptr \notin Traced(fifo) /\ ptr # NULL
      BY <2>1, PreloadAssumption DEF BlocksInv
    <2>5. BlockOK(g) /\ g.fn # "free" /\ ModulesOut(g)
      BY <2>2, <2>3, <2>4 DEF BlockOK, ModulesOut, Allocators, BlocksInv, f
    <2>6. BlocksInv'
      BY <1>0, <2>1, <2>2, <2>5 DEF BlocksInv, BlockOK, ModulesOut, g
    <2>7. Trace!Allocate(ptr)
      BY <2>1, <2>2, QuietStep DEF Trace!Allocate, ShownLog
    <2> QED BY <2>6, <2>7, <2>1 DEF Trace!Next
  <1>5. CASE LibcFree(x)
    <2>1. /\ f.pc = "libc_free" /\ f.fn = "free" /\ live' = live \ {f.arg} /\ UNCHANGED fifo
          /\ g = IdleFrame
      BY <1>5, NextLocals DEF LibcFree, CallOK, At, trackerVars, f, g
    <2>2. f.arg \notin Traced(fifo) \/ f.arg = NULL
      BY <2>1 DEF BlocksInv, BlockOK, Retracted, f
    <2>3. BlocksInv'
      BY <1>0, <1>idle, <2>1, <2>2 DEF BlocksInv, BlockOK, ModulesOut, g
    <2>4. CASE f.arg = NULL
      BY <2>1, <2>3, <2>4, QuietStep
    <2>5. CASE f.arg # NULL
      <3>1. f.arg \in live /\ f.arg \in Addrs
        BY <2>1, <2>5 DEF HeldInv, Held, Loaders, TypeInv, TypeOK, f
      <3>2. Trace!Release(f.arg)
        BY <2>1, <2>2, <2>5, <3>1, ShownTraced, QuietStep DEF Trace!Release, ShownLog
      <3> QED BY <2>3, <3>1, <3>2 DEF Trace!Next
    <2> QED BY <2>4, <2>5
  <1>6. CASE \/ LibcRealloc(x) \/ ForkPrepare(x) \/ ForkParent(x)
    BY <1>6 DEF LibcRealloc, ForkPrepare, ForkParent, At, CallOK, ForkPcs, f
  <1>7. CASE LoaderReturn(x)
    BY <1>7, <1>idle, <1>keep, NextLocals DEF LoaderReturn, trackerVars, g
  <1>8. CASE LibcDlopen(x) \/ LibcDlclose(x) \/ LoadFailed(x)
    <2>1. /\ f.fn \in Loaders /\ UNCHANGED <<fifo, live>> /\ g.fn = f.fn /\ g.out = f.out
      BY <1>8, NextLocals DEF LibcDlopen, LibcDlclose, LoadFailed, LoaderUnchanged, preloadVars,
             heapVars, SameCall, Loaders, f, g
    <2> QED BY <1>keep, <2>1 DEF BlockOK, ModulesOut, BlocksInv, Loaders, Allocators, f
  <1>9. CASE Guard(x)
    <2>0. f.pc = "guard" /\ UNCHANGED <<fifo, live>>
      BY <1>9 DEF Guard, At, trackerVars, f
    <2>1. CASE MustLog(x)
      <3>1. \/ Goto(x, "update_trylock") /\ f.fn # "free"
            \/ Goto(x, "unwind_lock") /\ f.arg # NULL
            \/ Goto(x, "unguard") /\ f.arg = NULL /\ f.fn = "free"
        BY <1>9, <2>1 DEF Guard, f
      <3>2. /\ g.fn = f.fn /\ g.arg = f.arg /\ g.res = f.res /\ g.out = f.out
            /\ \/ g.pc = "update_trylock" /\ f.fn # "free"
               \/ g.pc = "unwind_lock" /\ f.arg # NULL
               \/ g.pc = "unguard" /\ f.arg = NULL /\ f.fn = "free"
        BY <3>1, NextLocals DEF SameCall, f, g
      <3>3. BlockOK(g)
        BY <2>0, <3>2 DEF BlocksInv, BlockOK, Retracted, Announced, Printing, Allocators, f
      <3> QED BY <1>keep, <2>0, <3>2, <3>3 DEF BlocksInv, ModulesOut, f
    <2>2. CASE ~MustLog(x)
      <3>1. x[2] # 1 /\ Leave(x)
        BY <1>9, <2>0, <2>2, ProgramMustLog DEF Guard, At, f
      <3>2. g = IdleFrame
        BY <3>1, NextLocals DEF BlocksInv, Leave, f, g
      <3> QED BY <1>idle, <1>keep, <2>0, <3>2
    <2> QED BY <2>1, <2>2
  <1>10. CASE Unguard(x)
    <2>0. f.pc = "unguard" /\ UNCHANGED <<fifo, live>> /\ Leave(x)
      BY <1>10 DEF Unguard, At, trackerVars, f
    <2>1. CASE f.fn = "free"
      <3>1. /\ g.pc = "libc_free" /\ g.fn = "free" /\ g.arg = f.arg /\ g.out = f.out
        BY <2>0, <2>1, NextLocals DEF Leave, SameCall, f, g
      <3>2. BlockOK(g)
        BY <2>0, <2>1, <3>1 DEF BlocksInv, BlockOK, Retracted, Announced, GuardedPcs, Allocators, f
      <3> QED BY <1>keep, <2>0, <2>1, <3>1, <3>2 DEF BlocksInv, ModulesOut, f
    <2>2. CASE f.fn # "free"
      BY <1>idle, <1>keep, <2>0, <2>2, NextLocals DEF Leave, f, g
    <2> QED BY <2>1, <2>2
  <1> QED BY <1>1, <1>2, <1>3, <1>4, <1>5, <1>6, <1>7, <1>8, <1>9, <1>10 DEF Step, TrackerStep

\* What is known of every state of such a program.
LibraryInv == /\ TypeInv /\ Nested /\ UnwindInv /\ CallsOK /\ HeldInv
              /\ GuardInv /\ TracedInv /\ BlocksInv

LEMMA TraceStep ==
  ASSUME NothingFails
  PROVE  LibraryInv /\ [Next]_vars => BlocksInv' /\ [Trace!Next]_<<live, ShownLog>>
  <1> SUFFICES ASSUME LibraryInv, [Next]_vars
               PROVE  BlocksInv' /\ [Trace!Next]_<<live, ShownLog>>
    OBVIOUS
  <1>1. CASE UNCHANGED vars
    BY <1>1, QuietStep DEF LibraryInv, vars, trackerVars, preloadVars, heapVars, BlocksInv, BlockOK,
                           Retracted, Announced, Printing, ModulesOut
  <1>2. ASSUME NEW x \in Activations, Call(x) \/ Step(x)
        PROVE  BlocksInv' /\ [Trace!Next]_<<live, ShownLog>>
    BY <1>2, BlocksStep DEF LibraryInv
  <1> QED BY <1>1, <1>2 DEF Next, Rest

LEMMA LibraryInvariant ==
  ASSUME NothingFails
  PROVE  Spec => []LibraryInv
  <1>0. "fork" \notin ProgramFns
    BY DEF NothingFails
  <1>1. Init => BlocksInv
    BY DEF Init, StackInit, IdleFrame, TrackerInit, BlocksInv, BlockOK, ModulesOut, Traced,
           Allocators
  <1>2. LibraryInv /\ [Next]_vars => BlocksInv'
    BY TraceStep
  <1>3. LibraryInv <=> /\ TypeInv /\ Nested /\ UnwindInv /\ CallsOK /\ HeldInv
                       /\ GuardInv /\ TracedInv /\ BlocksInv
    BY DEF LibraryInv
  <1> QED BY <1>0, <1>1, <1>2, <1>3, TracedInvariant, PTL DEF Spec

(***************************************************************************)
(* The library implements HeapTrace: of a program of any number of threads *)
(* that calls malloc(), calloc(), free(), dlopen() and dlclose(), none of  *)
(* which fails, each 'a' is written once, after the block is allocated and *)
(* before the program has it; each 'f' once, for a block whose 'a' is in   *)
(* the log, before the block is released; and each 'b' follows the 'a' or  *)
(* 'f' of its thread (preload.c:134-234, backtrace.c:34-59).               *)
(***************************************************************************)
THEOREM TraceImplemented ==
  ASSUME NothingFails
  PROVE  Spec => ImplementsTrace
  <1>1. Init => Trace!Init
    BY DEF Init, TrackerInit, ShownLog, Trace!Init
  <1>2. Spec => Trace!Init /\ [][Trace!Next]_<<live, ShownLog>>
    BY <1>1, TraceStep, LibraryInvariant, PTL DEF Spec
  <1>3. [Trace!Next]_<<live, ShownLog>> => [is_initialized => Trace!Next]_<<live, ShownLog>>
    OBVIOUS
  <1> QED BY <1>2, <1>3, PTL DEF ImplementsTrace

(***************************************************************************)
(* A mutex that is taken has its owner at the steps that release it, and   *)
(* records are left to print only where they are printed.                  *)
(***************************************************************************)
LockInv ==
    /\ tracker_fd_mutex # NULL => \E x \in Activations :
           x[1] = tracker_fd_mutex /\ At(x, "fprintf_write")
    /\ unwind_mutex # NULL => \E x \in Activations :
           x[1] = unwind_mutex /\ InUnwind(frame[x])
    /\ \A x \in Activations : frame[x].out # <<>> => Printing(frame[x])

\* The steps elsewhere are of activations that print nothing and hold neither mutex.
LEMMA ElsewhereFrom ==
  ASSUME TypeInv, NEW x \in Activations, Elsewhere(x)
  PROVE  /\ frame[x].pc \notin LoggingPcs
         /\ frame'[x].out \in {frame[x].out, <<>>}
  <1> USE DEF LoggingPcs, At
  <1>1. CASE Call(x)
    <2>1. PICK fn, arg, zero : Begin(x, fn, arg, zero)
      BY <1>1 DEF Call, Allocate, Reallocate, Free, Load, Fork
    <2> QED BY <1>1, <2>1, BegunLocals DEF Call
  <1>2. CASE \/ SetDirtyTrylock(x) /\ UNCHANGED <<unwind_mutex, preloadVars>>
             \/ SetDirtyStore(x)   /\ UNCHANGED <<unwind_mutex, preloadVars>>
             \/ UpdateTrylock(x)   /\ UNCHANGED <<unwind_mutex, preloadVars>>
             \/ UpdateCheck(x)     /\ UNCHANGED <<unwind_mutex, preloadVars>>
             \/ UpdateUnlock(x)    /\ UNCHANGED <<unwind_mutex, preloadVars>>
    BY <1>2, NextLocals DEF SetDirtyTrylock, SetDirtyStore, UpdateTrylock, UpdateCheck,
                            UpdateUnlock
  <1>3. CASE LibcAlloc(x) \/ LibcRealloc(x)
    <2>1. PICK ptr : Got(x, ptr) /\ At(x, "libc")
      BY <1>3 DEF LibcAlloc, LibcRealloc
    <2> QED BY <2>1, NextLocals
  <1>4. CASE LibcFree(x) \/ LoaderReturn(x) \/ ForkParent(x)
    BY <1>4, NextLocals DEF LibcFree, LoaderReturn, ForkParent, IdleFrame
  <1>5. CASE LibcDlopen(x) \/ LibcDlclose(x) \/ LoadFailed(x) \/ ForkPrepare(x)
    BY <1>5, NextLocals DEF LibcDlopen, LibcDlclose, LoadFailed, ForkPrepare
  <1>6. CASE Guard(x) \/ Unguard(x)
    BY <1>6, NextLocals DEF Guard, Unguard, Leave, IdleFrame
  <1> QED BY <1>1, <1>2, <1>3, <1>4, <1>5, <1>6 DEF Elsewhere

LEMMA LockStep ==
  ASSUME TypeInv, UnwindInv, LockInv, NEW x \in Activations, Call(x) \/ Step(x)
  PROVE  LockInv'
  <1> frame \in [Activations -> Frames] /\ frame[x] \in Frames
    BY DEF TypeInv, TypeOK
  <1>0. \A y \in Activations \ {x} : frame'[y] = frame[y]
    BY OneFrame
  <1>1. CASE Elsewhere(x)
    <2>1. /\ UNCHANGED <<tracker_fd_mutex, unwind_mutex>>
          /\ frame'[x].pc \notin LoggingPcs
      BY <1>1, ElsewhereQuiet
    <2>2. frame[x].pc \notin LoggingPcs /\ frame'[x].out \in {frame[x].out, <<>>}
      BY <1>1, ElsewhereFrom
    <2>3. ~Printing(frame[x]) /\ ~InUnwind(frame[x]) /\ ~At(x, "fprintf_write")
      BY <2>2 DEF LoggingPcs, InUnwind, Printing, At
    <2>4. frame'[x].out = <<>>
      BY <2>2, <2>3 DEF LockInv
    <2> QED BY <1>0, <2>1, <2>3, <2>4 DEF LockInv, At
  <1>2. CASE FprintfLock(x) /\ UNCHANGED <<unwind_mutex, preloadVars>>
    <2>1. /\ frame[x].pc = "fprintf_lock" /\ frame'[x].pc = "fprintf_write"
          /\ frame'[x].ret = frame[x].ret /\ frame'[x].out = frame[x].out
      BY <1>2, NextLocals DEF FprintfLock, At
    <2>2. (InUnwind(frame[x]) => InUnwind(frame'[x])) /\ Printing(frame'[x])
      BY <2>1 DEF InUnwind, Printing
    <2>3. tracker_fd_mutex' = x[1] /\ unwind_mutex' = unwind_mutex
      BY <1>2 DEF FprintfLock
    <2> QED BY <1>0, <2>1, <2>2, <2>3 DEF LockInv, At
  <1>3. CASE FprintfWrite(x) /\ UNCHANGED <<unwind_mutex, preloadVars>>
    <2>1. /\ frame'[x].ret = frame[x].ret /\ frame'[x].out = Tail(frame[x].out)
          /\ frame'[x].pc = IF Tail(frame[x].out) = <<>> THEN frame[x].ret ELSE "fprintf_lock"
          /\ frame[x].pc = "fprintf_write"
      BY <1>3, NextLocals DEF FprintfWrite, At
    <2>2. tracker_fd_mutex' = NULL /\ unwind_mutex' = unwind_mutex
      BY <1>3 DEF FprintfWrite
    <2>3. InUnwind(frame[x]) => InUnwind(frame'[x])
      BY <2>1 DEF InUnwind, Printing
    <2>4. frame'[x].out # <<>> => Printing(frame'[x])
      BY <2>1 DEF Printing
    <2> QED BY <1>0, <2>2, <2>3, <2>4 DEF LockInv
  <1>4. CASE UpdateIterate(x) /\ UNCHANGED <<unwind_mutex, preloadVars>>
    <2>1. PICK records : Fprintf(x, records, "update_unlock") /\ At(x, "update_iterate")
      BY <1>4 DEF UpdateIterate
    <2>2. UNCHANGED <<tracker_fd_mutex, unwind_mutex>>
      BY <1>4 DEF UpdateIterate, trackerVars
    <2>3. frame'[x].out # <<>> => Printing(frame'[x])
      BY <2>1, NextPc DEF Printing
    <2> QED BY <1>0, <2>1, <2>2, <2>3 DEF LockInv, InUnwind, Printing, At
  <1>5. CASE UnwindLock(x)
    <2>1. /\ frame[x].pc = "unwind_lock" /\ frame'[x].pc = "unwind_size"
          /\ frame'[x].out = frame[x].out
      BY <1>5, NextLocals DEF UnwindLock, At
    <2>2. tracker_fd_mutex' = tracker_fd_mutex /\ unwind_mutex' = x[1]
      BY <1>5 DEF UnwindLock, trackerVars
    <2> QED BY <1>0, <2>1, <2>2 DEF LockInv, InUnwind, Printing, At
  <1>6. CASE UnwindSize(x) \/ UnwindTrace(x)
    <2>1. PICK records, next : /\ Fprintf(x, records, next)
                               /\ next \in {"unwind_trace", "unwind_unlock"}
      BY <1>6 DEF UnwindSize, UnwindTrace
    <2>2. /\ UNCHANGED <<tracker_fd_mutex, unwind_mutex>>
          /\ frame[x].pc \in {"unwind_size", "unwind_trace"}
      BY <1>6 DEF UnwindSize, UnwindTrace, trackerVars, At
    <2>3. /\ frame'[x].out # <<>> => Printing(frame'[x])
          /\ InUnwind(frame'[x])
      BY <2>1, NextPc DEF Printing, InUnwind
    <2> QED BY <1>0, <2>2, <2>3 DEF LockInv, At
  <1>7. CASE UnwindUnlock(x)
    <2>1. /\ frame[x].pc = "unwind_unlock" /\ frame'[x].pc = "unguard"
          /\ frame'[x].out = frame[x].out
      BY <1>7, NextLocals DEF UnwindUnlock, At
    <2>2. tracker_fd_mutex' = tracker_fd_mutex /\ unwind_mutex' = NULL
      BY <1>7 DEF UnwindUnlock, trackerVars
    <2> QED BY <1>0, <2>1, <2>2 DEF LockInv, Printing, At
  <1> QED BY <1>1, <1>2, <1>3, <1>4, <1>5, <1>6, <1>7, StepCases DEF BacktraceStep

(***************************************************************************)
(* unw_backtrace() calls no interposed function, or only the one that the  *)
(* program calls: the guards, one per function, then stop every call that  *)
(* it makes before it is logged.                                           *)
(***************************************************************************)
OneFunction == \A fn \in ProgramFns \cap (Reallocators \cup {"free"}), ext \in ExternalFns : fn = ext

Callable(x) == IF x[2] = 1 THEN ProgramFns ELSE ExternalFns

StackInv ==
    /\ NestedCallUnlogged
    /\ \A x \in Activations :
           /\ frame[x].fn \in Callable(x) \cup {"none"}
           /\ frame[x].pc \in GuardedPcs => frame[x].fn \in guard[x[1]]

\* A call inside the unwinder is above the one call that the program made.
LEMMA OuterCall ==
  ASSUME Nested, StackInv, NEW x \in Activations, x[2] > 1, ~At(x, "idle")
  PROVE  /\ <<x[1], 1>> \in Activations
         /\ At(<<x[1], 1>>, "unwind_trace")
  <1>1. x[1] \in Threads /\ x[2] \in 1..MaxDepth /\ 1 \in 1..MaxDepth
    BY CallStackAssumption DEF Activations
  <1>2. <<x[1], 1>> \in Activations
    BY <1>1 DEF Activations
  <1> QED BY <1>2 DEF Nested

LEMMA NestedGuarded ==
  ASSUME OneFunction, TypeInv, Nested, CallsOK, StackInv,
         NEW x \in Activations, x[2] > 1, At(x, "guard")
  PROVE  ~MustLog(x) /\ frame[x].fn # "free"
  <1> DEFINE o == <<x[1], 1>>
  <1>1. o \in Activations /\ At(o, "unwind_trace")
    BY OuterCall DEF At
  <1>2. CallOK(frame[x]) /\ CallOK(frame[o])
    BY <1>1 DEF CallsOK
  <1>3. /\ frame[x].fn \in Reallocators \cup {"free"}
        /\ frame[o].fn \in Reallocators \cup {"free"}
    BY <1>1, <1>2 DEF CallOK, At, LogPcs, GuardedPcs
  <1>4. frame[x].fn \in Callable(x) /\ frame[o].fn \in Callable(o)
    BY <1>1, <1>3 DEF StackInv, Reallocators, Allocators
  <1>5. frame[x].fn \in ExternalFns /\ frame[o].fn \in ProgramFns
    BY <1>4 DEF Callable
  <1>6. frame[x].fn = frame[o].fn
    BY <1>3, <1>5 DEF OneFunction
  <1>7. frame[o].fn \in guard[x[1]]
    BY <1>1 DEF StackInv, At, GuardedPcs
  <1>8. frame[x].fn \in Allocators
    BY <1>5, PreloadAssumption
  <1> QED BY <1>6, <1>7, <1>8 DEF MustLog, Allocators

LEMMA StackStep ==
  ASSUME OneFunction, TypeInv, Nested, UnwindInv, CallsOK, StackInv,
         NEW x \in Activations, Call(x) \/ Step(x)
  PROVE  StackInv'
  <1> DEFINE f == frame[x]
             g == frame'[x]
  <1> f \in Frames /\ CallOK(f) /\ guard \in [Threads -> SUBSET Fns] /\ x[1] \in Threads
    BY DEF TypeInv, TypeOK, CallsOK, Activations
  <1>0. \A y \in Activations \ {x} : frame'[y] = frame[y]
    BY OneFrame
  <1>n. x[2] > 1 => f.pc \in {"idle", "libc", "guard"}
    BY DEF StackInv, NestedCallUnlogged
  <1>c. f.fn \in Callable(x) \cup {"none"}
    BY DEF StackInv
  <1>e. ExternalFns \subseteq Allocators
    BY PreloadAssumption
  <1>keep. ASSUME guard' = guard, g.fn \in Callable(x) \cup {"none"},
                  x[2] > 1 => g.pc \in {"idle", "libc", "guard"},
                  g.pc \in GuardedPcs => f.pc \in GuardedPcs /\ g.fn = f.fn
           PROVE  StackInv'
    BY <1>0, <1>keep DEF StackInv, NestedCallUnlogged
  <1> HIDE DEF f, g
  <1>1. CASE Call(x)
    <2>1. PICK fn, arg, zero : Begin(x, fn, arg, zero) /\ fn \in Callable(x)
      BY <1>1 DEF Call, Allocate, Reallocate, Free, Load, Fork, Callable
    <2>2. g.fn = fn /\ g.pc \in {"guard", "fork_prepare", "libc"}
      BY <2>1, BegunLocals DEF g
    <2>3. x[2] > 1 => g.pc \in {"idle", "libc", "guard"}
      BY <2>1, BegunLocals, <1>e DEF g, Callable, Allocators
    <2> QED BY <1>1, <1>keep, <2>1, <2>2, <2>3 DEF Call, GuardedPcs
  <1>2. CASE \/ TrackerStep(x) /\ UNCHANGED <<unwind_mutex, preloadVars>>
             \/ BacktraceStep(x) /\ UNCHANGED preloadVars
    <2>1. /\ SameCall(x) /\ UNCHANGED preloadVars
          /\ \/ f.pc \in GuardedPcs /\ g.pc \in GuardedPcs
             \/ f.pc \in LoaderPcs  /\ g.pc \in LoaderPcs
      BY <1>2, TracingStep DEF f, g
    <2>2. ~(x[2] > 1)
      BY <1>n, <2>1 DEF GuardedPcs, LoaderPcs
    <2> QED BY <1>keep, <1>c, <2>1, <2>2 DEF SameCall, preloadVars, LoaderPcs, GuardedPcs, f, g
  <1>3. CASE LibcAlloc(x) \/ LibcRealloc(x)
    <2>1. PICK ptr : Got(x, ptr)
      BY <1>3 DEF LibcAlloc, LibcRealloc
    <2>2. g.fn = f.fn /\ g.pc = "guard" /\ guard' = guard
      BY <1>3, <2>1, NextLocals DEF f, g, LibcAlloc, LibcRealloc
    <2> QED BY <1>keep, <1>c, <2>2 DEF GuardedPcs
  <1>4. CASE LibcFree(x) \/ LoaderReturn(x) \/ ForkParent(x)
    <2>1. g = IdleFrame /\ guard' = guard
      BY <1>4, NextLocals DEF LibcFree, LoaderReturn, ForkParent, g
    <2> QED BY <1>keep, <2>1 DEF IdleFrame, GuardedPcs
  <1>5. CASE LibcDlopen(x) \/ LibcDlclose(x) \/ LoadFailed(x) \/ ForkPrepare(x)
    <2>1. /\ g.fn = f.fn /\ guard' = guard
          /\ g.pc \in {"set_dirty", "return", "fork_parent"}
          /\ f.fn \in Loaders \/ f.pc = "fork_prepare"
      BY <1>5, NextLocals DEF LibcDlopen, LibcDlclose, LoadFailed, ForkPrepare, LoaderUnchanged,
                              preloadVars, SameCall, At, Loaders, f, g
    <2>2. ~(x[2] > 1)
      BY <1>c, <1>n, <1>e, <2>1 DEF Callable, Allocators, Loaders
    <2> QED BY <1>keep, <1>c, <2>1, <2>2 DEF GuardedPcs
  <1>6. CASE Guard(x) /\ MustLog(x)
    <2>1. ~(x[2] > 1)
      BY <1>6, NestedGuarded DEF Guard
    <2>2. /\ guard' = [guard EXCEPT ![x[1]] = @ \cup {f.fn}]
          /\ \E label \in GuardedPcs : Goto(x, label)
      BY <1>6 DEF Guard, GuardedPcs, f
    <2>3. g.fn = f.fn
      BY <2>2, NextLocals DEF SameCall, f, g
    <2> QED BY <1>0, <1>c, <2>1, <2>2, <2>3 DEF StackInv, NestedCallUnlogged, f, g
  <1>7. CASE Guard(x) /\ ~MustLog(x)
    <2>1. Leave(x) /\ guard' = guard /\ At(x, "guard")
      BY <1>7 DEF Guard
    <2>2. \/ g = IdleFrame
          \/ f.fn = "free" /\ g.fn = f.fn /\ g.pc = "libc_free"
      BY <2>1, NextLocals DEF Leave, SameCall, f, g
    <2>3. x[2] > 1 => f.fn # "free"
      BY <2>1, NestedGuarded DEF f
    <2> QED BY <1>keep, <1>c, <2>1, <2>2, <2>3 DEF IdleFrame, GuardedPcs
  <1>8. CASE Unguard(x)
    <2>1. /\ guard' = [guard EXCEPT ![x[1]] = @ \ {f.fn}] /\ Leave(x) /\ At(x, "unguard")
      BY <1>8 DEF Unguard, f
    <2>2. ~(x[2] > 1)
      BY <1>n, <2>1 DEF At, f
    <2>3. \A y \in Activations \ {x} : y[1] = x[1] => frame[y].pc \notin GuardedPcs
      <3> SUFFICES ASSUME NEW y \in Activations \ {x}, y[1] = x[1] PROVE frame[y].pc \notin GuardedPcs
        OBVIOUS
      <3>1. x[2] = 1 /\ x = <<x[1], x[2]>> /\ y = <<y[1], y[2]>> /\ y[2] \in Nat /\ y[2] >= 1
        BY <2>2, CallStackAssumption DEF Activations
      <3>2. y[2] > 1
        BY <3>1
      <3> QED BY <3>2 DEF StackInv, NestedCallUnlogged, GuardedPcs
    <2>4. g.fn \in {f.fn, "none"} /\ g.pc \notin GuardedPcs
      BY <2>1, NextLocals DEF Leave, SameCall, IdleFrame, GuardedPcs, f, g
    <2>5. ASSUME NEW y \in Activations
          PROVE  /\ y[2] > 1 => frame'[y].pc \in {"idle", "libc", "guard"}
                 /\ frame'[y].fn \in Callable(y) \cup {"none"}
                 /\ frame'[y].pc \in GuardedPcs => frame'[y].fn \in guard'[y[1]]
      <3>1. CASE y = x
        BY <3>1, <1>c, <2>2, <2>4 DEF g
      <3>2. CASE y # x
        <4>1. frame'[y] = frame[y]
          BY <1>0, <3>2
        <4>2. frame[y].pc \in GuardedPcs => y[1] # x[1]
          BY <2>3, <3>2
        <4>3. y[1] # x[1] => guard'[y[1]] = guard[y[1]]
          BY <2>1 DEF Activations
        <4> QED BY <4>1, <4>2, <4>3 DEF StackInv, NestedCallUnlogged
      <3> QED BY <3>1, <3>2
    <2> QED BY <2>5 DEF StackInv, NestedCallUnlogged
  <1> QED BY <1>1, <1>2, <1>3, <1>4, <1>5, <1>6, <1>7, <1>8 DEF Step, Guard

\* An activation that logs is the program's own call, and nothing runs above it but
\* what the unwinder calls.
LEMMA LoggingOnTop ==
  ASSUME Nested, StackInv, NEW x \in Activations, frame[x].pc \in GuardedPcs,
         ~At(x, "unwind_trace")
  PROVE  OnTop(x) /\ ~At(x, "idle")
  BY DEF Nested, OnTop, At, GuardedPcs

\* The holder of tracker_fd_mutex waits for nobody.
LEMMA WriterGoesOn ==
  ASSUME Nested, StackInv, LockInv, tracker_fd_mutex # NULL
  PROVE  GoesOn(tracker_fd_mutex)
  <1>1. PICK x \in Activations : x[1] = tracker_fd_mutex /\ At(x, "fprintf_write")
    BY DEF LockInv
  <1>2. OnTop(x) /\ ~At(x, "idle")
    BY <1>1, LoggingOnTop DEF At, GuardedPcs
  <1>3. WaitsFor(x) = {}
    BY <1>1 DEF WaitsFor, At
  <1> QED BY <1>1, <1>2, <1>3 DEF GoesOn

\* Who prints waits for that holder at most.
LEMMA PrinterGoesOn ==
  ASSUME Nested, StackInv, LockInv, NEW x \in Activations, Printing(frame[x])
  PROVE  \/ GoesOn(x[1])
         \/ OnTop(x) /\ \E u \in WaitsFor(x) : GoesOn(u)
  <1>1. OnTop(x) /\ ~At(x, "idle")
    BY LoggingOnTop DEF Printing, At, GuardedPcs
  <1>2. CASE WaitsFor(x) = {}
    BY <1>1, <1>2 DEF GoesOn
  <1>3. CASE WaitsFor(x) # {}
    <2>1. At(x, "fprintf_lock") /\ tracker_fd_mutex # NULL /\ tracker_fd_mutex \in WaitsFor(x)
      BY <1>3 DEF Printing, WaitsFor, At
    <2> QED BY <1>1, <2>1, WriterGoesOn
  <1> QED BY <1>2, <1>3

\* The holder of unwind_mutex prints, or is in the unwinder, or about to leave.
LEMMA UnwinderGoesOn ==
  ASSUME TypeInv, Nested, CallsOK, StackInv, LockInv, NEW x \in Activations, InUnwind(frame[x])
  PROVE  \/ GoesOn(x[1])
         \/ OnTop(x) /\ \E u \in WaitsFor(x) : GoesOn(u)
  <1>1. CASE Printing(frame[x])
    BY <1>1, PrinterGoesOn
  <1>2. CASE frame[x].pc \in {"unwind_size", "unwind_trace", "unwind_unlock"}
    <2>1. CASE OnTop(x)
      <3>1. ~At(x, "idle") /\ WaitsFor(x) = {}
        BY <1>2 DEF WaitsFor, At
      <3> QED BY <2>1, <3>1 DEF GoesOn
    <2>2. CASE ~OnTop(x)
      <3>1. PICK y \in Activations : y[1] = x[1] /\ y[2] > x[2] /\ ~At(y, "idle")
        BY <2>2 DEF OnTop
      <3>2. y[2] > 1
        BY <3>1, CallStackAssumption DEF Activations
      <3>3. frame[y].pc \in {"libc", "guard"}
        BY <3>1, <3>2 DEF StackInv, NestedCallUnlogged, At
      <3>4. OnTop(y)
        BY <3>3 DEF Nested, OnTop, At
      <3>5. frame[y].fn \notin Loaders
        <4>1. frame[y].fn \in ExternalFns \cup {"none"}
          BY <3>2 DEF StackInv, Callable
        <4> QED BY <4>1, PreloadAssumption DEF Allocators, Loaders
      <3>6. WaitsFor(y) = {}
        BY <3>3, <3>5 DEF WaitsFor, At
      <3> QED BY <3>1, <3>4, <3>6 DEF GoesOn
    <2> QED BY <2>1, <2>2
  <1> QED BY <1>1, <1>2 DEF InUnwind

LEMMA NobodyStuck ==
  TypeInv /\ Nested /\ CallsOK /\ StackInv /\ LockInv => NoDeadlock
  <1> SUFFICES ASSUME TypeInv, Nested, CallsOK, StackInv, LockInv,
                      NEW x \in Activations, NEW t \in WaitsFor(x)
               PROVE  \/ GoesOn(t)
                      \/ \E y \in Activations :
                             y[1] = t /\ OnTop(y) /\ \E u \in WaitsFor(y) : GoesOn(u)
    BY DEF NoDeadlock
  <1>1. CASE At(x, "fprintf_lock")
    <2>1. t = tracker_fd_mutex /\ t # NULL
      BY <1>1 DEF WaitsFor, At
    <2> QED BY <2>1, WriterGoesOn
  <1>2. CASE At(x, "unwind_lock")
    <2>1. t = unwind_mutex /\ t # NULL
      BY <1>2 DEF WaitsFor, At
    <2>2. PICK y \in Activations : y[1] = t /\ InUnwind(frame[y])
      BY <2>1 DEF LockInv
    <2> QED BY <2>2, UnwinderGoesOn
  <1>3. CASE At(x, "libc")
    <2>1. PICK y \in Activations : y[1] = t /\ Iterating(y)
      BY <1>3 DEF WaitsFor, At
    <2>2. Printing(frame[y])
      BY <2>1 DEF Iterating, LockInv
    <2> QED BY <2>1, <2>2, PrinterGoesOn
  <1> QED BY <1>1, <1>2, <1>3 DEF WaitsFor

LEMMA WaitingInvariant ==
  ASSUME OneFunction
  PROVE  Spec => [](TypeInv /\ Nested /\ CallsOK /\ StackInv /\ LockInv)
  <1>1. Init => StackInv /\ LockInv
    BY DEF Init, StackInit, TrackerInit, IdleFrame, StackInv, LockInv, NestedCallUnlogged,
           GuardedPcs, At
  <1>2. TypeInv /\ Nested /\ UnwindInv /\ CallsOK /\ StackInv /\ LockInv /\ [Next]_vars
           => StackInv' /\ LockInv'
    <2> SUFFICES ASSUME TypeInv, Nested, UnwindInv, CallsOK, StackInv, LockInv, [Next]_vars
                 PROVE  StackInv' /\ LockInv'
      OBVIOUS
    <2>1. CASE UNCHANGED vars
      BY <2>1 DEF vars, trackerVars, preloadVars, StackInv, LockInv, NestedCallUnlogged, At
    <2>2. ASSUME NEW x \in Activations, Call(x) \/ Step(x) PROVE StackInv' /\ LockInv'
      BY <2>2, StackStep, LockStep
    <2> QED BY <2>1, <2>2 DEF Next, Rest
  <1> QED BY <1>1, <1>2, CallsInvariant, PTL DEF Spec

(***************************************************************************)
(* libjmprof.so never stops the program it profiles: however many threads  *)
(* allocate, open and close modules at once, whoever waits for one of the  *)
(* three locks, and is in whatever call, waits for a thread that goes on,  *)
(* at most one further away (tracker.c:104-122, :138-149,                  *)
(* backtrace.c:39-58 and preload.c:134-150).                               *)
(***************************************************************************)
THEOREM DeadlockFree ==
  ASSUME OneFunction
  PROVE  Spec => []NoDeadlock
  BY WaitingInvariant, NobodyStuck, PTL

(***************************************************************************)
(* No call of the unwinder is logged, so that no thread waits for the      *)
(* unwind mutex that it holds itself (preload.c:139-145, backtrace.c:39).  *)
(***************************************************************************)
THEOREM NestedCallsUnlogged ==
  ASSUME OneFunction
  PROVE  Spec => []NestedCallUnlogged
  <1>1. StackInv => NestedCallUnlogged
    BY DEF StackInv
  <1> QED BY <1>1, WaitingInvariant, PTL
=============================================================================
