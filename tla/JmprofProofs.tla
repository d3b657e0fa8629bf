---------------------------- MODULE JmprofProofs ------------------------------
(***************************************************************************)
(* The report of jmprof-ip is that of the blocks the profiled program had  *)
(* when its exit handler ended the logging: the library of Preload, also   *)
(* while exit() runs in one thread and the others go on, and the reader of *)
(* Interpret together implement Profiler, and what PreloadProofs shows of  *)
(* the log and ProfilerProofs of the report then meet in the log.          *)
(***************************************************************************)
EXTENDS Jmprof, PreloadProofs, SequenceTheorems, FiniteSetTheorems

LogRecords == [op : {"x", "a", "f", "b", "m", "r"}, addr : Pointers, thr : Threads \cup {NULL}]

\* The records of the library's own log.
FifoRecords == [op : {"a", "b", "f", "m"}, addr : Pointers, thr : Threads, ts : Nat]

(***************************************************************************)
(* What holds of the threads at any time, before and during exit(), of a   *)
(* program whose calls do not fail.                                        *)
(***************************************************************************)
KindOK(x) == /\ frame[x].fn \notin {"fork", "realloc"}
             /\ frame[x].fn = "free" => x[2] = 1
             /\ ModulesOut(frame[x])
             /\ OutIsBlock(frame[x])

ThreadsInv == /\ TypeInv /\ Nested /\ UnwindInv /\ CallsOK /\ HeldInv
              /\ \A x \in Activations : KindOK(x)

LEMMA KindStep ==
  ASSUME NothingFails, ThreadsInv, NEW x \in Activations, Call(x) \/ Step(x)
  PROVE  KindOK(x)'
  <1> DEFINE f == frame[x]
             g == frame'[x]
  <1> /\ TypeInv /\ UnwindInv /\ KindOK(x) /\ f \in Frames /\ CallOK(f) /\ FrameOK(f)
    BY DEF ThreadsInv, TypeInv, TypeOK, FramesOK, CallsOK
  <1>0. /\ f.fn \notin {"fork", "realloc"} /\ (f.fn = "free" => x[2] = 1)
        /\ ModulesOut(f) /\ OutIsBlock(f)
    BY DEF KindOK
  <1> HIDE DEF f, g
  <1> SUFFICES /\ g.fn \notin {"fork", "realloc"} /\ (g.fn = "free" => x[2] = 1)
               /\ ModulesOut(g) /\ OutIsBlock(g)
    BY DEF KindOK, ModulesOut, OutIsBlock, g
  <1>idle. IdleFrame.fn = "none" /\ ModulesOut(IdleFrame) /\ OutIsBlock(IdleFrame)
    BY DEF IdleFrame, ModulesOut, OutIsBlock, Printing
  <1>keep. ASSUME g.fn = f.fn, g.out = f.out, ~Printing(g)
           PROVE  /\ g.fn \notin {"fork", "realloc"} /\ (g.fn = "free" => x[2] = 1)
                  /\ ModulesOut(g) /\ OutIsBlock(g)
    BY <1>0, <1>keep DEF ModulesOut, OutIsBlock
  <1>1. CASE Call(x)
    <2>0. "realloc" \notin ProgramFns /\ "fork" \notin ProgramFns
      BY DEF NothingFails
    <2>1. PICK fn, arg, zero : /\ Begin(x, fn, arg, zero) /\ fn \notin {"realloc", "fork"}
                               /\ fn = "free" => x[2] = 1
      <3>1. CASE Allocate(x)
        BY <3>1 DEF Allocate, Allocators
      <3>2. CASE Free(x)
        BY <3>2 DEF Free
      <3>3. CASE Load(x)
        <4>1. PICK m \in Modules, fn \in Loaders : Begin(x, fn, m, FALSE)
          BY <3>3 DEF Load, Loaders
        <4> QED BY <4>1 DEF Loaders
      <3> QED BY <1>1, <2>0, <3>1, <3>2, <3>3 DEF Call, Reallocate, Fork
    <2>2. g.fn = fn /\ g.out = <<>> /\ g.pc \in {"guard", "libc", "fork_prepare"}
      BY <2>1, BegunLocals DEF g
    <2>3. ModulesOut(g) /\ OutIsBlock(g)
      BY <2>2 DEF ModulesOut, OutIsBlock, Printing
    <2> QED BY <2>1, <2>2, <2>3
  <1>2. CASE \/ TrackerStep(x) /\ ~FprintfWrite(x) /\ UNCHANGED <<unwind_mutex, preloadVars>>
             \/ BacktraceStep(x) /\ UNCHANGED preloadVars
    <2>1. OutIsBlock(g) /\ g.fn = f.fn
      BY <1>0, <1>2, AnnouncedStep, TracingStep DEF SameCall, f, g
    <2>2. ModulesOut(g)
      <3>1. CASE UpdateIterate(x)
        <4> DEFINE records == [i \in 1..Len(loaded) |-> Record("m", loaded[i])]
        <4>1. \A i \in DOMAIN records : records[i].addr \in Modules
          BY DEF Record, TypeInv, TypeOK
        <4>2. Fprintf(x, records, "update_unlock")
          BY <3>1 DEF UpdateIterate
        <4> HIDE DEF records
        <4> QED BY <4>1, <4>2, NextPc DEF ModulesOut, g
      <3>2. CASE UnwindSize(x)
        <4> DEFINE records == <<Record(Opcode(f), Block(f))>>
        <4>1. \A i \in DOMAIN records : records[i].op \notin {"m", "b"}
          BY DEF Record, Opcode
        <4>2. Fprintf(x, records, "unwind_trace")
          BY <3>2 DEF UnwindSize, f
        <4> HIDE DEF records
        <4> QED BY <4>1, <4>2, NextPc DEF ModulesOut, g
      <3>3. CASE UnwindTrace(x)
        <4>1. PICK n \in 0..MaxFrames : \E m \in [1..n -> LoadedModules] :
                  Fprintf(x, [i \in 1..n |-> Record("b", m[i])], "unwind_unlock")
          BY <3>3 DEF UnwindTrace
        <4>2. PICK mods \in [1..n -> LoadedModules] :
                  Fprintf(x, [i \in 1..n |-> Record("b", mods[i])], "unwind_unlock")
          BY <4>1
        <4> DEFINE records == [i \in 1..n |-> Record("b", mods[i])]
        <4>3. \A i \in DOMAIN records : records[i].addr \in Modules
          BY DEF Record, LoadedModules, TypeInv, TypeOK
        <4>4. Fprintf(x, records, "unwind_unlock")
          BY <4>2
        <4> HIDE DEF records
        <4> QED BY <4>3, <4>4, NextPc DEF ModulesOut, g
      <3>4. CASE ~(UpdateIterate(x) \/ UnwindSize(x) \/ UnwindTrace(x))
        <4>1. g.out = f.out
          BY <1>2, <3>4, NextLocals
             DEF TrackerStep, SetDirtyTrylock, SetDirtyStore, UpdateTrylock, UpdateCheck,
                 UpdateUnlock, AfterUpdate, BacktraceStep, UnwindLock, UnwindUnlock, f, g
        <4> QED BY <1>0, <4>1 DEF ModulesOut
      <3> QED BY <3>1, <3>2, <3>3, <3>4
    <2> QED BY <1>0, <2>1, <2>2
  <1>3. CASE FprintfWrite(x)
    <2>1. /\ SameCall(x) /\ g.ret = f.ret /\ g.out = Tail(f.out) /\ f.pc = "fprintf_write"
          /\ g.pc = IF Tail(f.out) = <<>> THEN f.ret ELSE "fprintf_lock"
      BY <1>3, NextLocals DEF FprintfWrite, At, f, g
    <2>2. f.out \in Seq(Records) /\ f.out # <<>>
      BY <2>1 DEF FrameOK, Frames
    <2>3. \A i \in DOMAIN Tail(f.out) : Tail(f.out)[i] = f.out[i + 1] /\ i + 1 \in DOMAIN f.out
      BY <2>2
    <2>4. ModulesOut(g)
      BY <1>0, <2>1, <2>3 DEF ModulesOut
    <2>5. OutIsBlock(g)
      <3>1. CASE f.ret = "unwind_trace"
        <4>1. \E rec : f.out = <<rec>>
          BY <1>0, <2>1, <3>1 DEF OutIsBlock, Printing
        <4>2. Tail(f.out) = <<>>
          BY <4>1
        <4> QED BY <2>1, <3>1, <4>2 DEF OutIsBlock, Printing
      <3> QED BY <2>1, <3>1 DEF OutIsBlock
    <2> QED BY <1>0, <2>1, <2>4, <2>5 DEF SameCall, f, g
  <1>4. CASE LibcAlloc(x)
    <2>1. PICK ptr : Got(x, ptr)
      BY <1>4 DEF LibcAlloc
    <2> QED BY <1>keep, <2>1, NextLocals DEF Printing, f, g
  <1>5. CASE LibcRealloc(x) \/ ForkPrepare(x) \/ ForkParent(x)
    BY <1>0, <1>5 DEF LibcRealloc, ForkPrepare, ForkParent, At, CallOK, ForkPcs, f
  <1>6. CASE LibcFree(x) \/ LoaderReturn(x)
    <2>1. g = IdleFrame
      BY <1>6, NextLocals DEF LibcFree, LoaderReturn, g
    <2> QED BY <1>idle, <2>1
  <1>7. CASE LibcDlopen(x) \/ LibcDlclose(x) \/ LoadFailed(x)
    BY <1>7, <1>keep, NextLocals
       DEF LibcDlopen, LibcDlclose, LoadFailed, SameCall, Printing, f, g
  <1>8. CASE Guard(x) \/ Unguard(x)
    <2>1. \/ Return(x)
          \/ \E label \in {"update_trylock", "unwind_lock", "unguard", "libc_free"} : Goto(x, label)
      BY <1>8 DEF Guard, Unguard, Leave
    <2> QED BY <1>idle, <1>keep, <2>1, NextLocals DEF SameCall, Printing, f, g
  <1> QED BY <1>1, <1>2, <1>3, <1>4, <1>5, <1>6, <1>7, <1>8 DEF Step, TrackerStep

LEMMA ThreadsStep ==
  ASSUME NothingFails, ThreadsInv, NEW x \in Activations, Call(x) \/ Step(x)
  PROVE  ThreadsInv'
  <1>1. TypeInv' /\ Nested' /\ UnwindInv' /\ CallsOK' /\ HeldInv'
    <2>1. [Next]_vars
      BY DEF Next
    <2> QED BY <2>1, NextTypeInv, NestedStep, UnwindStep, CallsOKStep, HeldStep DEF ThreadsInv
  <1>2. ASSUME NEW y \in Activations PROVE KindOK(y)'
    <2>1. CASE y = x
      BY <2>1, KindStep
    <2>2. CASE y # x
      <3>1. frame'[y] = frame[y] /\ KindOK(y)
        BY <2>2, OneFrame DEF ThreadsInv
      <3> QED BY <3>1 DEF KindOK, ModulesOut, OutIsBlock
    <2> QED BY <2>1, <2>2
  <1> QED BY <1>1, <1>2 DEF ThreadsInv

(***************************************************************************)
(* The record that a step writes, in the log of the library and in the one *)
(* that reaches jmprof-ip.                                                 *)
(***************************************************************************)
Writes(x, r) ==
    /\ fifo' = Append(fifo, r) /\ log' = Append(log, Shown(r))
    /\ r.thr = x[1] /\ SameCall(x)
    /\ frame[x].pc = "fprintf_write" /\ frame'[x].ret = frame[x].ret
    /\ frame'[x].out = Tail(frame[x].out)
    /\ \/ /\ frame[x].ret = "unwind_trace" /\ frame'[x].pc = "unwind_trace"
          /\ r.op = Opcode(frame[x]) /\ r.addr = Block(frame[x])
       \/ /\ frame[x].ret = "unwind_unlock" /\ r.op = "b" /\ r.addr \in Modules
          /\ frame'[x].pc \in {"fprintf_lock", "unwind_unlock"}
       \/ /\ frame[x].ret = "update_unlock" /\ r.op = "m" /\ r.addr \in Modules
          /\ frame'[x].pc \in {"fprintf_lock", "update_unlock"}

LEMMA WriteStep ==
  ASSUME ThreadsInv, NEW x \in Activations, FprintfWrite(x), Written, ~closed
  PROVE  \E r \in FifoRecords : Writes(x, r) /\ Shown(r) \in LogRecords
  <1> DEFINE f == frame[x]
  <1> /\ TypeInv /\ UnwindInv /\ KindOK(x) /\ f \in Frames /\ FrameOK(f)
    BY DEF ThreadsInv, TypeInv, TypeOK, FramesOK
  <1>1. PICK r \in FifoRecords :
            /\ fifo' = Append(fifo, r)
            /\ r.op = Head(frame[x].out).op /\ r.addr = Head(frame[x].out).addr
            /\ r.thr = x[1]
            /\ SameCall(x)
            /\ frame[x].pc = "fprintf_write"
            /\ frame'[x].ret = frame[x].ret
            /\ \/ /\ frame[x].ret = "unwind_trace" /\ frame'[x].pc = "unwind_trace"
                  /\ r.op = Opcode(frame[x]) /\ r.addr = Block(frame[x])
               \/ /\ frame[x].ret = "unwind_unlock" /\ r.op = "b"
                  /\ frame'[x].pc \in {"fprintf_lock", "unwind_unlock"}
               \/ /\ frame[x].ret = "update_unlock" /\ r.op = "m"
                  /\ frame'[x].pc \in {"fprintf_lock", "update_unlock"}
    BY RecordWritten DEF KindOK, FifoRecords
  <1>2. fifo \in Seq(FifoRecords)
    BY DEF TypeInv, TypeOK, FifoRecords
  <1>3. log' = Append(log, Shown(r))
    <2>1. ShownLog' = Append(ShownLog, Shown(r))
      BY <1>1, <1>2, ShownAppend
    <2>2. Len(fifo) \in Nat /\ Len(fifo') = Len(fifo) + 1
      BY <1>1, <1>2
    <2>3. ShownLog = [i \in 1..Len(fifo) |-> Shown(fifo[i])]
      BY <1>2 DEF ShownLog, Shown
    <2>4. Append(ShownLog, Shown(r))[Len(fifo) + 1] = Shown(r)
      BY <2>2, <2>3
    <2>5. log' = Append(log, ShownLog'[Len(fifo')])
      BY <2>2 DEF Written
    <2> QED BY <2>1, <2>2, <2>4, <2>5
  <1>4. frame'[x].out = Tail(frame[x].out)
    BY NextLocals
  <1>5. r.op \in {"b", "m"} => r.addr \in Modules
    <2>1. f.out # <<>> /\ f.out \in Seq(Records)
      BY <1>1 DEF FrameOK, Frames
    <2>2. Head(f.out) = f.out[1] /\ 1 \in DOMAIN f.out
      BY <2>1
    <2>3. ModulesOut(f)
      BY DEF KindOK
    <2> QED BY <1>1, <2>2, <2>3 DEF ModulesOut
  <1>6. Shown(r) \in LogRecords
    BY DEF Shown, LogRecords, FifoRecords
  <1> QED BY <1>1, <1>3, <1>4, <1>5, <1>6 DEF Writes

\* Any other step writes nothing.
LEMMA QuietLog ==
  ASSUME TypeInv, UnwindInv, NEW x \in Activations, Call(x) \/ Step(x), ~FprintfWrite(x)
  PROVE  /\ fifo' = fifo /\ ShownLog' = ShownLog
         /\ Written => log' = log
  <1>1. CASE Elsewhere(x)
    <2>1. fifo' = fifo
      BY <1>1, ElsewhereQuiet
    <2> QED BY <2>1 DEF ShownLog, Written
  <1>2. CASE FprintfLock(x) \/ UpdateIterate(x) \/ BacktraceStep(x)
    <2>1. fifo' = fifo
      BY <1>2 DEF FprintfLock, UpdateIterate, trackerVars, BacktraceStep, UnwindLock, UnwindSize,
                  UnwindTrace, UnwindUnlock
    <2> QED BY <2>1 DEF ShownLog, Written
  <1> QED BY <1>1, <1>2, StepCases

(***************************************************************************)
(* The frames written since the last 'a' or 'f', by their positions in the *)
(* log: never more than one backtrace has.                                 *)
(***************************************************************************)
NewFrames(recs) == {i \in DOMAIN recs :
                       /\ recs[i].op = "b"
                       /\ \A k \in DOMAIN recs : k >= i => ~IsBlock(recs[k])}

LEMMA NewFramesAppend ==
  ASSUME NEW S, NEW recs \in Seq(S), NEW r \in S
  PROVE  /\ Len(recs) + 1 \notin NewFrames(recs)
         /\ NewFrames(Append(recs, r)) = IF IsBlock(r) THEN {}
                                         ELSE IF r.op = "b" THEN NewFrames(recs) \cup {Len(recs) + 1}
                                         ELSE NewFrames(recs)
  <1> DEFINE new == Append(recs, r)
  <1>1. /\ Len(recs) \in Nat /\ DOMAIN recs = 1..Len(recs)
        /\ DOMAIN new = 1..(Len(recs) + 1)
        /\ new[Len(recs) + 1] = r
        /\ \A i \in DOMAIN recs : new[i] = recs[i]
    OBVIOUS
  <1> HIDE DEF new
  <1>2. CASE IsBlock(r)
    <2>1. \A i \in DOMAIN new : i <= Len(recs) + 1 /\ Len(recs) + 1 \in DOMAIN new
      BY <1>1
    <2>2. NewFrames(new) = {}
      BY <1>1, <1>2, <2>1 DEF NewFrames
    <2> QED BY <1>1, <1>2, <2>2 DEF new, NewFrames
  <1>3. CASE ~IsBlock(r)
    <2>1. ASSUME NEW i \in DOMAIN recs
          PROVE  i \in NewFrames(new) <=> i \in NewFrames(recs)
      <3>1. (\A k \in DOMAIN new : k >= i => ~IsBlock(new[k]))
            <=> \A k \in DOMAIN recs : k >= i => ~IsBlock(recs[k])
        BY <1>1, <1>3
      <3> QED BY <1>1, <3>1 DEF NewFrames
    <2>2. Len(recs) + 1 \in NewFrames(new) <=> r.op = "b"
      BY <1>1, <1>3 DEF NewFrames
    <2>3. /\ NewFrames(new) \subseteq DOMAIN recs \cup {Len(recs) + 1}
          /\ NewFrames(recs) \subseteq DOMAIN recs
          /\ Len(recs) + 1 \notin DOMAIN recs
      BY <1>1 DEF NewFrames
    <2>4. r.op = "b" => NewFrames(new) = NewFrames(recs) \cup {Len(recs) + 1}
      BY <2>1, <2>2, <2>3
    <2>5. r.op # "b" => NewFrames(new) = NewFrames(recs)
      BY <2>1, <2>2, <2>3
    <2> QED BY <1>3, <2>3, <2>4, <2>5 DEF new
  <1> QED BY <1>2, <1>3

FramesInv ==
    ~closed =>
        /\ IsFiniteSet(NewFrames(log))
        /\ \A x \in Activations :
               /\ At(x, "unwind_trace") => NewFrames(log) = {}
               /\ Printing(frame[x]) /\ frame[x].ret = "unwind_unlock"
                      => Cardinality(NewFrames(log)) + Len(frame[x].out) <= MaxFrames

\* A record of another kind that is put in between, as that of a region.
LEMMA FramesKept ==
  ASSUME FramesInv, closed' = closed \/ closed', UNCHANGED frame,
         ~closed => NewFrames(log') = NewFrames(log)
  PROVE  FramesInv'
  BY DEF FramesInv, At

LEMMA FramesStep ==
  ASSUME ThreadsInv, FramesInv, log \in Seq(LogRecords), NEW x \in Activations,
         (Call(x) /\ log' = log) \/ (Step(x) /\ Written), ~closed, ~closed'
  PROVE  /\ FramesInv'
         /\ \A r \in FifoRecords : Writes(x, r) /\ r.op = "b"
                => IsFiniteSet(NewFrames(log)) /\ Cardinality(NewFrames(log)) < MaxFrames
  <1> DEFINE f == frame[x]
             g == frame'[x]
             Fits == \A r \in FifoRecords : Writes(x, r) /\ r.op = "b"
                        => IsFiniteSet(NewFrames(log)) /\ Cardinality(NewFrames(log)) < MaxFrames
  <1> TypeInv /\ UnwindInv /\ KindOK(x) /\ f \in Frames /\ FrameOK(f) /\ MaxFrames \in Nat
    BY BacktraceAssumption DEF ThreadsInv, TypeInv, TypeOK, FramesOK, MAX_BACKTRACE_COUNT
  <1>0. \A y \in Activations \ {x} : frame'[y] = frame[y]
    BY OneFrame
  <1> HIDE DEF f, g, Fits
  <1> SUFFICES FramesInv' /\ Fits
    BY DEF Fits
  <1>w. FprintfWrite(x) \/ (log' = log /\ fifo' = fifo)
    BY QuietLog
  <1>q. ASSUME fifo' = fifo, g.pc # "unwind_trace",
               Printing(g) /\ g.ret = "unwind_unlock"
                   => Cardinality(NewFrames(log)) + Len(g.out) <= MaxFrames
        PROVE  FramesInv' /\ Fits
    <2>1. Len(fifo) \in Nat /\ \A r : Len(Append(fifo, r)) = Len(fifo) + 1
      BY DEF TypeInv, TypeOK
    <2>2. ~FprintfWrite(x) /\ \A r : ~Writes(x, r)
      BY <1>q, <2>1 DEF FprintfWrite, Writes
    <2>3. log' = log
      BY <1>w, <2>2
    <2> QED BY <1>0, <1>q, <2>2, <2>3 DEF FramesInv, At, Fits, g
  <1>2. CASE Elsewhere(x)
    <2>1. g.pc \notin LoggingPcs /\ fifo' = fifo
      BY <1>2, ElsewhereQuiet DEF g
    <2> QED BY <1>q, <2>1 DEF LoggingPcs, Printing
  <1>3. CASE FprintfLock(x)
    <2>1. /\ g.pc = "fprintf_write" /\ g.out = f.out /\ g.ret = f.ret /\ Printing(f)
          /\ fifo' = fifo
      BY <1>3, NextLocals DEF FprintfLock, At, Printing, f, g
    <2> QED BY <1>q, <2>1 DEF FramesInv, f
  <1>4. CASE UpdateIterate(x)
    <2>1. PICK records : Fprintf(x, records, "update_unlock")
      BY <1>4 DEF UpdateIterate
    <2>2. g.ret = "update_unlock" /\ g.pc # "unwind_trace"
      BY <2>1, NextPc DEF g
    <2>3. fifo' = fifo
      BY <1>4 DEF UpdateIterate, trackerVars
    <2> QED BY <1>q, <2>2, <2>3
  <1>5. CASE UnwindLock(x) \/ UnwindUnlock(x)
    <2>1. g.pc \in {"unwind_size", "unguard"} /\ fifo' = fifo
      BY <1>5, NextPc DEF UnwindLock, UnwindUnlock, trackerVars, g
    <2> QED BY <1>q, <2>1 DEF Printing
  <1>6. CASE UnwindSize(x)
    <2> DEFINE records == <<Record(Opcode(frame[x]), Block(frame[x]))>>
    <2>1. records # <<>> /\ Fprintf(x, records, "unwind_trace") /\ fifo' = fifo
      BY <1>6 DEF UnwindSize, trackerVars
    <2> HIDE DEF records
    <2>2. g.ret = "unwind_trace" /\ g.pc = "fprintf_lock"
      BY <2>1, NextPc DEF g
    <2> QED BY <1>q, <2>1, <2>2
  <1>7. CASE UnwindTrace(x)
    <2>1. PICK n \in 0..MaxFrames : \E m \in [1..n -> LoadedModules] :
              Fprintf(x, [i \in 1..n |-> Record("b", m[i])], "unwind_unlock")
      BY <1>7 DEF UnwindTrace
    <2>2. PICK mods \in [1..n -> LoadedModules] :
              Fprintf(x, [i \in 1..n |-> Record("b", mods[i])], "unwind_unlock")
      BY <2>1
    <2> DEFINE records == [i \in 1..n |-> Record("b", mods[i])]
    <2>3. Len(records) = n
      OBVIOUS
    <2>4. Fprintf(x, records, "unwind_unlock")
      BY <2>2
    <2> HIDE DEF records
    <2>5. g.out = records /\ g.pc # "unwind_trace"
      BY <2>4, NextPc DEF g
    <2>6. NewFrames(log) = {} /\ fifo' = fifo
      BY <1>7 DEF UnwindTrace, FramesInv, trackerVars
    <2>7. Cardinality(NewFrames(log)) = 0
      BY <2>6, FS_EmptySet
    <2> QED BY <1>q, <2>1, <2>3, <2>5, <2>6, <2>7
  <1>8. CASE FprintfWrite(x)
    <2>0. Step(x) /\ Written
      <3>1. ~Call(x)
        BY <1>8 DEF Call, FprintfWrite, At
      <3> QED BY <3>1
    <2>1. PICK r \in FifoRecords : Writes(x, r) /\ Shown(r) \in LogRecords
      BY <1>8, <2>0, WriteStep
    <2>2. NewFrames(log') = IF IsBlock(r) THEN {}
                            ELSE IF r.op = "b" THEN NewFrames(log) \cup {Len(log) + 1}
                            ELSE NewFrames(log)
      <3>1. NewFrames(Append(log, Shown(r)))
              = IF IsBlock(Shown(r)) THEN {}
                ELSE IF Shown(r).op = "b" THEN NewFrames(log) \cup {Len(log) + 1}
                ELSE NewFrames(log)
        BY <2>1, NewFramesAppend
      <3> QED BY <2>1, <3>1 DEF Writes, Shown, IsBlock
    <2>3. Len(log) + 1 \notin NewFrames(log)
      BY <2>1, NewFramesAppend
    <2>4. \A s \in FifoRecords : Writes(x, s) => s.op = r.op
      <3> TAKE s \in FifoRecords
      <3>1. fifo \in Seq(FifoRecords)
        BY DEF TypeInv, TypeOK, FifoRecords
      <3>2. Append(fifo, s)[Len(fifo) + 1] = s /\ Append(fifo, r)[Len(fifo) + 1] = r
        BY <3>1
      <3> QED BY <2>1, <3>2 DEF Writes
    <2>5. IsFiniteSet(NewFrames(log)) /\ IsFiniteSet({})
      BY FS_EmptySet DEF FramesInv
    <2>6. /\ f.pc = "fprintf_write" /\ g.ret = f.ret /\ g.out = Tail(f.out)
          /\ \/ f.ret = "unwind_trace" /\ r.op \in {"a", "f"} /\ g.pc = "unwind_trace"
             \/ /\ f.ret = "unwind_unlock" /\ r.op = "b"
                /\ g.pc \in {"fprintf_lock", "unwind_unlock"}
             \/ /\ f.ret = "update_unlock" /\ r.op = "m"
                /\ g.pc \in {"fprintf_lock", "update_unlock"}
      BY <2>1 DEF Writes, Opcode, f, g
    <2>7. CASE f.ret = "update_unlock"
      <3>1. NewFrames(log') = NewFrames(log) /\ r.op # "b"
        BY <2>2, <2>6, <2>7 DEF IsBlock
      <3>2. g.ret = "update_unlock" /\ g.pc # "unwind_trace"
        BY <2>6, <2>7
      <3>3. FramesInv'
        BY <1>0, <3>1, <3>2 DEF FramesInv, At, g
      <3> QED BY <2>4, <3>1, <3>3 DEF Fits
    <2>8. CASE f.ret # "update_unlock"
      <3>0. InUnwind(f) /\ Printing(f)
        BY <2>6, <2>8 DEF InUnwind, Printing
      <3>1. \A y \in Activations \ {x} : ~InUnwind(frame'[y])
        BY <1>0, <3>0 DEF UnwindInv, f
      <3>2. \A y \in Activations \ {x} :
                ~At(y, "unwind_trace")' /\ ~(Printing(frame'[y]) /\ frame'[y].ret = "unwind_unlock")
        BY <3>1 DEF InUnwind, At
      <3>3. CASE f.ret = "unwind_trace"
        <4>1. NewFrames(log') = {} /\ r.op # "b"
          BY <2>2, <2>6, <3>3 DEF IsBlock
        <4>2. g.ret = "unwind_trace"
          BY <2>6, <3>3
        <4>3. FramesInv'
          BY <2>5, <3>2, <4>1, <4>2 DEF FramesInv, g
        <4> QED BY <2>4, <4>1, <4>3 DEF Fits
      <3>4. CASE f.ret = "unwind_unlock"
        <4>1. NewFrames(log') = NewFrames(log) \cup {Len(log) + 1}
          BY <2>2, <2>6, <3>4 DEF IsBlock
        <4>3. /\ IsFiniteSet(NewFrames(log'))
              /\ Cardinality(NewFrames(log')) = Cardinality(NewFrames(log)) + 1
          BY <2>3, <2>5, <4>1, FS_AddElement
        <4>4. Cardinality(NewFrames(log)) \in Nat
          BY <2>5, FS_CardinalityType
        <4>5. f.out \in Seq(Records) /\ f.out # <<>>
          BY <2>6 DEF FrameOK, Frames
        <4>6. Len(g.out) = Len(f.out) - 1 /\ Len(f.out) \in Nat /\ Len(f.out) > 0
          BY <2>6, <4>5
        <4>7. Cardinality(NewFrames(log)) + Len(f.out) <= MaxFrames
          BY <3>0, <3>4 DEF FramesInv, f
        <4>8. g.pc # "unwind_trace"
          BY <2>6, <3>4
        <4>9. FramesInv'
          BY <3>2, <4>3, <4>4, <4>6, <4>7, <4>8 DEF FramesInv, At, g
        <4>10. Fits
          BY <2>5, <4>4, <4>6, <4>7 DEF Fits
        <4> QED BY <4>9, <4>10
      <3> QED BY <2>6, <2>8, <3>3, <3>4
    <2> QED BY <2>7, <2>8
  <1> QED BY <1>2, <1>3, <1>4, <1>5, <1>6, <1>7, <1>8, StepCases DEF BacktraceStep

(***************************************************************************)
(* What the log shows as allocated is the program's or in the hands of a   *)
(* call.  What unw_backtrace() allocates is never shown: a call it makes   *)
(* never gets the unwind mutex, as the one that called it holds it.        *)
(***************************************************************************)
InHand == {Held(frame[x]) : x \in Activations}

ShownInv ==
    /\ Traced(fifo) \subseteq owned \cup InHand
    /\ \A x \in Activations : x[2] > 1 => ~InUnwind(frame[x]) /\ ~At(x, "unguard")

LEMMA NestedUnwinds ==
  ASSUME LibraryInv, NEW x \in Activations, x[2] > 1, UnwindLock(x)
  PROVE  FALSE
  <1> TypeInv /\ Nested /\ UnwindInv
    BY DEF LibraryInv
  <1>1. /\ x[1] \in Threads /\ x[2] \in 1..MaxDepth /\ 1 \in 1..MaxDepth
        /\ x[1] # NULL
    BY CallStackAssumption DEF Activations
  <1>2. <<x[1], 1>> \in Activations
    BY <1>1 DEF Activations
  <1>3. At(<<x[1], 1>>, "unwind_trace")
    BY <1>1, <1>2 DEF Nested, UnwindLock, At
  <1>4. unwind_mutex = x[1]
    BY <1>2, <1>3 DEF UnwindInv, InUnwind, At
  <1> QED BY <1>1, <1>4 DEF UnwindLock

LEMMA NestedShown ==
  ASSUME LibraryInv, ShownInv, NEW x \in Activations, Call(x) \/ Step(x), x[2] > 1
  PROVE  ~InUnwind(frame'[x]) /\ frame'[x].pc # "unguard"
  <1> DEFINE f == frame[x]
             g == frame'[x]
  <1> /\ TypeInv /\ UnwindInv /\ TracedInv /\ BlocksInv
      /\ ~InUnwind(f) /\ f.pc # "unguard" /\ f.fn # "free"
    BY DEF LibraryInv, ShownInv, BlocksInv, At
  <1> HIDE DEF f, g
  <1> SUFFICES ~InUnwind(g) /\ g.pc # "unguard"
    BY DEF g
  <1> USE DEF InUnwind, Printing
  <1>1. CASE Call(x)
    <2>1. PICK fn, arg, zero : Begin(x, fn, arg, zero)
      BY <1>1 DEF Call, Allocate, Reallocate, Free, Load, Fork
    <2>2. g.pc \in {"guard", "fork_prepare", "libc"}
      BY <2>1, BegunLocals DEF g
    <2> QED BY <2>2
  <1>2. CASE FprintfLock(x) \/ FprintfWrite(x)
    <2>1. f.pc \in {"fprintf_lock", "fprintf_write"} /\ g.ret = f.ret /\ OutOK(f)
          /\ g.pc \in {"fprintf_lock", "fprintf_write", f.ret}
      BY <1>2, NextLocals DEF FprintfLock, FprintfWrite, At, UnwindInv, f, g
    <2>2. f.ret = "update_unlock"
      BY <2>1 DEF OutOK
    <2> QED BY <2>1, <2>2
  <1>3. CASE UpdateIterate(x)
    <2>1. PICK records : Fprintf(x, records, "update_unlock")
      BY <1>3 DEF UpdateIterate
    <2>2. g.ret = "update_unlock" /\ g.pc \in {"update_unlock", "fprintf_lock"}
      BY <2>1, NextPc DEF g
    <2> QED BY <2>2
  <1>4. CASE \/ SetDirtyTrylock(x) \/ SetDirtyStore(x) \/ UpdateTrylock(x)
             \/ UpdateCheck(x) \/ UpdateUnlock(x)
    BY <1>4, NextPc DEF SetDirtyTrylock, SetDirtyStore, UpdateTrylock, UpdateCheck,
                        UpdateUnlock, AfterUpdate, g
  <1>5. CASE BacktraceStep(x)
    <2>1. ~UnwindLock(x)
      BY NestedUnwinds
    <2> QED BY <1>5, <2>1 DEF BacktraceStep, UnwindSize, UnwindTrace, UnwindUnlock, At, f
  <1>6. CASE LibcAlloc(x) \/ LibcRealloc(x)
    BY <1>6, NextPc DEF LibcAlloc, LibcRealloc, g
  <1>7. CASE LibcFree(x) \/ LoaderReturn(x) \/ ForkParent(x)
    BY <1>7, NextPc DEF LibcFree, LoaderReturn, ForkParent, g
  <1>8. CASE LibcDlopen(x) \/ LibcDlclose(x) \/ LoadFailed(x) \/ ForkPrepare(x)
    BY <1>8, NextPc DEF LibcDlopen, LibcDlclose, LoadFailed, ForkPrepare, g
  <1>9. CASE Guard(x)
    <2>1. \/ Goto(x, "update_trylock") \/ Return(x)
      BY <1>9 DEF Guard, Leave, f
    <2> QED BY <2>1, NextPc DEF g
  <1>10. CASE Unguard(x)
    BY <1>10 DEF Unguard, At, f
  <1> QED BY <1>1, <1>2, <1>3, <1>4, <1>5, <1>6, <1>7, <1>8, <1>9, <1>10 DEF Step, TrackerStep

\* A step that writes no record, and of which the program keeps what it had in
\* hand, or gets it, or that drops a block that is not shown.
LEMMA ShownKept ==
  ASSUME TypeInv, NEW x \in Activations, \A y \in Activations \ {x} : frame'[y] = frame[y],
         Traced(fifo) \subseteq owned \cup InHand, fifo' = fifo,
         Held(frame[x]) \in owned' \cup {Held(frame'[x])} \/ Held(frame[x]) \notin Traced(fifo),
         owned \subseteq owned' \cup {Held(frame'[x])}
  PROVE  Traced(fifo') \subseteq owned' \cup InHand'
  <1> SUFFICES ASSUME NEW a \in Traced(fifo) PROVE a \in owned' \cup InHand'
    OBVIOUS
  <1>1. InHand' = {Held(frame'[y]) : y \in Activations}
    BY DEF InHand
  <1>2. CASE a \in owned
    BY <1>1, <1>2
  <1>3. CASE \E y \in Activations : a = Held(frame[y])
    <2>1. PICK y \in Activations : a = Held(frame[y])
      BY <1>3
    <2> QED BY <1>1, <2>1
  <1> QED BY <1>2, <1>3 DEF InHand

LEMMA ShownStep ==
  ASSUME LibraryInv, ShownInv, NEW x \in Activations, Call(x) \/ Step(x)
  PROVE  ShownInv'
  <1> DEFINE f == frame[x]
             g == frame'[x]
  <1> /\ TypeInv /\ Nested /\ UnwindInv /\ CallsOK /\ HeldInv /\ GuardInv /\ TracedInv /\ BlocksInv
      /\ f \in Frames /\ CallOK(f) /\ FrameOK(f) /\ BlockOK(f)
      /\ f.fn \notin {"fork", "realloc"} /\ NULL \notin Traced(fifo)
    BY PreloadAssumption
       DEF LibraryInv, TypeInv, TypeOK, FramesOK, CallsOK, GuardInv, BlocksInv, BlockOK
  <1>0. \A y \in Activations \ {x} : frame'[y] = frame[y]
    BY OneFrame
  <1>n. \A y \in Activations : y[2] > 1 => ~InUnwind(frame'[y]) /\ frame'[y].pc # "unguard"
    BY <1>0, NestedShown DEF ShownInv, At
  <1> HIDE DEF f, g
  <1> SUFFICES Traced(fifo') \subseteq owned' \cup InHand'
    BY <1>n DEF ShownInv, At
  <1>keep. ASSUME fifo' = fifo, owned \subseteq owned' \cup {Held(g)},
                  Held(f) \in owned' \cup {Held(g)} \/ Held(f) \notin Traced(fifo)
           PROVE  Traced(fifo') \subseteq owned' \cup InHand'
    BY <1>0, <1>keep, ShownKept DEF ShownInv, f, g
  <1>out. ASSUME Return(x), fifo' = fifo, f.fn # "free", f.pc # "libc", f.pc # "idle",
                 x[2] > 1 => ~Announced(f)
          PROVE  Traced(fifo') \subseteq owned' \cup InHand'
    <2>1. Held(f) = Result(f) \/ Held(f) = NULL
      BY <1>out DEF Held
    <2>2. owned' = IF x[2] = 1 THEN owned \cup ({Result(f)} \ {NULL}) ELSE owned
      BY <1>out DEF Return, f
    <2>3. CASE x[2] = 1
      BY <1>keep, <1>out, <2>1, <2>2, <2>3
    <2>4. CASE x[2] # 1
      <3>1. x[2] > 1
        BY <2>4, CallStackAssumption DEF Activations
      <3>2. Held(f) = NULL \/ (f.fn \in Allocators /\ Held(f) = f.res)
        <4>1. f.fn \notin Reallocators => f.res = NULL
          BY DEF CallOK
        <4> QED BY <1>out, <4>1 DEF Held, Result, Reallocators
      <3>3. Held(f) \notin Traced(fifo)
        BY <1>out, <3>1, <3>2 DEF BlockOK
      <3> QED BY <1>keep, <1>out, <2>2, <2>4, <3>3
    <2> QED BY <2>3, <2>4
  <1>1. CASE Call(x)
    <2>1. f = IdleFrame /\ fifo' = fifo
      BY <1>1 DEF Call, At, CallOK, trackerVars, f
    <2>2. Held(f) = NULL
      BY <2>1 DEF Held, IdleFrame, Result, Loaders
    <2>3. PICK fn, arg, zero : /\ Begin(x, fn, arg, zero)
                               /\ IF fn \in {"free", "realloc"}
                                  THEN owned' = owned \ {arg} ELSE owned' = owned
      <3>1. CASE Allocate(x)
        BY <3>1 DEF Allocate, Allocators
      <3>2. CASE Reallocate(x)
        BY <3>2 DEF Reallocate
      <3>3. CASE Free(x)
        BY <3>3 DEF Free
      <3>4. CASE Load(x)
        <4>1. PICK m, fn : fn \in Loaders /\ Begin(x, fn, m, FALSE)
          BY <3>4 DEF Load, Loaders
        <4> QED BY <3>4, <4>1 DEF Load, Loaders
      <3>5. CASE Fork(x)
        BY <3>5 DEF Fork
      <3> QED BY <1>1, <3>1, <3>2, <3>3, <3>4, <3>5 DEF Call
    <2>4. fn \in {"free", "realloc"} => Held(g) = arg
      BY <2>3, BegunLocals DEF Held, Loaders, g
    <2> QED BY <1>keep, <2>1, <2>2, <2>3, <2>4
  <1>2. CASE \/ TrackerStep(x) /\ ~FprintfWrite(x) /\ UNCHANGED <<unwind_mutex, preloadVars>>
             \/ BacktraceStep(x) /\ UNCHANGED preloadVars
    <2>1. /\ SameCall(x) /\ UNCHANGED preloadVars
          /\ \/ f.pc \in GuardedPcs /\ g.pc \in GuardedPcs
             \/ f.pc \in LoaderPcs  /\ g.pc \in LoaderPcs
      BY <1>2, TracingStep DEF f, g
    <2>2. fifo' = fifo /\ owned' = owned
      BY <1>2, <2>1, AnnouncedStep DEF preloadVars, heapVars
    <2>3. Held(g) = Held(f)
      <3>1. f.pc # "libc" /\ g.pc # "libc"
        BY <2>1 DEF GuardedPcs, LoaderPcs
      <3> QED BY <2>1, <3>1 DEF Held, Result, SameCall, f, g
    <2> QED BY <1>keep, <2>2, <2>3
  <1>3. CASE FprintfWrite(x) /\ UNCHANGED <<unwind_mutex, preloadVars>>
    <2> DEFINE R == [op : {"a", "b", "f", "m"}, addr : Pointers, thr : Threads, ts : Nat]
    <2>1. PICK r \in R :
            /\ fifo' = Append(fifo, r) /\ SameCall(x) /\ f.pc = "fprintf_write" /\ g.pc # "libc"
            /\ \/ f.ret = "unwind_trace" /\ r.op = Opcode(f) /\ r.addr = Block(f)
               \/ r.op \in {"b", "m"}
      BY <1>3, RecordWritten DEF TracedInv, f, g
    <2>2. fifo \in Seq(R) /\ owned' = owned
      BY <1>3 DEF TypeInv, TypeOK, preloadVars, heapVars
    <2> HIDE DEF R
    <2>3. Traced(fifo') = IF r.op = "a" THEN Traced(fifo) \cup {r.addr}
                          ELSE IF r.op = "f" THEN Traced(fifo) \ {r.addr}
                          ELSE Traced(fifo)
      BY <2>1, <2>2, TracedAppend
    <2>4. Held(g) = Held(f)
      BY <2>1 DEF Held, Result, SameCall, f, g
    <2>5. r.op = "a" => r.addr = Held(f)
      <3>1. f.fn \in Reallocators \cup {"free"}
        BY <2>1 DEF CallOK, LogPcs, GuardedPcs
      <3> QED BY <2>1, <3>1 DEF Opcode, Block, Held, Result, Reallocators, Allocators, Loaders
    <2>6. InHand' = InHand
      BY <1>0, <2>4 DEF InHand, f, g
    <2>7. Held(f) \in InHand
      BY DEF InHand, f
    <2> QED BY <2>2, <2>3, <2>5, <2>6, <2>7 DEF ShownInv
  <1>4. CASE LibcAlloc(x)
    <2>1. f.fn \in Allocators /\ f.pc = "libc" /\ owned' = owned /\ fifo' = fifo
      BY <1>4 DEF LibcAlloc, At, trackerVars, f
    <2>2. Held(f) = NULL
      BY <2>1 DEF Held, CallOK, Allocators, Loaders
    <2> QED BY <1>keep, <2>1, <2>2
  <1>5. CASE LibcFree(x)
    <2>1. /\ f.pc = "libc_free" /\ f.fn = "free" /\ fifo' = fifo /\ Return(x)
      BY <1>5 DEF LibcFree, CallOK, At, trackerVars, f
    <2>2. Held(f) \notin Traced(fifo)
      BY <2>1 DEF BlockOK, Retracted, Held, Loaders
    <2>3. owned \subseteq owned'
      BY <2>1 DEF Return
    <2> QED BY <1>keep, <2>1, <2>2, <2>3
  <1>6. CASE LibcRealloc(x) \/ ForkPrepare(x) \/ ForkParent(x)
    BY <1>6 DEF LibcRealloc, ForkPrepare, ForkParent, At, CallOK, ForkPcs, f
  <1>7. CASE LoaderReturn(x)
    <2>1. f.pc = "return" /\ f.fn \in Loaders /\ fifo' = fifo /\ Return(x)
      BY <1>7 DEF LoaderReturn, At, CallOK, LoaderPcs, trackerVars, f
    <2>2. f.fn # "free" /\ ~Announced(f)
      BY <2>1 DEF Loaders, Announced, Printing
    <2> QED BY <1>out, <2>1, <2>2
  <1>8. CASE LibcDlopen(x) \/ LibcDlclose(x) \/ LoadFailed(x)
    <2>1. /\ SameCall(x) /\ fifo' = fifo /\ owned' = owned /\ f.fn \in Loaders
      BY <1>8, NextLocals DEF LibcDlopen, LibcDlclose, LoadFailed, LoaderUnchanged,
                              preloadVars, heapVars, Loaders, f
    <2>2. Held(f) = NULL
      BY <2>1 DEF Held
    <2> QED BY <1>keep, <2>1, <2>2
  <1>9. CASE Guard(x) \/ Unguard(x)
    <2>1. f.pc \in {"guard", "unguard"} /\ fifo' = fifo
      BY <1>9 DEF Guard, Unguard, At, trackerVars, f
    <2>2. CASE Return(x) /\ f.fn # "free"
      <3>1. x[2] > 1 => f.pc = "guard"
        BY <2>1 DEF ShownInv, At, f
      <3>2. f.pc = "guard" => ~Announced(f)
        BY DEF Announced, Printing
      <3> QED BY <1>out, <2>1, <2>2, <3>1, <3>2
    <2>3. CASE UNCHANGED owned /\ \E label \in Pcs \ {"libc"} : Goto(x, label)
      <3>1. SameCall(x) /\ g.pc # "libc"
        BY <2>3, NextLocals DEF g
      <3>2. Held(g) = Held(f)
        BY <2>1, <3>1 DEF Held, Result, SameCall, f, g
      <3> QED BY <1>keep, <2>1, <2>3, <3>2
    <2> QED BY <1>9, <2>2, <2>3 DEF Guard, Unguard, Leave, Pcs, f
  <1> QED BY <1>1, <1>2, <1>3, <1>4, <1>5, <1>6, <1>7, <1>8, <1>9 DEF Step, TrackerStep

(***************************************************************************)
(* The log that jmprof-ip reads has the records of the library's own, and  *)
(* in between that of the executable and those of the regions, until it is *)
(* closed.  While exit() runs, a call that had begun to log goes on with   *)
(* it, for the block it had in hand, and no other call begins.             *)
(***************************************************************************)
FreesKnown(recs) == \A i \in DOMAIN recs : recs[i].op = "f" =>
    \E j \in DOMAIN recs : j < i /\ recs[j].op = "a" /\ recs[j].addr = recs[i].addr

StageInv == /\ {closed, over} \subseteq BOOLEAN
            /\ over => closed
            /\ is_initialized /\ closed => over
            /\ log = <<>> => fifo = <<>> /\ is_initialized /\ ~closed
            /\ log \in Seq(LogRecords)
            /\ FreesKnown(log)

SameBlocks == ~closed => /\ Traced(log) = Traced(fifo)
                         /\ \A t \in Threads : HasOwner(fifo, t) => HasOwner(log, t)

LoggingInv == is_initialized => LibraryInv /\ ShownInv

Finishing(x) == /\ BlockOK(frame[x])
                /\ Held(frame[x]) \notin atExit.held
                /\ Held(frame[x]) \in atExit.inHand \cup {NULL}

ExitInv == ~is_initialized /\ ~closed =>
               \A x \in Activations : frame[x].pc \in GuardedPcs => Finishing(x)

LeakInv == ~is_initialized \/ closed =>
               /\ atExit.held \subseteq Traced(log)
               /\ Traced(log) \subseteq atExit.held \cup atExit.inHand

JmprofInv == /\ ThreadsInv /\ StageInv /\ SameBlocks /\ FramesInv
             /\ LoggingInv /\ ExitInv /\ LeakInv

LEMMA OwnerBefore ==
  ASSUME NEW S, NEW recs \in Seq(S), NEW r \in S, NEW t, HasOwner(Append(recs, r), t)
  PROVE  IF IsBlock(r) THEN r.thr = t ELSE HasOwner(recs, t)
  <1> DEFINE new == Append(recs, r)
  <1>1. /\ Len(recs) \in Nat /\ DOMAIN recs = 1..Len(recs)
        /\ Len(new) = Len(recs) + 1 /\ DOMAIN new = 1..(Len(recs) + 1)
        /\ new[Len(recs) + 1] = r
        /\ \A i \in DOMAIN recs : new[i] = recs[i]
    OBVIOUS
  <1>2. PICK j \in DOMAIN new : IsOwnerOf(new, Len(new) + 1, j) /\ new[j].thr = t
    BY DEF HasOwner
  <1> HIDE DEF new
  <1>3. /\ IsBlock(new[j])
        /\ \A k \in DOMAIN new : j < k => ~IsBlock(new[k])
    <2>1. \A k \in DOMAIN new : k < Len(new) + 1
      BY <1>1
    <2> QED BY <1>2, <2>1 DEF IsOwnerOf
  <1>4. CASE j = Len(recs) + 1
    BY <1>1, <1>2, <1>3, <1>4
  <1>5. CASE j # Len(recs) + 1
    <2>1. j \in DOMAIN recs /\ j < Len(recs) + 1 /\ Len(recs) + 1 \in DOMAIN new
      BY <1>1, <1>5
    <2>2. ~IsBlock(r)
      BY <1>1, <1>3, <2>1
    <2>3. IsOwnerOf(recs, Len(recs) + 1, j) /\ recs[j].thr = t
      BY <1>1, <1>2, <1>3, <2>1 DEF IsOwnerOf
    <2> QED BY <2>1, <2>2, <2>3 DEF HasOwner
  <1> QED BY <1>4, <1>5

LEMMA FreesKnownAppend ==
  ASSUME NEW S, NEW recs \in Seq(S), NEW r \in S, FreesKnown(recs),
         r.op = "f" => r.addr \in Traced(recs)
  PROVE  FreesKnown(Append(recs, r))
  <1> DEFINE new == Append(recs, r)
  <1>1. /\ Len(recs) \in Nat /\ DOMAIN recs = 1..Len(recs)
        /\ DOMAIN new = 1..(Len(recs) + 1)
        /\ new[Len(recs) + 1] = r
        /\ \A i \in DOMAIN recs : new[i] = recs[i]
    OBVIOUS
  <1> HIDE DEF new
  <1> SUFFICES ASSUME NEW i \in DOMAIN new, new[i].op = "f"
               PROVE  \E j \in DOMAIN new : j < i /\ new[j].op = "a" /\ new[j].addr = new[i].addr
    BY DEF FreesKnown, new
  <1>2. CASE i \in DOMAIN recs
    <2>1. PICK j \in DOMAIN recs : j < i /\ recs[j].op = "a" /\ recs[j].addr = recs[i].addr
      BY <1>1, <1>2 DEF FreesKnown
    <2> QED BY <1>1, <1>2, <2>1
  <1>3. CASE i \notin DOMAIN recs
    <2>1. i = Len(recs) + 1 /\ r.addr \in Traced(recs)
      BY <1>1, <1>3
    <2>2. PICK j \in DOMAIN recs : recs[j].op = "a" /\ recs[j].addr = r.addr
      BY <2>1 DEF Traced
    <2> QED BY <1>1, <2>1, <2>2
  <1> QED BY <1>2, <1>3

\* The record of the executable, or of a region.
LEMMA OtherAppend ==
  ASSUME NEW op \in {"x", "r"}, log \in Seq(LogRecords), log' = Append(log, NoThread(op))
  PROVE  /\ log' \in Seq(LogRecords) /\ log' # <<>>
         /\ Traced(log') = Traced(log)
         /\ \A t : HasOwner(log, t) => HasOwner(log', t)
         /\ NewFrames(log') = NewFrames(log)
         /\ FreesKnown(log) => FreesKnown(log')
  <1> DEFINE r == NoThread(op)
  <1>1. r \in LogRecords /\ r.op \notin {"a", "f", "b"}
    BY DEF NoThread, LogRecords, Pointers
  <1> HIDE DEF r
  <1>2. log' = Append(log, r)
    BY DEF r
  <1>3. Traced(Append(log, r)) = Traced(log)
    BY <1>1, TracedAppend
  <1>4. \A t : HasOwner(log, t) => HasOwner(Append(log, r), t)
    BY <1>1, OwnerAppend DEF IsBlock
  <1>5. NewFrames(Append(log, r)) = NewFrames(log)
    BY <1>1, NewFramesAppend DEF IsBlock
  <1>6. FreesKnown(log) => FreesKnown(Append(log, r))
    BY <1>1, FreesKnownAppend
  <1>7. Append(log, r) \in Seq(LogRecords) /\ Append(log, r) # <<>>
    BY <1>1
  <1> QED BY <1>2, <1>3, <1>4, <1>5, <1>6, <1>7

\* What the record of a call is about.
LEMMA WrittenBlock ==
  ASSUME ThreadsInv, NEW x \in Activations, BlockOK(frame[x]),
         NEW r \in FifoRecords, Writes(x, r)
  PROVE  /\ frame[x].fn \in Allocators \cup {"free"}
         /\ r.op \in {"a", "f"} => /\ frame[x].ret = "unwind_trace" /\ r.addr = Held(frame[x])
                                   /\ r.addr \in Addrs \cap live
         /\ r.op = "a" => /\ frame[x].fn \in Allocators /\ r.addr = frame[x].res
                          /\ r.addr \notin Traced(fifo)
         /\ r.op = "f" => /\ frame[x].fn = "free" /\ r.addr = frame[x].arg
                          /\ r.addr \in Traced(fifo)
         /\ r.op \notin {"a", "f"} => /\ frame[x].ret # "unwind_trace"
                                      /\ r.op \in {"b", "m"} /\ r.addr \in Modules
  <1> DEFINE f == frame[x]
  <1>0. /\ CallOK(f) /\ f.fn # "realloc" /\ f.pc = "fprintf_write" /\ BlockOK(f)
        /\ Held(f) # NULL => Held(f) \in live
        /\ live \subseteq Addrs
    BY DEF ThreadsInv, TypeInv, TypeOK, CallsOK, KindOK, Writes, HeldInv
  <1>1. f.fn \in Allocators \cup {"free"}
    BY <1>0 DEF CallOK, LogPcs, GuardedPcs, Reallocators
  <1>w. /\ \/ f.ret = "unwind_trace" /\ r.op = Opcode(f) /\ r.addr = Block(f)
           \/ f.ret # "unwind_trace" /\ r.op \in {"b", "m"} /\ r.addr \in Modules
    BY DEF Writes
  <1> HIDE DEF f
  <1> SUFFICES /\ r.op \in {"a", "f"} => /\ f.ret = "unwind_trace" /\ r.addr = Held(f)
                                         /\ r.addr \in Addrs \cap live
               /\ r.op = "a" => /\ f.fn \in Allocators /\ r.addr = f.res
                                /\ r.addr \notin Traced(fifo)
               /\ r.op = "f" => /\ f.fn = "free" /\ r.addr = f.arg
                                /\ r.addr \in Traced(fifo)
               /\ r.op \notin {"a", "f"} => /\ f.ret # "unwind_trace"
                                            /\ r.op \in {"b", "m"} /\ r.addr \in Modules
    BY <1>1 DEF f
  <1>2. CASE f.ret = "unwind_trace" /\ f.fn \in Allocators
    <2>1. r.op = "a" /\ r.addr = f.res /\ Held(f) = f.res /\ f.res # NULL
      BY <1>0, <1>w, <1>2 DEF Opcode, Block, Held, Result, Allocators, Loaders, BlockOK
    <2>2. f.res \notin Traced(fifo)
      BY <1>0, <1>2 DEF BlockOK, Announced, Printing
    <2> QED BY <1>0, <1>2, <2>1, <2>2
  <1>3. CASE f.ret = "unwind_trace" /\ f.fn = "free"
    <2>1. r.op = "f" /\ r.addr = f.arg /\ Held(f) = f.arg
      BY <1>w, <1>3 DEF Opcode, Block, Held, Loaders
    <2>2. f.arg # NULL /\ f.arg \in Traced(fifo)
      BY <1>0, <1>3 DEF BlockOK, Retracted, Announced, Printing, GuardedPcs
    <2> QED BY <1>0, <1>3, <2>1, <2>2
  <1>4. CASE f.ret # "unwind_trace"
    BY <1>w, <1>4
  <1> QED BY <1>1, <1>2, <1>3, <1>4

\* What the log shows of the others' blocks stays as it is.
LEMMA WriteKeepsBlocks ==
  ASSUME ThreadsInv, NEW x \in Activations, BlockOK(frame[x]), Step(x),
         NEW r \in FifoRecords, Writes(x, r), NEW y \in Activations, BlockOK(frame[y])
  PROVE  BlockOK(frame[y])' /\ Held(frame'[y]) = Held(frame[y])
  <1> DEFINE f == frame[x]
             g == frame'[x]
             h == frame[y]
  <1>0. /\ TypeInv /\ UnwindInv /\ CallOK(f) /\ CallOK(h) /\ f.pc = "fprintf_write"
        /\ fifo \in Seq(FifoRecords) /\ fifo' = Append(fifo, r)
    BY DEF ThreadsInv, TypeInv, TypeOK, CallsOK, Writes, FifoRecords
  <1>1. Traced(fifo') = IF r.op = "a" THEN Traced(fifo) \cup {r.addr}
                        ELSE IF r.op = "f" THEN Traced(fifo) \ {r.addr}
                        ELSE Traced(fifo)
    BY <1>0, TracedAppend
  <1>2. /\ r.op \in {"a", "f"} => f.ret = "unwind_trace" /\ r.addr = Held(f)
        /\ r.op = "a" => f.fn \in Allocators /\ r.addr = f.res
        /\ r.op = "f" => f.fn = "free" /\ r.addr = f.arg /\ r.addr \in Addrs
        /\ r.op \notin {"a", "f"} => f.ret # "unwind_trace"
        /\ f.fn \in Allocators \cup {"free"}
    BY WrittenBlock
  <1>3. /\ g.fn = f.fn /\ g.arg = f.arg /\ g.res = f.res /\ g.zero = f.zero
        /\ \/ f.ret = "unwind_trace" /\ g.pc = "unwind_trace"
           \/ g.ret = f.ret /\ f.ret = "unwind_unlock" /\ g.pc \in {"fprintf_lock", "unwind_unlock"}
           \/ g.ret = f.ret /\ f.ret = "update_unlock" /\ g.pc \in {"fprintf_lock", "update_unlock"}
    BY DEF Writes, SameCall
  <1>4. CASE y # x
    <2>1. frame'[y] = h /\ (Held(h) = NULL \/ Held(h) # Held(f))
      BY <1>0, <1>4, OneFrame DEF ThreadsInv, HeldInv
    <2>2. h.fn \in Allocators /\ h.pc # "libc" => Held(h) = h.res
      BY DEF Held, Result, Allocators, Loaders
    <2>3. h.fn = "free" => Held(h) = h.arg
      BY DEF Held, Loaders
    <2>4. \A a : a # Held(f) => (a \in Traced(fifo') <=> a \in Traced(fifo))
      BY <1>1, <1>2
    <2> HIDE DEF f, h
    <2>5. BlockOK(h)
      BY DEF h
    <2>6. /\ h.fn \in Allocators /\ h.pc # "libc" =>
                 h.res # NULL /\ (~Announced(h) => h.res \notin Traced(fifo'))
          /\ h.fn = "free" =>
                 /\ h.arg # NULL => (h.arg \in Traced(fifo') <=> ~Retracted(h))
                 /\ h.pc \in GuardedPcs \ {"unguard"} => h.arg # NULL
      BY <2>1, <2>2, <2>3, <2>4, <2>5 DEF BlockOK
    <2>7. BlockOK(frame[y])'
      BY <2>1, <2>5, <2>6 DEF BlockOK, Retracted, Announced, Printing
    <2> QED BY <2>1, <2>7 DEF h
  <1>5. CASE y = x
    <2>0. BlockOK(f)
      OBVIOUS
    <2> HIDE DEF f, g
    <2>1. Held(g) = Held(f)
      BY <1>0, <1>3 DEF Held, Result
    <2>2. CASE f.ret = "unwind_trace" /\ f.fn \in Allocators
      <3>1. Announced(g) /\ f.res # NULL /\ g.fn \notin {"free", "realloc"}
        BY <1>0, <1>3, <2>0, <2>2 DEF Announced, BlockOK, Allocators
      <3>2. BlockOK(frame[x])'
        BY <1>3, <3>1 DEF BlockOK, Announced, Printing, g
      <3> QED BY <1>5, <2>1, <3>2 DEF f, g
    <2>3. CASE f.ret = "unwind_trace" /\ f.fn = "free"
      <3>1. Retracted(g) /\ f.arg # NULL /\ g.fn = "free" /\ g.pc = "unwind_trace"
        BY <1>0, <1>3, <2>0, <2>3 DEF Retracted, Announced, BlockOK, GuardedPcs
      <3>2. g.arg \notin Traced(fifo')
        <4>1. r.op = "f"
          BY <1>2, <2>3 DEF Allocators
        <4> QED BY <1>1, <1>2, <1>3, <4>1
      <3>3. BlockOK(frame[x])'
        BY <1>3, <3>1, <3>2 DEF BlockOK, Retracted, Announced, Printing, Allocators, g
      <3> QED BY <1>5, <2>1, <3>3 DEF f, g
    <2>4. CASE f.ret # "unwind_trace"
      <3>1. Traced(fifo') = Traced(fifo)
        BY <1>1, <1>2, <2>4
      <3>2. (Announced(g) <=> Announced(f)) /\ (Retracted(g) <=> Retracted(f))
        BY <1>0, <1>3, <2>4 DEF Retracted, Announced, Printing
      <3>3. BlockOK(frame[x])'
        BY <1>0, <1>3, <2>0, <3>1, <3>2
           DEF BlockOK, Retracted, Announced, Printing, GuardedPcs, g
      <3> QED BY <1>5, <2>1, <3>3 DEF f, g
    <2> QED BY <1>2, <2>2, <2>3, <2>4
  <1> QED BY <1>4, <1>5

(***************************************************************************)
(* Each step is one of Profiler, or none.                                  *)
(***************************************************************************)
LEMMA SameCardinality == \A S : P!Cardinality(S) = Cardinality(S)
  BY DEF P!Cardinality, Cardinality

LEMMA SameOperators ==
    /\ \A recs : P!Lib!Traced(recs) = Traced(recs)
    /\ \A recs, i, j : P!Lib!IsOwnerOf(recs, i, j) <=> IsOwnerOf(recs, i, j)
  BY DEF P!Lib!Traced, Traced, P!Lib!IsOwnerOf, IsOwnerOf, P!Lib!IsBlock, IsBlock

LEMMA BacktraceFits ==
  ASSUME log \in Seq(LogRecords),
         IsFiniteSet(NewFrames(log)), Cardinality(NewFrames(log)) < MaxFrames
  PROVE  P!Room
  <1> SUFFICES ASSUME NEW i \in DOMAIN log, IsOwnerOf(log, Len(log) + 1, i)
               PROVE  Cardinality(P!Backtrace(i)) < MaxFrames
    BY SameCardinality, SameOperators DEF P!Room
  <1>1. Len(log) \in Nat /\ DOMAIN log = 1..Len(log)
    OBVIOUS
  <1>2. ASSUME NEW j \in P!Backtrace(i) PROVE j \in NewFrames(log)
    <2>1. j \in (i + 1)..Len(log) /\ log[j].op = "b"
      BY DEF P!Backtrace
    <2>2. ASSUME NEW k \in DOMAIN log, k >= j PROVE ~IsBlock(log[k])
      <3>1. i < k /\ k < Len(log) + 1
        BY <1>1, <2>1, <2>2
      <3> QED BY <3>1 DEF IsOwnerOf
    <2> QED BY <1>1, <2>1, <2>2 DEF NewFrames
  <1>3. P!Backtrace(i) \subseteq NewFrames(log)
    BY <1>2
  <1>4. /\ Cardinality(P!Backtrace(i)) <= Cardinality(NewFrames(log))
        /\ IsFiniteSet(P!Backtrace(i))
    BY <1>3, FS_Subset
  <1>5. Cardinality(P!Backtrace(i)) \in Nat /\ Cardinality(NewFrames(log)) \in Nat
    BY <1>4, FS_CardinalityType
  <1> QED BY <1>4, <1>5, BacktraceAssumption DEF MAX_BACKTRACE_COUNT

\* The record of a thread, before or during exit().
LEMMA WriteLifted ==
  ASSUME ThreadsInv, StageInv, SameBlocks, FramesInv, NEW x \in Activations,
         BlockOK(frame[x]), FprintfWrite(x), UNCHANGED <<unwind_mutex, preloadVars>>,
         Written, log # <<>>, ~closed, ~closed'
  PROVE  /\ P!LibWrite /\ SameBlocks'
         /\ log' \in Seq(LogRecords) /\ log' # <<>> /\ FreesKnown(log')
         /\ Traced(log') \subseteq Traced(log) \cup ({Held(frame[x])} \ {NULL})
         /\ Traced(log) \subseteq Traced(log') \cup {Held(frame[x])}
  <1>s. Step(x)
    BY DEF Step, TrackerStep
  <1>1. PICK r \in FifoRecords : Writes(x, r) /\ Shown(r) \in LogRecords
    BY WriteStep
  <1>2. /\ log \in Seq(LogRecords) /\ fifo \in Seq(FifoRecords) /\ UNCHANGED live
        /\ log' = Append(log, Shown(r)) /\ fifo' = Append(fifo, r)
        /\ x[1] \in Threads /\ r.thr = x[1] /\ NULL \notin Addrs
    BY <1>1, PreloadAssumption DEF StageInv, ThreadsInv, TypeInv, TypeOK, FifoRecords, Writes,
       preloadVars, heapVars, Activations
  <1>3. Shown(r) = [op |-> r.op, addr |-> r.addr, thr |-> x[1]]
    BY <1>2 DEF Shown
  <1>4. Traced(log) = Traced(fifo)
    BY DEF SameBlocks
  <1>5. /\ r.op \in {"a", "f"} => frame[x].ret = "unwind_trace" /\ r.addr = Held(frame[x])
                                  /\ r.addr \in Addrs \cap live
        /\ r.op = "a" => r.addr \notin Traced(log)
        /\ r.op = "f" => r.addr \in Traced(log)
        /\ r.op \notin {"a", "f"} => r.op \in {"b", "m"} /\ r.addr \in Modules
                                     /\ frame[x].ret # "unwind_trace"
    BY <1>1, <1>4, WrittenBlock
  <1>6. Traced(log') = IF r.op = "a" THEN Traced(log) \cup {r.addr}
                       ELSE IF r.op = "f" THEN Traced(log) \ {r.addr}
                       ELSE Traced(log)
    <2>1. Traced(Append(log, Shown(r)))
            = IF Shown(r).op = "a" THEN Traced(log) \cup {Shown(r).addr}
              ELSE IF Shown(r).op = "f" THEN Traced(log) \ {Shown(r).addr}
              ELSE Traced(log)
      BY <1>1, <1>2, TracedAppend
    <2> QED BY <1>2, <1>3, <2>1
  <1>7. Traced(fifo') = IF r.op = "a" THEN Traced(fifo) \cup {r.addr}
                        ELSE IF r.op = "f" THEN Traced(fifo) \ {r.addr}
                        ELSE Traced(fifo)
    BY <1>2, TracedAppend
  <1>8. SameBlocks'
    <2>1. ASSUME NEW t \in Threads, HasOwner(fifo', t) PROVE HasOwner(log', t)
      <3>1. IF IsBlock(r) THEN r.thr = t ELSE HasOwner(fifo, t)
        BY <1>2, <2>1, OwnerBefore
      <3>2. /\ ~IsBlock(Shown(r)) /\ HasOwner(log, t) => HasOwner(Append(log, Shown(r)), t)
            /\ IsBlock(Shown(r)) /\ Shown(r).thr = t => HasOwner(Append(log, Shown(r)), t)
        BY <1>1, <1>2, OwnerAppend
      <3>3. (IsBlock(Shown(r)) <=> IsBlock(r)) /\ Shown(r).thr = r.thr
        BY DEF Shown, IsBlock
      <3> QED BY <1>2, <3>1, <3>2, <3>3 DEF SameBlocks
    <2> QED BY <1>4, <1>6, <1>7, <2>1 DEF SameBlocks
  <1>9. log' \in Seq(LogRecords) /\ log' # <<>> /\ FreesKnown(log')
    <2>1. Append(log, Shown(r)) \in Seq(LogRecords) /\ Append(log, Shown(r)) # <<>>
      BY <1>1, <1>2
    <2>2. FreesKnown(Append(log, Shown(r)))
      BY <1>1, <1>2, <1>3, <1>5, FreesKnownAppend DEF StageInv
    <2> QED BY <1>2, <2>1, <2>2
  <1>10. P!LibWrite
    <2>1. P!Lib!Next
      <3>0. /\ \A op, addr, t : P!Lib!Log(op, addr, t)
                   <=> log' = Append(log, [op |-> op, addr |-> addr, thr |-> t])
            /\ log' = Append(log, [op |-> r.op, addr |-> r.addr, thr |-> x[1]])
        BY <1>2, <1>3 DEF P!Lib!Log
      <3>1. CASE r.op = "a"
        <4>1. P!Lib!LogAlloc(r.addr, x[1])
          BY <1>2, <1>5, <3>0, <3>1, SameOperators DEF P!Lib!LogAlloc
        <4> QED BY <1>2, <1>5, <3>1, <4>1 DEF P!Lib!Next
      <3>2. CASE r.op = "f"
        <4>1. P!Lib!LogFree(r.addr, x[1])
          BY <1>2, <1>5, <3>0, <3>2, SameOperators DEF P!Lib!LogFree
        <4> QED BY <1>2, <1>5, <3>2, <4>1 DEF P!Lib!Next
      <3>3. CASE r.op = "m"
        <4>1. P!Lib!LogModule(r.addr, x[1])
          BY <1>2, <3>0, <3>3 DEF P!Lib!LogModule
        <4> QED BY <1>2, <1>5, <3>3, <4>1 DEF P!Lib!Next
      <3>4. CASE r.op = "b"
        <4>1. HasOwner(fifo, x[1])
          <5>1. Printing(frame[x]) /\ frame[x].ret = "unwind_unlock"
            BY <1>1, <1>5, <3>4 DEF Writes, Printing
          <5> QED BY <5>1 DEF ThreadsInv, UnwindInv
        <4>2. PICK j \in DOMAIN log : IsOwnerOf(log, Len(log) + 1, j) /\ log[j].thr = x[1]
          BY <1>2, <4>1 DEF SameBlocks, HasOwner
        <4>3. P!Lib!LogFrame(r.addr, x[1])
          BY <1>2, <3>0, <3>4, <4>2, SameOperators DEF P!Lib!LogFrame
        <4> QED BY <1>2, <1>5, <3>4, <4>3 DEF P!Lib!Next
      <3> QED BY <1>5, <3>1, <3>2, <3>3, <3>4
    <2>2. log'[Len(log')].op = "b" => P!Room
      <3>1. log'[Len(log')] = Shown(r)
        BY <1>1, <1>2
      <3>2. r.op = "b" => IsFiniteSet(NewFrames(log)) /\ Cardinality(NewFrames(log)) < MaxFrames
        BY <1>1, <1>2, <1>s, FramesStep
      <3> QED BY <1>2, <3>1, <3>2, BacktraceFits DEF Shown
    <2> QED BY <2>1, <2>2 DEF P!LibWrite
  <1>11. /\ Traced(log') \subseteq Traced(log) \cup ({Held(frame[x])} \ {NULL})
         /\ Traced(log) \subseteq Traced(log') \cup {Held(frame[x])}
    BY <1>2, <1>5, <1>6
  <1> QED BY <1>8, <1>9, <1>10, <1>11

\* exit() has ended the logging, so that no call enters the part between the guards.
LEMMA NoneBegins ==
  ASSUME ThreadsInv, ~is_initialized, NEW x \in Activations, Call(x) \/ Step(x),
         ~FprintfWrite(x), frame'[x].pc \in GuardedPcs
  PROVE  /\ frame[x].pc \in GuardedPcs
         /\ BlockOK(frame[x]) => BlockOK(frame[x])'
         /\ Held(frame'[x]) = Held(frame[x])
  <1> DEFINE f == frame[x]
             g == frame'[x]
  <1> TypeInv /\ UnwindInv /\ KindOK(x) /\ CallOK(f)
    BY DEF ThreadsInv, CallsOK
  <1>0. /\ f.pc \in GuardedPcs \/ f.pc \in LoaderPcs => ~(f.pc \in GuardedPcs /\ f.pc \in LoaderPcs)
        /\ g.pc \in GuardedPcs
    BY DEF GuardedPcs, LoaderPcs
  <1> HIDE DEF f, g
  <1>1. CASE \/ TrackerStep(x) /\ ~FprintfWrite(x) /\ UNCHANGED <<unwind_mutex, preloadVars>>
             \/ BacktraceStep(x) /\ UNCHANGED preloadVars
    <2>1. /\ SameCall(x)
          /\ \/ f.pc \in GuardedPcs /\ g.pc \in GuardedPcs
             \/ f.pc \in LoaderPcs  /\ g.pc \in LoaderPcs
      BY <1>1, TracingStep DEF f, g
    <2>2. f.pc \in GuardedPcs
      BY <1>0, <2>1 DEF GuardedPcs, LoaderPcs
    <2>3. fifo' = fifo /\ (Announced(g) <=> Announced(f))
      BY <1>1, AnnouncedStep DEF f, g
    <2>4. g.fn = f.fn /\ g.arg = f.arg /\ g.res = f.res /\ g.zero = f.zero
      BY <2>1 DEF SameCall, f, g
    <2>5. f.pc \notin {"libc", "libc_free", "unguard"} /\ g.pc \notin {"libc", "libc_free"}
      <3>1. f.pc # "unguard"
        BY <1>1 DEF TrackerStep, FprintfLock, FprintfWrite, SetDirtyTrylock, SetDirtyStore,
           UpdateTrylock, UpdateCheck, UpdateIterate, UpdateUnlock, BacktraceStep,
           UnwindLock, UnwindSize, UnwindTrace, UnwindUnlock, At, f
      <3> QED BY <1>0, <2>2, <3>1 DEF GuardedPcs
    <2>6. BlockOK(f) => BlockOK(frame[x])'
      BY <2>2, <2>3, <2>4, <2>5 DEF BlockOK, Retracted, Announced, Printing, g
    <2>7. Held(g) = Held(f)
      BY <2>4, <2>5 DEF Held, Result
    <2> QED BY <2>2, <2>6, <2>7 DEF f, g
  <1>2. CASE Call(x)
    <2>1. PICK fn, arg, zero : Begin(x, fn, arg, zero)
      BY <1>2 DEF Call, Allocate, Reallocate, Free, Load, Fork
    <2>2. g.pc \in {"guard", "fork_prepare", "libc"}
      BY <2>1, BegunLocals DEF g
    <2> QED BY <1>0, <2>2 DEF GuardedPcs
  <1>3. CASE LibcAlloc(x) \/ LibcRealloc(x)
    <2>1. g.pc = "guard"
      BY <1>3, NextPc DEF LibcAlloc, LibcRealloc, g
    <2> QED BY <1>0, <2>1 DEF GuardedPcs
  <1>4. CASE LibcFree(x) \/ LoaderReturn(x) \/ ForkParent(x)
    <2>1. g.pc = "idle"
      BY <1>4, NextPc DEF LibcFree, LoaderReturn, ForkParent, g
    <2> QED BY <1>0, <2>1 DEF GuardedPcs
  <1>5. CASE LibcDlopen(x) \/ LibcDlclose(x) \/ LoadFailed(x) \/ ForkPrepare(x)
    <2>1. g.pc \in {"set_dirty", "return", "fork_parent"}
      BY <1>5, NextPc DEF LibcDlopen, LibcDlclose, LoadFailed, ForkPrepare, g
    <2> QED BY <1>0, <2>1 DEF GuardedPcs
  <1>6. CASE Guard(x) \/ Unguard(x)
    <2>1. Return(x) \/ Goto(x, "libc_free")
      BY <1>6 DEF Guard, Unguard, MustLog, Leave
    <2>2. g.pc \in {"idle", "libc_free"}
      BY <2>1, NextPc DEF g
    <2> QED BY <1>0, <2>2 DEF GuardedPcs
  <1> QED BY <1>1, <1>2, <1>3, <1>4, <1>5, <1>6 DEF Step, TrackerStep

\* Nothing but a fork and the exit handler turns the logging on or off.
LEMMA LoggingKept ==
  ASSUME ThreadsInv, NEW x \in Activations, Call(x) \/ Step(x)
  PROVE  is_initialized' = is_initialized
  <1>1. /\ frame[x].fn # "fork"
        /\ frame[x].pc \in ForkPcs => frame[x].fn = "fork"
    BY DEF ThreadsInv, KindOK, CallsOK, CallOK
  <1>2. ~ForkPrepare(x) /\ ~ForkParent(x)
    BY <1>1 DEF ForkPrepare, ForkParent, At, ForkPcs
  <1> QED BY <1>2 DEF Step, Call, LibcAlloc, LibcRealloc, LibcFree, LibcDlopen, LibcDlclose,
          LoadFailed, LoaderReturn, LoaderUnchanged, Guard, Unguard, preloadVars

LEMMA LibraryStep ==
  ASSUME NothingFails, LibraryInv, ShownInv, NEW x \in Activations, Call(x) \/ Step(x)
  PROVE  LibraryInv' /\ ShownInv' /\ [Trace!Next]_<<live, ShownLog>>
  <1>0. "fork" \notin ProgramFns /\ [Next]_vars
    BY DEF NothingFails, Next
  <1>1. TypeInv' /\ Nested' /\ UnwindInv' /\ CallsOK' /\ HeldInv'
    BY <1>0, NextTypeInv, NestedStep, UnwindStep, CallsOKStep, HeldStep DEF LibraryInv
  <1>2. GuardInv' /\ TracedInv'
    BY <1>0, GuardStep, TracedStep DEF LibraryInv
  <1>3. BlocksInv' /\ [Trace!Next]_<<live, ShownLog>>
    BY <1>0, TraceStep
  <1> QED BY <1>1, <1>2, <1>3, ShownStep DEF LibraryInv

\* A step that writes nothing is of the C library, or of no one.
LEMMA QuietLifted ==
  ASSUME TypeInv, SameBlocks, ~closed, log # <<>>,
         [Trace!Next]_<<live, ShownLog>>, ShownLog' = ShownLog, log' = log
  PROVE  live' = live \/ P!LibWrite
  <1>1. CASE live' = live
    BY <1>1
  <1>2. CASE Trace!Next
    <2>1. \A r : Append(ShownLog, r) # ShownLog
      <3> TAKE r
      <3>0. Len(fifo) \in Nat
        BY DEF TypeInv, TypeOK
      <3>1. ShownLog = [i \in 1..Len(fifo) |-> Shown(fifo[i])]
        BY <3>0 DEF TypeInv, TypeOK, ShownLog, Shown
      <3>2. Len(ShownLog) = Len(fifo) /\ Len(Append(ShownLog, r)) = Len(fifo) + 1
        BY <3>0, <3>1
      <3>3. Len(Append(ShownLog, r)) # Len(ShownLog)
        BY <3>0, <3>2
      <3> QED BY <3>3, Zenon
    <2>2. \E a \in Addrs : Trace!Allocate(a) \/ Trace!Release(a)
      BY <1>2, <2>1 DEF Trace!Next, Trace!LogAlloc, Trace!LogFree, Trace!LogModule,
                        Trace!LogFrame, Trace!Log
    <2>3. Trace!Traced(ShownLog) = Traced(log)
      BY ShownTraced DEF SameBlocks
    <2>4. \E a \in Addrs : P!Lib!Allocate(a) \/ P!Lib!Release(a)
      BY <2>2, <2>3, SameOperators
         DEF Trace!Allocate, Trace!Release, P!Lib!Allocate, P!Lib!Release
    <2> QED BY <2>4 DEF P!LibWrite, P!Lib!Next
  <1> QED BY <1>1, <1>2

\* A record is written by a step that changes nothing else.
LEMMA WriteOnly ==
  ASSUME NEW x \in Activations, Call(x) \/ Step(x), FprintfWrite(x)
  PROVE  Step(x) /\ UNCHANGED <<unwind_mutex, preloadVars>>
  <1>1. frame[x].pc = "fprintf_write"
    BY DEF FprintfWrite, At
  <1>2. Step(x) /\ TrackerStep(x)
    BY <1>1 DEF Call, Step, TrackerStep, BacktraceStep, UnwindLock, UnwindSize, UnwindTrace,
       UnwindUnlock, LibcAlloc, LibcRealloc, LibcFree, LibcDlopen, LibcDlclose, LoadFailed,
       LoaderReturn, Guard, Unguard, ForkPrepare, ForkParent, At
  <1> QED BY <1>1, <1>2 DEF Step, BacktraceStep, UnwindLock, UnwindSize, UnwindTrace,
       UnwindUnlock, LibcAlloc, LibcRealloc, LibcFree, LibcDlopen, LibcDlclose, LoadFailed,
       LoaderReturn, Guard, Unguard, ForkPrepare, ForkParent, At

\* What a step of a thread is to the two logs, to Profiler and to exit().
RunKeeps(x) ==
    /\ Call(x) \/ Step(x)
    /\ Written /\ log # <<>> /\ ~over
    /\ UNCHANGED <<closed, over, atExit, readerVars, is_initialized>>
    /\ is_initialized => ~closed
    /\ (Call(x) /\ log' = log) \/ Step(x)

LEMMA RunStarts ==
  ASSUME JmprofInv, NEW x \in Activations, Calling(x) \/ Running(x)
  PROVE  RunKeeps(x)
  <1> ThreadsInv /\ StageInv /\ TypeInv /\ UnwindInv
    BY DEF JmprofInv, ThreadsInv
  <1>1. /\ (Call(x) /\ log' = log) \/ (Step(x) /\ Written)
        /\ log # <<>> /\ ~over /\ UNCHANGED <<closed, over, atExit, readerVars>>
    BY DEF Calling, Running, Alive
  <1>2. Call(x) => fifo' = fifo
    <2>1. ~(Call(x) /\ FprintfWrite(x))
      BY DEF Call, FprintfWrite, At
    <2> QED BY <2>1, QuietLog
  <1>3. is_initialized' = is_initialized
    BY <1>1, LoggingKept
  <1> QED BY <1>1, <1>2, <1>3 DEF RunKeeps, Written, StageInv

LEMMA RunWrites ==
  ASSUME NothingFails, JmprofInv, NEW x \in Activations, RunKeeps(x),
         FprintfWrite(x), ~closed
  PROVE  /\ P!LibWrite /\ SameBlocks' /\ StageInv' /\ ExitInv' /\ LeakInv'
  <1> /\ ThreadsInv /\ StageInv /\ SameBlocks /\ FramesInv /\ LoggingInv /\ ExitInv /\ LeakInv
    BY DEF JmprofInv
  <1>0. /\ Step(x) /\ UNCHANGED <<unwind_mutex, preloadVars>> /\ Written /\ log # <<>>
        /\ UNCHANGED <<closed, over, atExit, readerVars, is_initialized>> /\ ~closed'
    BY WriteOnly DEF RunKeeps
  <1>1. frame[x].pc = "fprintf_write" /\ frame[x].pc \in GuardedPcs
    BY DEF FprintfWrite, At, GuardedPcs
  <1>2. BlockOK(frame[x])
    <2>1. CASE is_initialized
      BY <2>1 DEF LoggingInv, LibraryInv, BlocksInv
    <2>2. CASE ~is_initialized
      BY <1>1, <2>2 DEF ExitInv, Finishing
    <2> QED BY <2>1, <2>2
  <1>3. /\ P!LibWrite /\ SameBlocks'
        /\ log' \in Seq(LogRecords) /\ log' # <<>> /\ FreesKnown(log')
        /\ Traced(log') \subseteq Traced(log) \cup ({Held(frame[x])} \ {NULL})
        /\ Traced(log) \subseteq Traced(log') \cup {Held(frame[x])}
    BY <1>0, <1>2, WriteLifted
  <1>4. StageInv'
    BY <1>0, <1>3 DEF StageInv
  <1>5. ExitInv'
    <2> SUFFICES ASSUME ~is_initialized, NEW y \in Activations, frame'[y].pc \in GuardedPcs
                 PROVE  Finishing(y)'
      BY <1>0 DEF ExitInv
    <2>1. frame[y].pc \in GuardedPcs
      <3>1. CASE y = x
        BY <1>1, <3>1
      <3>2. CASE y # x
        BY <1>0, <3>2, OneFrame DEF ThreadsInv
      <3> QED BY <3>1, <3>2
    <2>2. Finishing(y)
      BY <2>1 DEF ExitInv
    <2>3. PICK r \in FifoRecords : Writes(x, r)
      BY <1>0, WriteStep
    <2>4. BlockOK(frame[y])' /\ Held(frame'[y]) = Held(frame[y])
      BY <1>0, <1>2, <2>2, <2>3, WriteKeepsBlocks DEF Finishing
    <2> QED BY <1>0, <2>2, <2>4 DEF Finishing
  <1>6. LeakInv'
    <2> SUFFICES ASSUME ~is_initialized
                 PROVE  /\ atExit.held \subseteq Traced(log')
                        /\ Traced(log') \subseteq atExit.held \cup atExit.inHand
      BY <1>0 DEF LeakInv
    <2>1. Finishing(x) /\ atExit.held \subseteq Traced(log)
          /\ Traced(log) \subseteq atExit.held \cup atExit.inHand
      BY <1>1 DEF ExitInv, LeakInv
    <2> QED BY <1>3, <2>1 DEF Finishing
  <1> QED BY <1>3, <1>4, <1>5, <1>6

LEMMA RunQuiet ==
  ASSUME NothingFails, JmprofInv, NEW x \in Activations, RunKeeps(x),
         ~FprintfWrite(x) \/ closed
  PROVE  log' = log /\ SameBlocks' /\ StageInv' /\ ExitInv' /\ LeakInv'
  <1> /\ ThreadsInv /\ StageInv /\ SameBlocks /\ ExitInv /\ LeakInv /\ TypeInv /\ UnwindInv
    BY DEF JmprofInv, ThreadsInv
  <1>0. /\ Call(x) \/ Step(x)
        /\ UNCHANGED <<closed, over, atExit, is_initialized>> /\ log # <<>>
    BY DEF RunKeeps
  <1>1. log' = log /\ (~closed => fifo' = fifo)
    BY <1>0, QuietLog DEF RunKeeps, Written
  <1>2. SameBlocks'
    BY <1>0, <1>1 DEF SameBlocks
  <1>3. StageInv'
    BY <1>0, <1>1 DEF StageInv
  <1>4. ExitInv'
    <2> SUFFICES ASSUME ~is_initialized, ~closed, NEW y \in Activations,
                        frame'[y].pc \in GuardedPcs
                 PROVE  Finishing(y)'
      BY <1>0 DEF ExitInv
    <2>1. CASE y = x
      <3>1. /\ frame[x].pc \in GuardedPcs
            /\ BlockOK(frame[x]) => BlockOK(frame[x])'
            /\ Held(frame'[x]) = Held(frame[x])
        BY <1>0, <2>1, NoneBegins
      <3> QED BY <1>0, <2>1, <3>1 DEF ExitInv, Finishing
    <2>2. CASE y # x
      <3>1. frame'[y] = frame[y] /\ fifo' = fifo
        BY <1>0, <1>1, <2>2, OneFrame
      <3>2. Finishing(y)
        BY <3>1 DEF ExitInv
      <3> QED BY <1>0, <3>1, <3>2 DEF Finishing, BlockOK, Retracted, Announced, Printing
    <2> QED BY <2>1, <2>2
  <1>5. LeakInv'
    BY <1>0, <1>1 DEF LeakInv
  <1> QED BY <1>1, <1>2, <1>3, <1>4, <1>5

LEMMA RunStep ==
  ASSUME NothingFails, JmprofInv, NEW x \in Activations, Calling(x) \/ Running(x)
  PROVE  JmprofInv' /\ [P!Next]_(P!vars)
  <1> /\ ThreadsInv /\ StageInv /\ SameBlocks /\ FramesInv /\ LoggingInv /\ TypeInv
    BY DEF JmprofInv, ThreadsInv
  <1>0. RunKeeps(x)
    BY RunStarts
  <1>1. /\ Call(x) \/ Step(x)
        /\ UNCHANGED <<closed, over, atExit, readerVars, is_initialized>> /\ log # <<>>
        /\ is_initialized => ~closed
        /\ closed \in BOOLEAN
    BY <1>0 DEF RunKeeps, StageInv
  <1>2. ThreadsInv'
    BY <1>1, ThreadsStep
  <1>3. is_initialized => LibraryInv' /\ ShownInv' /\ [Trace!Next]_<<live, ShownLog>>
    BY <1>1, LibraryStep DEF LoggingInv
  <1>4. LoggingInv'
    BY <1>1, <1>3 DEF LoggingInv
  <1>5. FramesInv'
    <2>1. CASE ~closed
      BY <1>0, <1>1, <2>1, FramesStep DEF RunKeeps, StageInv
    <2>2. CASE closed
      BY <1>1, <2>2 DEF FramesInv
    <2> QED BY <2>1, <2>2
  <1>6. UNCHANGED P!readerVars
    BY <1>1 DEF P!readerVars, readerVars
  <1>7. CASE FprintfWrite(x) /\ ~closed
    <2>1. P!LibWrite /\ SameBlocks' /\ StageInv' /\ ExitInv' /\ LeakInv'
      BY <1>0, <1>7, RunWrites
    <2>2. P!Next
      BY <1>1, <1>6, <1>7, <2>1 DEF P!Next, P!Program
    <2> QED BY <1>2, <1>4, <1>5, <2>1, <2>2 DEF JmprofInv
  <1>8. CASE ~FprintfWrite(x) \/ closed
    <2>1. log' = log /\ SameBlocks' /\ StageInv' /\ ExitInv' /\ LeakInv'
      BY <1>0, <1>8, RunQuiet
    <2>2. CASE is_initialized
      <3>1. ~closed /\ ShownLog' = ShownLog
        BY <1>1, <1>8, <2>2, QuietLog DEF ThreadsInv
      <3>2. live' = live \/ P!LibWrite
        BY <1>1, <1>3, <2>1, <2>2, <3>1, QuietLifted
      <3>3. live' = live => UNCHANGED P!vars
        BY <1>1, <2>1 DEF P!vars, P!readerVars, readerVars
      <3>4. P!LibWrite => P!Next
        BY <1>1, <1>6, <3>1 DEF P!Next, P!Program
      <3>5. [P!Next]_(P!vars)
        BY <3>2, <3>3, <3>4
      <3> QED BY <1>2, <1>4, <1>5, <2>1, <3>5 DEF JmprofInv
    <2>3. CASE ~is_initialized
      <3>1. live' \in SUBSET Addrs
        BY <1>2 DEF ThreadsInv, TypeInv, TypeOK
      <3>2. P!LibUnlogged
        BY <2>1, <2>3, <3>1 DEF P!LibUnlogged
      <3>3. P!Next
        BY <1>1, <1>6, <3>2 DEF P!Next, P!Program
      <3> QED BY <1>2, <1>4, <1>5, <2>1, <3>3 DEF JmprofInv
    <2> QED BY <2>2, <2>3
  <1> QED BY <1>7, <1>8

(***************************************************************************)
(* The steps of the exit handlers, of the end and of the reader leave the  *)
(* threads where they are.                                                 *)
(***************************************************************************)
LEMMA ThreadsSame ==
  ASSUME ThreadsInv, UNCHANGED <<frame, trackerVars, unwind_mutex, heapVars, calls>>,
         is_initialized' \in BOOLEAN, guard' \in [Threads -> SUBSET Fns]
  PROVE  ThreadsInv' /\ fifo' = fifo /\ live' = live
  <1>1. UNCHANGED <<frame, is_dirty, is_dirty_mutex, tracker_fd_mutex, fifo, clock, loaded,
                    unwind_mutex, live, owned, calls>>
    BY DEF trackerVars, heapVars
  <1>2. TypeInv'
    BY <1>1 DEF ThreadsInv, TypeInv, TypeOK, FramesOK
  <1>3. Nested'
    BY <1>1 DEF ThreadsInv, Nested, At
  <1>4. UnwindInv'
    BY <1>1 DEF ThreadsInv, UnwindInv, BacktraceOfItsBlock, HasOwner, At
  <1>5. CallsOK' /\ HeldInv'
    BY <1>1 DEF ThreadsInv, CallsOK, HeldInv
  <1>6. \A x \in Activations : KindOK(x)'
    BY <1>1 DEF ThreadsInv, KindOK, ModulesOut, OutIsBlock
  <1> QED BY <1>1, <1>2, <1>3, <1>4, <1>5, <1>6 DEF ThreadsInv

LEMMA LibrarySame ==
  ASSUME UNCHANGED vars
  PROVE  /\ ThreadsInv => ThreadsInv'
         /\ LibraryInv => LibraryInv'
         /\ ShownInv => ShownInv'
         /\ UNCHANGED <<frame, fifo, live, owned, is_initialized>>
  <1>1. UNCHANGED <<frame, is_dirty, is_dirty_mutex, tracker_fd_mutex, fifo, clock, loaded,
                    unwind_mutex, live, owned, calls, is_initialized, guard>>
    BY DEF vars, preloadVars, trackerVars, heapVars
  <1>2. ThreadsInv => ThreadsInv'
    BY <1>1, ThreadsSame DEF trackerVars, heapVars, ThreadsInv, TypeInv, TypeOK
  <1>3. ASSUME LibraryInv PROVE LibraryInv'
    <2>1. TypeInv' /\ Nested' /\ UnwindInv' /\ CallsOK' /\ HeldInv'
      BY <1>1, <1>3 DEF LibraryInv, TypeInv, TypeOK, FramesOK, Nested, UnwindInv,
         BacktraceOfItsBlock, HasOwner, CallsOK, HeldInv, At
    <2>2. GuardInv' /\ TracedInv' /\ BlocksInv'
      BY <1>1, <1>3 DEF LibraryInv, GuardInv, TracedInv, OwnedTraced, ResultTraced, OutIsBlock,
         BlocksInv, BlockOK, ModulesOut
    <2> QED BY <2>1, <2>2 DEF LibraryInv
  <1>4. ShownInv => ShownInv'
    BY <1>1 DEF ShownInv, InHand, At
  <1> QED BY <1>1, <1>2, <1>3, <1>4

\* The invariants of a step that leaves the library alone.
LEMMA InvariantsSame ==
  ASSUME JmprofInv, UNCHANGED <<vars, atExit>>, closed' = closed \/ closed' = TRUE,
         NewFrames(log') = NewFrames(log), Traced(log') = Traced(log),
         \A t \in Threads : HasOwner(log, t) => HasOwner(log', t),
         StageInv', ~is_initialized \/ closed' = closed
  PROVE  JmprofInv'
  <1> /\ ThreadsInv /\ StageInv /\ SameBlocks /\ FramesInv /\ LoggingInv /\ ExitInv /\ LeakInv
    BY DEF JmprofInv
  <1>1. /\ ThreadsInv' /\ (LibraryInv => LibraryInv') /\ (ShownInv => ShownInv')
        /\ UNCHANGED <<frame, fifo, live, owned, is_initialized, atExit>>
    BY LibrarySame
  <1>2. SameBlocks'
    BY <1>1 DEF SameBlocks
  <1>3. FramesInv' /\ LoggingInv'
    BY <1>1, FramesKept DEF LoggingInv
  <1>4. ExitInv'
    BY <1>1 DEF ExitInv, Finishing, BlockOK
  <1>5. LeakInv'
    BY <1>1 DEF LeakInv
  <1> QED BY <1>1, <1>2, <1>3, <1>4, <1>5 DEF JmprofInv

\* When the logging ends, the log shows what the program has, and what it was about
\* to get or had just given back.
LEMMA BlocksAtExit ==
  ASSUME ThreadsInv, LibraryInv, ShownInv, Traced(log) = Traced(fifo)
  PROVE  /\ Blocks.held = owned
         /\ owned \subseteq Traced(log)
         /\ Traced(log) \subseteq Blocks.held \cup Blocks.inHand
         /\ \A x \in Activations : /\ Held(frame[x]) \in Blocks.inHand \cup {NULL}
                                   /\ Held(frame[x]) \notin owned
  <1>0. NULL \notin owned /\ NULL \notin Traced(fifo)
    BY PreloadAssumption DEF LibraryInv, BlocksInv, TypeInv, TypeOK
  <1>1. Blocks.held = owned /\ Blocks.inHand = {Holds(x) : x \in Activations}
    BY DEF Blocks
  <1>2. ASSUME NEW x \in Activations PROVE Held(frame[x]) \in {Holds(x), NULL}
    <2>1. frame[x].fn # "realloc"
      BY DEF ThreadsInv, KindOK
    <2> QED BY <2>1 DEF Held, Holds, Block, Result, At
  <1>3. \A x \in Activations : Held(frame[x]) \in Blocks.inHand \cup {NULL}
    BY <1>1, <1>2
  <1>4. \A x \in Activations : Held(frame[x]) \notin owned
    BY <1>0 DEF ThreadsInv, HeldInv
  <1>5. owned \subseteq Traced(log)
    BY DEF LibraryInv, TracedInv, OwnedTraced
  <1>6. Traced(log) \subseteq Blocks.held \cup Blocks.inHand
    BY <1>0, <1>1, <1>3 DEF ShownInv, InHand
  <1> QED BY <1>1, <1>3, <1>4, <1>5, <1>6

LEMMA OpenStep ==
  ASSUME JmprofInv, Open
  PROVE  JmprofInv' /\ [P!Next]_(P!vars)
  <1> StageInv
    BY DEF JmprofInv
  <1>0. /\ log = <<>> /\ log' = Append(log, NoThread("x")) /\ log' = <<NoThread("x")>>
        /\ UNCHANGED <<vars, closed, over, atExit, readerVars>>
        /\ ~closed /\ closed \in BOOLEAN
    BY DEF Open, exitVars, StageInv
  <1>1. UNCHANGED <<frame, fifo, live, owned, is_initialized>>
    BY <1>0, LibrarySame
  <1>2. /\ log' \in Seq(LogRecords) /\ log' # <<>> /\ Traced(log') = Traced(log)
        /\ \A t : HasOwner(log, t) => HasOwner(log', t)
        /\ NewFrames(log') = NewFrames(log) /\ FreesKnown(log')
    BY <1>0, OtherAppend DEF StageInv
  <1>3. StageInv'
    BY <1>0, <1>1, <1>2 DEF StageInv
  <1>4. JmprofInv'
    BY <1>0, <1>2, <1>3, InvariantsSame
  <1>5. P!LibOpen
    BY <1>0, <1>1 DEF P!LibOpen, P!Lib!Log, NoThread
  <1>6. P!Next
    BY <1>0, <1>1, <1>5 DEF P!Next, P!Program, P!readerVars, readerVars
  <1> QED BY <1>4, <1>6

LEMMA DeinitStep ==
  ASSUME JmprofInv, Deinit
  PROVE  JmprofInv' /\ [P!Next]_(P!vars)
  <1> ThreadsInv /\ StageInv /\ SameBlocks /\ FramesInv /\ LoggingInv
    BY DEF JmprofInv
  <1>0. /\ is_initialized /\ is_initialized' = FALSE /\ log # <<>> /\ ~over
        /\ guard' = [t \in Threads |-> {}]
        /\ UNCHANGED <<frame, trackerVars, unwind_mutex, heapVars, calls, log, closed, over,
                       readerVars>>
        /\ ~closed /\ closed \in BOOLEAN
        /\ atExit' = Blocks
    BY DEF Deinit, Alive, StageInv
  <1>1. LibraryInv /\ ShownInv
    BY <1>0 DEF LoggingInv
  <1>2. ThreadsInv' /\ fifo' = fifo /\ live' = live /\ frame' = frame
    BY <1>0, ThreadsSame
  <1>3. StageInv'
    BY <1>0, <1>2 DEF StageInv
  <1>4. SameBlocks' /\ FramesInv' /\ LoggingInv'
    BY <1>0, <1>2, FramesKept DEF SameBlocks, LoggingInv
  <1>5. /\ Blocks.held = owned /\ owned \subseteq Traced(log)
        /\ Traced(log) \subseteq Blocks.held \cup Blocks.inHand
        /\ \A x \in Activations : /\ Held(frame[x]) \in Blocks.inHand \cup {NULL}
                                  /\ Held(frame[x]) \notin owned
    BY <1>0, <1>1, BlocksAtExit DEF SameBlocks
  <1>6. LeakInv'
    BY <1>0, <1>5 DEF LeakInv
  <1>7. ExitInv'
    <2> SUFFICES ASSUME NEW x \in Activations PROVE Finishing(x)'
      BY DEF ExitInv
    <2>1. BlockOK(frame[x])
      BY <1>1 DEF LibraryInv, BlocksInv
    <2>2. BlockOK(frame[x])'
      BY <1>2, <2>1 DEF BlockOK
    <2>3. atExit'.held = owned /\ atExit'.inHand = Blocks.inHand
      BY <1>0, <1>5
    <2> QED BY <1>2, <1>5, <2>2, <2>3 DEF Finishing
  <1>8. P!LibExit
    BY <1>0, <1>2 DEF P!LibExit
  <1>9. P!Next
    BY <1>0, <1>8 DEF P!Next, P!Program, P!readerVars, readerVars
  <1> QED BY <1>2, <1>3, <1>4, <1>6, <1>7, <1>9 DEF JmprofInv

LEMMA RegionStep ==
  ASSUME JmprofInv, Region
  PROVE  JmprofInv' /\ [P!Next]_(P!vars)
  <1> StageInv
    BY DEF JmprofInv
  <1>0. /\ ~is_initialized /\ ~closed /\ closed \in BOOLEAN
        /\ log' = Append(log, NoThread("r"))
        /\ UNCHANGED <<vars, closed, over, atExit, readerVars>>
        /\ P!Cardinality(P!Reported) < MaxRegions
    BY SameCardinality DEF Region, Alive, StageInv
  <1>1. UNCHANGED <<frame, fifo, live, owned, is_initialized>>
    BY <1>0, LibrarySame
  <1>2. /\ log' \in Seq(LogRecords) /\ log' # <<>> /\ Traced(log') = Traced(log)
        /\ \A t : HasOwner(log, t) => HasOwner(log', t)
        /\ NewFrames(log') = NewFrames(log) /\ FreesKnown(log')
    BY <1>0, OtherAppend DEF StageInv
  <1>3. StageInv'
    BY <1>0, <1>1, <1>2 DEF StageInv
  <1>4. JmprofInv'
    BY <1>0, <1>2, <1>3, InvariantsSame
  <1>5. P!LibRegion
    BY <1>0, <1>1 DEF P!LibRegion, P!Lib!Log, NoThread
  <1>6. P!Next
    BY <1>0, <1>1, <1>5 DEF P!Next, P!Program, P!readerVars, readerVars
  <1> QED BY <1>4, <1>6

LEMMA CloseStep ==
  ASSUME JmprofInv, Close
  PROVE  JmprofInv' /\ [P!Next]_(P!vars)
  <1> StageInv
    BY DEF JmprofInv
  <1>0. /\ ~is_initialized /\ ~closed /\ closed' = TRUE /\ log # <<>>
        /\ UNCHANGED <<vars, log, over, atExit, readerVars>>
    BY DEF Close, Alive, StageInv
  <1>1. UNCHANGED <<frame, fifo, live, owned, is_initialized>>
    BY <1>0, LibrarySame
  <1>2. StageInv'
    BY <1>0, <1>1 DEF StageInv
  <1>3. JmprofInv'
    BY <1>0, <1>2, InvariantsSame
  <1>4. P!LibClose
    BY <1>0, <1>1 DEF P!LibClose
  <1>5. P!Next
    BY <1>0, <1>1, <1>4 DEF P!Next, P!Program, P!readerVars, readerVars
  <1> QED BY <1>3, <1>5

LEMMA EndStep ==
  ASSUME JmprofInv, End
  PROVE  JmprofInv' /\ [P!Next]_(P!vars)
  <1> ThreadsInv /\ StageInv /\ SameBlocks /\ FramesInv /\ LoggingInv /\ LeakInv
    BY DEF JmprofInv
  <1>0. /\ closed' = TRUE /\ over' = TRUE /\ log # <<>> /\ ~over
        /\ UNCHANGED <<vars, log, readerVars>>
        /\ atExit' = IF is_initialized THEN Blocks ELSE atExit
        /\ is_initialized => ~closed
        /\ closed \in BOOLEAN
    BY DEF End, StageInv
  <1>1. /\ UNCHANGED <<frame, fifo, live, owned, is_initialized>>
        /\ ThreadsInv' /\ (LibraryInv => LibraryInv') /\ (ShownInv => ShownInv')
    BY <1>0, LibrarySame
  <1>2. StageInv' /\ SameBlocks' /\ FramesInv' /\ LoggingInv' /\ ExitInv'
    BY <1>0, <1>1 DEF StageInv, SameBlocks, FramesInv, LoggingInv, ExitInv
  <1>3. LeakInv'
    <2>1. CASE is_initialized
      <3>1. /\ Blocks.held = owned /\ owned \subseteq Traced(log)
            /\ Traced(log) \subseteq Blocks.held \cup Blocks.inHand
        BY <1>0, <2>1, BlocksAtExit DEF SameBlocks, LoggingInv
      <3> QED BY <1>0, <2>1, <3>1 DEF LeakInv
    <2>2. CASE ~is_initialized
      BY <1>0, <2>2 DEF LeakInv
    <2> QED BY <2>1, <2>2
  <1>4. CASE closed
    <2>1. UNCHANGED P!vars
      BY <1>0, <1>1, <1>4 DEF P!vars, P!readerVars, readerVars
    <2> QED BY <1>1, <1>2, <1>3, <2>1 DEF JmprofInv
  <1>5. CASE ~closed
    <2>1. P!LibClose
      BY <1>0, <1>1, <1>5 DEF P!LibClose
    <2>2. P!Next
      BY <1>0, <1>1, <2>1 DEF P!Next, P!Program, P!readerVars, readerVars
    <2> QED BY <1>1, <1>2, <1>3, <2>2 DEF JmprofInv
  <1> QED BY <1>0, <1>4, <1>5

LEMMA ReadStep ==
  ASSUME JmprofInv, Read \/ UNCHANGED jmprofVars
  PROVE  JmprofInv' /\ [P!Next]_(P!vars)
  <1> StageInv
    BY DEF JmprofInv
  <1>0. UNCHANGED <<vars, log, closed, over, atExit>>
    BY DEF Read, exitVars, jmprofVars
  <1>1. UNCHANGED <<frame, fifo, live, owned, is_initialized>>
    BY <1>0, LibrarySame
  <1>2. StageInv'
    BY <1>0, <1>1 DEF StageInv
  <1>3. JmprofInv'
    BY <1>0, <1>2, InvariantsSame
  <1>4. CASE Read
    BY <1>3, <1>4 DEF Read, P!Next
  <1>5. CASE UNCHANGED jmprofVars
    <2>1. UNCHANGED P!vars
      BY <1>0, <1>1, <1>5 DEF P!vars, P!readerVars, jmprofVars, readerVars
    <2> QED BY <1>3, <2>1
  <1> QED BY <1>4, <1>5

\* What is known of every state of jmprof.
LEMMA JmprofInvariant ==
  ASSUME NothingFails
  PROVE  JmprofSpec => []JmprofInv /\ P!Init /\ [][P!Next]_(P!vars)
  <1>1. JmprofInit => JmprofInv /\ P!Init
    <2> SUFFICES ASSUME JmprofInit PROVE JmprofInv /\ P!Init
      OBVIOUS
    <2>1. /\ frame = [x \in Activations |-> IdleFrame] /\ fifo = <<>> /\ live = {} /\ owned = {}
          /\ log = <<>> /\ closed = FALSE /\ over = FALSE /\ Init /\ P!ReaderInit
          /\ is_initialized = TRUE /\ guard = [t \in Threads |-> {}]
          /\ unwind_mutex = NULL
      BY DEF JmprofInit, Init, StackInit, TrackerInit
    <2>2. TypeInv /\ Nested /\ UnwindInv /\ CallsOK /\ HeldInv
      <3>1. TypeInv
        BY <2>1, InitTypeInv
      <3>2. Nested /\ UnwindInv
        BY <2>1 DEF IdleFrame, Nested, UnwindInv, InUnwind, Printing, BacktraceOfItsBlock, At
      <3>3. CallsOK
        BY <2>1 DEF CallsOK, CallOK, IdleFrame, LogPcs, GuardedPcs, LoaderPcs, ForkPcs,
                    Reallocators, Allocators
      <3>4. HeldInv
        BY <2>1 DEF IdleFrame, HeldInv, Held, Result, Loaders
      <3> QED BY <3>1, <3>2, <3>3, <3>4
    <2>3. ASSUME NEW x \in Activations PROVE KindOK(x)
      BY <2>1 DEF KindOK, ModulesOut, OutIsBlock, Printing, IdleFrame
    <2>4. LibraryInv
      <3>1. GuardInv /\ TracedInv
        BY <2>1 DEF IdleFrame, GuardInv, TracedInv, OwnedTraced,
           ResultTraced, OutIsBlock, Printing, Held, Result, Loaders
      <3>2. BlocksInv
        BY <2>1 DEF IdleFrame, BlocksInv, BlockOK, ModulesOut, Traced, Allocators
      <3> QED BY <2>2, <3>1, <3>2 DEF LibraryInv
    <2>5. ShownInv
      BY <2>1 DEF ShownInv, Traced, InUnwind, Printing, At, IdleFrame
    <2>6. StageInv /\ SameBlocks
      <3>1. log \in Seq(LogRecords) /\ DOMAIN log = {} /\ log = fifo
        BY <2>1
      <3>2. FreesKnown(log)
        BY <3>1 DEF FreesKnown
      <3>3. StageInv
        BY <2>1, <3>1, <3>2 DEF StageInv
      <3>4. SameBlocks
        BY <3>1 DEF SameBlocks
      <3> QED BY <3>3, <3>4
    <2>7. FramesInv
      <3>1. NewFrames(log) = {} /\ IsFiniteSet(NewFrames(log))
        <4>1. NewFrames(log) = {}
          BY <2>1 DEF NewFrames
        <4> QED BY <4>1, FS_EmptySet
      <3> QED BY <2>1, <3>1 DEF FramesInv, At, Printing, IdleFrame
    <2>8. LoggingInv /\ ExitInv /\ LeakInv
      BY <2>1, <2>4, <2>5 DEF LoggingInv, ExitInv, LeakInv
    <2>9. P!Init
      BY <2>1 DEF P!Init
    <2> QED BY <2>2, <2>3, <2>6, <2>7, <2>8, <2>9 DEF JmprofInv, ThreadsInv
  <1>2. JmprofInv /\ [JmprofNext]_jmprofVars => JmprofInv' /\ [P!Next]_(P!vars)
    <2> SUFFICES ASSUME JmprofInv, [JmprofNext]_jmprofVars
                 PROVE  JmprofInv' /\ [P!Next]_(P!vars)
      OBVIOUS
    <2>1. CASE Run
      BY <2>1, RunStep DEF Run
    <2> QED BY <2>1, OpenStep, DeinitStep, RegionStep, CloseStep, EndStep, ReadStep
            DEF JmprofNext, Ended
  <1> QED BY <1>1, <1>2, PTL DEF JmprofSpec

(***************************************************************************)
(* The two processes implement the abstract profiler.  Of a program of any *)
(* number of threads that calls malloc(), calloc(), free(), dlopen() and   *)
(* dlclose(), none of which fails, the log is at each moment one of those  *)
(* that Profiler lets the reader meet, also while the exit handler writes  *)
(* its regions between the records of other threads and closes the FIFO    *)
(* in the middle of their backtraces (preload.c:134-234, 268-278,          *)
(* backtrace.c:34, tracker.c:101-178, interpret.c:200-387).                *)
(***************************************************************************)
THEOREM ProfilerImplemented ==
  ASSUME NothingFails
  PROVE  JmprofSpec => ImplementsProfiler
  BY JmprofInvariant, PTL DEF ImplementsProfiler, P!Spec

(***************************************************************************)
(* What ProfilerProofs shows of the reader holds of the one that reads the *)
(* log of the library.                                                     *)
(***************************************************************************)
PP == INSTANCE ProfilerProofs WITH heap <- live, exiting <- ~is_initialized

\* The profiler that is implemented and the one that is proved about are the same.
LEMMA SameProfiler == /\ P!Init <=> PP!Init
                      /\ P!Next <=> PP!Next
                      /\ P!vars = PP!vars /\ P!vars' = PP!vars'
  BY DEF P!ToBkt, P!NewTable, P!Chain, P!HashFind, P!Moved, P!Ideal, P!Multiplier, P!Nonideal,
         P!HashExpandBuckets, P!Crowded, P!HeadOf, P!HashAdd, P!HashDelete, P!Cardinality,
         P!FindEntry, P!AddEntry, P!Undefined, P!AllocSize, P!ParseAlloc, P!ParseFree, P!Resolve,
         P!ParseBacktrace, P!ParseModule, P!ParseRegion, P!ParseExecPath, P!ParseLog, P!Report,
         P!ReaderInit, P!readerVars, P!Backtrace, P!LibOpen, P!LibFailed, P!LibFreeAligned,
         P!Room, P!LibWrite, P!LibExit, P!LibUnlogged, P!Reported, P!LibRegion, P!LibClose,
         P!Program, P!Reader, P!Finished, P!Init, P!Next, P!vars, P!Lib!IsBlock,
         P!Lib!IsOwnerOf, P!Lib!Traced, P!Lib!Log, P!Lib!Allocate, P!Lib!LogAlloc, P!Lib!LogFree,
         P!Lib!Release, P!Lib!LogModule, P!Lib!LogFrame, P!Lib!Next,
         PP!ToBkt, PP!NewTable, PP!Chain, PP!HashFind, PP!Moved, PP!Ideal, PP!Multiplier,
         PP!Nonideal, PP!HashExpandBuckets, PP!Crowded, PP!HeadOf, PP!HashAdd, PP!HashDelete,
         PP!Cardinality, PP!FindEntry, PP!AddEntry, PP!Undefined, PP!AllocSize, PP!ParseAlloc,
         PP!ParseFree, PP!Resolve, PP!ParseBacktrace, PP!ParseModule, PP!ParseRegion,
         PP!ParseExecPath, PP!ParseLog, PP!Report, PP!ReaderInit, PP!readerVars, PP!Backtrace,
         PP!LibOpen, PP!LibFailed, PP!LibFreeAligned, PP!Room, PP!LibWrite, PP!LibExit,
         PP!LibUnlogged, PP!Reported, PP!LibRegion, PP!LibClose, PP!Program, PP!Reader,
         PP!Finished, PP!Init, PP!Next, PP!vars, PP!Lib!IsBlock, PP!Lib!IsOwnerOf, PP!Lib!Traced,
         PP!Lib!Log, PP!Lib!Allocate, PP!Lib!LogAlloc, PP!Lib!LogFree, PP!Lib!Release,
         PP!Lib!LogModule, PP!Lib!LogFrame, PP!Lib!Next

LEMMA SameFailures == /\ P!Unexpanded <=> PP!Unexpanded
                      /\ P!LongTrace <=> PP!LongTrace
                      /\ P!ManyRegions <=> PP!ManyRegions
  BY DEF P!Unexpanded, P!LongTrace, P!ManyRegions, P!FramesAbout, P!IsAbout, P!IsOwnerOf,
         P!IsBlock, P!Cardinality, PP!Unexpanded, PP!LongTrace, PP!ManyRegions, PP!FramesAbout,
         PP!IsAbout, PP!IsOwnerOf, PP!IsBlock, PP!Cardinality

LEMMA ReaderSpec ==
  ASSUME NothingFails
  PROVE  JmprofSpec => PP!Spec
  <1>1. [P!Next]_(P!vars) => [PP!Next]_(PP!vars)
    BY SameProfiler
  <1>2. P!Spec => PP!Spec
    BY <1>1, SameProfiler, PTL DEF P!Spec, PP!Spec
  <1> QED BY <1>2, ProfilerImplemented, PTL DEF ImplementsProfiler

\* The assumptions of Profiler and Uthash on their constants.
LEMMA ReaderConstants ==
    /\ NULL \notin Addrs \cup Modules /\ Keys = Addrs \cup {NULL}
    /\ {MaxFrames, MaxRegions, MAX_BACKTRACE_COUNT, MAX_REGION_COUNT} \subseteq Nat
    /\ Hash \in [Keys -> Nat]
    /\ HASH_INITIAL_NUM_BUCKETS \in Nat \ {0}
    /\ HASH_BKT_CAPACITY_THRESH \in Nat \ {0}
  BY JmprofAssumption, PreloadAssumption, BacktraceAssumption, TrackerAssumption
     DEF MAX_BACKTRACE_COUNT

LEMMA ReaderInvariant ==
  ASSUME NothingFails
  PROVE  JmprofSpec => [](/\ PP!Inv /\ PP!NoLeakMissed /\ PP!LeaksAreTheBlocksNotFreed
                          /\ PP!FailsOnlyByOverflow /\ PP!BacktraceHasContext)
  <1>1. PP!Spec => []PP!Inv
    BY ReaderConstants, PP!Invariant
  <1>2. PP!Spec => []PP!NoLeakMissed
    BY ReaderConstants, PP!NoneMissed
  <1>3. PP!Spec => []PP!LeaksAreTheBlocksNotFreed
    BY ReaderConstants, PP!LeaksReported DEF NothingFails
  <1>4. PP!Spec => []PP!FailsOnlyByOverflow
    BY ReaderConstants, PP!FailuresOfReader
  <1>5. PP!Spec => []PP!BacktraceHasContext
    BY ReaderConstants, PP!ContextHeld DEF NothingFails
  <1> QED BY <1>1, <1>2, <1>3, <1>4, <1>5, ReaderSpec, PTL

\* When the report is there, the log that it is about is complete.
LEMMA AllRead ==
  ASSUME PP!Inv, status = "done"
  PROVE  closed /\ PP!Traced(PP!Read) = Traced(log)
  <1>1. pos = Len(log) /\ closed /\ log \in Seq(PP!Records)
    BY DEF PP!Inv, PP!LogInv, PP!ReadInv, PP!TableInv
  <1>2. PP!Read = log
    BY <1>1, SubSeqFull DEF PP!Read
  <1> QED BY <1>1, <1>2 DEF PP!Traced, Traced

(***************************************************************************)
(* Every block the program held when the logging ended is in the report:   *)
(* the library logged it before the program had it, a free() of another    *)
(* thread during exit() writes no record, and the reader, at whatever      *)
(* pace, read the log to its end and lost no entry (preload.c:139, 145,    *)
(* 277, interpret.c:292, 343-349).                                         *)
(***************************************************************************)
THEOREM LeaksNamed ==
  ASSUME NothingFails
  PROVE  JmprofSpec => []EveryLeakIsReported
  <1>1. JmprofInv /\ PP!Inv /\ PP!NoLeakMissed => EveryLeakIsReported
    <2> SUFFICES ASSUME JmprofInv, PP!Inv, PP!NoLeakMissed, status = "done"
                 PROVE  atExit.held \subseteq LeakKeys
      BY DEF EveryLeakIsReported
    <2>1. closed /\ PP!Traced(PP!Read) = Traced(log)
      BY AllRead
    <2>2. atExit.held \subseteq Traced(log)
      BY <2>1 DEF JmprofInv, LeakInv
    <2>3. PP!Traced(PP!Read) \subseteq LeakKeys
      BY DEF PP!NoLeakMissed, PP!Leaks, P!Leaks, LeakKeys
    <2> QED BY <2>1, <2>2, <2>3
  <1> QED BY <1>1, JmprofInvariant, ReaderInvariant, PTL

\* A block that is in the report is one that the program held when the logging ended,
\* or that a call was allocating or freeing then and whose record is written or not,
\* while HASH_FIND meets the latest entry of an address first: what was given back
\* before is not reported (preload.c:190, 277, interpret.c:343-349).
THEOREM OthersNotNamed ==
  ASSUME NothingFails
  PROVE  JmprofSpec => []OnlyLeaksAreReported
  <1>1. JmprofInv /\ PP!Inv /\ PP!LeaksAreTheBlocksNotFreed => OnlyLeaksAreReported
    <2> SUFFICES ASSUME JmprofInv, PP!Inv, PP!LeaksAreTheBlocksNotFreed, status = "done",
                        P!Unexpanded
                 PROVE  LeakKeys \subseteq atExit.held \cup atExit.inHand
      BY DEF OnlyLeaksAreReported
    <2>1. closed /\ PP!Traced(PP!Read) = Traced(log)
      BY AllRead
    <2>2. Traced(log) \subseteq atExit.held \cup atExit.inHand
      BY <2>1 DEF JmprofInv, LeakInv
    <2>3. LeakKeys = PP!Traced(PP!Read)
      BY SameFailures DEF PP!LeaksAreTheBlocksNotFreed, PP!Leaks, P!Leaks, LeakKeys
    <2> QED BY <2>1, <2>2, <2>3
  <1> QED BY <1>1, JmprofInvariant, ReaderInvariant, PTL

\* No log of the library, whatever the threads and the exit handler do in whatever
\* order, makes jmprof-ip follow the entry of an unknown block or fail its assertion;
\* it leaves an object only if the frames of a block or the regions are more than it
\* has room for (interpret.c:229, 329, 349, 375).
THEOREM ReaderNeverFails ==
  ASSUME NothingFails
  PROVE  JmprofSpec => []LogIsReadable
  <1>1. JmprofInv /\ PP!Inv /\ PP!FailsOnlyByOverflow /\ PP!BacktraceHasContext
            => LogIsReadable
    <2> SUFFICES ASSUME JmprofInv, PP!Inv, PP!FailsOnlyByOverflow, PP!BacktraceHasContext,
                        P!Unexpanded
                 PROVE  \/ status \in {"reading", "done"}
                        \/ status = "undefined" /\ (P!LongTrace \/ P!ManyRegions)
      BY DEF LogIsReadable
    <2>1. pos \in 0..Len(log) /\ status \in {"reading", "done", "assert", "undefined"}
      BY DEF PP!Inv, PP!ReadInv, PP!ReaderTypes
    <2>2. log \in Seq(LogRecords) /\ FreesKnown(log)
      BY DEF JmprofInv, StageInv
    <2>3. ~PP!UnknownBlock
      <3>1. SUFFICES ASSUME NEW i \in 1..pos, log[i].op = "f"
                     PROVE  \E a \in 1..i : log[a].op = "a" /\ log[a].addr = log[i].addr
        BY DEF PP!UnknownBlock
      <3>2. DOMAIN log = 1..Len(log) /\ Len(log) \in Nat
        BY <2>2, LenProperties
      <3>3. i \in DOMAIN log
        BY <2>1, <3>2
      <3>4. PICK j \in DOMAIN log : j < i /\ log[j].op = "a" /\ log[j].addr = log[i].addr
        BY <2>2, <3>1, <3>3 DEF FreesKnown
      <3>5. j \in 1..i
        BY <3>2, <3>3, <3>4
      <3> QED BY <3>4, <3>5
    <2> QED BY <2>1, <2>3, SameFailures DEF PP!FailsOnlyByOverflow, PP!BacktraceHasContext
  <1> QED BY <1>1, JmprofInvariant, ReaderInvariant, PTL
===============================================================================
