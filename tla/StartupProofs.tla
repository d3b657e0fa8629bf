---------------------------- MODULE StartupProofs -----------------------------
(***************************************************************************)
(* For any number of threads and calls: while jm_preload_init_() runs, no  *)
(* function is called whose pointer is not set, and no key is asked for    *)
(* that was not created.                                                   *)
(***************************************************************************)
EXTENDS Startup, SequenceTheorems, TLAPS

Fns == Allocators \cup {"free"}

InitPcs == {"preload_once", "preload_init_", "tracker_once", "tracker_open", "tracker_exec_path"}

CallPcs == {"enter", "libc", "guard", "update", "modules", "unwind"}

Frames == [fn : Fns \cup {"init"}, pc : InitPcs \cup CallPcs, step : 1..10]

TypeOK == /\ stack \in [Threads -> Seq(Frames)]
          /\ preload_init_once \in Threads \cup {"never", "done"}

\* The steps before the n-th were taken.
DoneBefore(n) == \A j \in 1..10 :
    j < n => InitSteps[j].fn \in (IF InitSteps[j].set = "key" THEN keys ELSE libc)

\* A call that finds its pointer unset has a call of jm_preload_init() above it,
\* and above this there is nothing but a call that dlsym() made.
FrameOK(t, k) ==
    LET f == stack[t][k]
    IN  /\ f.fn = "init" <=> f.pc \in InitPcs
        /\ k > 1 => (f.fn = "init" <=> stack[t][k - 1].fn # "init")
        /\ k > 1 /\ f.fn = "init" => f.pc = "preload_init_"
        /\ f.pc = "preload_once" => f.step = 1
        /\ f.pc = "preload_init_" => preload_init_once = t /\ DoneBefore(f.step)
        /\ f.pc \in {"tracker_once", "tracker_open", "tracker_exec_path"}
               => preload_init_once = "done"
        /\ k = 1 /\ f.pc \in CallPcs \ {"enter"} => f.fn \in libc

FramesOK == \A t \in Threads : \A k \in DOMAIN stack[t] : FrameOK(t, k)

\* The function is entered once.
OneInit == \A t \in Threads : \A j, k \in DOMAIN stack[t] :
    stack[t][j].pc = "preload_init_" /\ stack[t][k].pc = "preload_init_" => j = k

\* The key of a function is created before its pointer is set.
Ordered == /\ libc \cap Fns \subseteq keys
           /\ preload_init_once = "done" => Fns \subseteq libc

Inv == TypeOK /\ FramesOK /\ OneInit /\ Ordered

LEMMA StepsFacts ==
  /\ Len(InitSteps) = 10
  /\ \A n \in 1..10 : /\ InitSteps[n].set \in {"key", "libc"}
                      /\ InitSteps[n].set = "libc" /\ InitSteps[n].fn \in Fns
                            => \E j \in 1..(n - 1) : InitSteps[j] = Key(InitSteps[n].fn)
  /\ \A fn \in Fns : \E n \in 1..10 : InitSteps[n] = Libc(fn)
<1>1. Len(InitSteps) = 10
  BY DEF InitSteps
<1>2. /\ InitSteps[1] = Key("calloc")  /\ InitSteps[2] = Libc("calloc")
      /\ InitSteps[3] = Key("malloc")  /\ InitSteps[4] = Libc("malloc")
      /\ InitSteps[5] = Key("realloc") /\ InitSteps[6] = Libc("realloc")
      /\ InitSteps[7] = Key("free")    /\ InitSteps[8] = Libc("free")
      /\ InitSteps[9] = Libc("dlopen") /\ InitSteps[10] = Libc("dlclose")
  BY DEF InitSteps
<1>3. ASSUME NEW n \in 1..10
      PROVE  /\ InitSteps[n].set \in {"key", "libc"}
             /\ InitSteps[n].set = "libc" /\ InitSteps[n].fn \in Fns
                    => \E j \in 1..(n - 1) : InitSteps[j] = Key(InitSteps[n].fn)
  <2>1. n \in {1, 3, 5, 7} \/ n \in {2, 4, 6, 8} \/ n \in {9, 10}
    OBVIOUS
  <2>2. CASE n \in {1, 3, 5, 7}
    BY <1>2, <2>2 DEF Key
  <2>3. CASE n \in {2, 4, 6, 8}
    <3>1. n - 1 \in 1..(n - 1) /\ InitSteps[n - 1] = Key(InitSteps[n].fn)
      BY <1>2, <2>3 DEF Key, Libc
    <3> QED
      BY <1>2, <2>3, <3>1 DEF Libc
  <2>4. CASE n \in {9, 10}
    BY <1>2, <2>4 DEF Libc, Fns, Allocators
  <2> QED
    BY <2>1, <2>2, <2>3, <2>4
<1>4. \A fn \in Fns : \E n \in 1..10 : InitSteps[n] = Libc(fn)
  <2>1. /\ 2 \in 1..10 /\ 4 \in 1..10 /\ 6 \in 1..10 /\ 8 \in 1..10
    OBVIOUS
  <2> QED
    BY <1>2, <2>1 DEF Fns, Allocators
<1> QED
  BY <1>1, <1>3, <1>4

(***************************************************************************)
(* What the operations on a stack do.                                      *)
(***************************************************************************)
LEMMA TopFacts ==
  ASSUME TypeOK, NEW t \in Threads, stack[t] # <<>>
  PROVE  /\ Len(stack[t]) \in Nat \ {0}
         /\ 1 \in DOMAIN stack[t]
         /\ Head(stack[t]) = stack[t][1]
         /\ stack[t][1] \in Frames
  BY DEF TypeOK

LEMMA GotoFacts ==
  ASSUME TypeOK, NEW t \in Threads, stack[t] # <<>>,
         NEW label \in InitPcs \cup CallPcs, Goto(t, label)
  PROVE  /\ stack' \in [Threads -> Seq(Frames)]
         /\ \A u \in Threads : DOMAIN stack'[u] = DOMAIN stack[u]
         /\ stack'[t][1] = [stack[t][1] EXCEPT !.pc = label]
         /\ \A u \in Threads : \A k \in DOMAIN stack[u] :
                u # t \/ k # 1 => stack'[u][k] = stack[u][k]
<1> DEFINE f == [stack[t][1] EXCEPT !.pc = label]
<1>1. f \in Frames
  BY TopFacts DEF Frames
<1>2. stack' = [stack EXCEPT ![t] = [stack[t] EXCEPT ![1] = f]]
  BY DEF Goto
<1> HIDE DEF f
<1>3. [stack[t] EXCEPT ![1] = f] \in Seq(Frames)
  BY <1>1, TopFacts DEF TypeOK
<1> QED
  BY <1>2, <1>3, TopFacts DEF TypeOK, f

LEMMA PushFacts ==
  ASSUME TypeOK, NEW t \in Threads, NEW f \in Frames, Push(t, f)
  PROVE  /\ stack' \in [Threads -> Seq(Frames)]
         /\ \A u \in Threads \ {t} : stack'[u] = stack[u]
         /\ DOMAIN stack'[t] = 1..(Len(stack[t]) + 1)
         /\ stack'[t][1] = f
         /\ \A k \in DOMAIN stack[t] : stack'[t][k + 1] = stack[t][k]
  BY DEF Push, TypeOK

LEMMA PopFacts ==
  ASSUME TypeOK, NEW t \in Threads, stack[t] # <<>>, Pop(t)
  PROVE  /\ stack' \in [Threads -> Seq(Frames)]
         /\ \A u \in Threads \ {t} : stack'[u] = stack[u]
         /\ DOMAIN stack'[t] = 1..(Len(stack[t]) - 1)
         /\ \A k \in 1..(Len(stack[t]) - 1) :
                k + 1 \in DOMAIN stack[t] /\ stack'[t][k] = stack[t][k + 1]
  BY DEF Pop, TypeOK

(***************************************************************************)
(* What they keep, when the frame they leave on top is in order.           *)
(***************************************************************************)
InitUnchanged == UNCHANGED <<libc, keys, preload_init_once>>

LEMMA GotoKeepsInv ==
  ASSUME Inv, NEW t \in Threads, stack[t] # <<>>,
         NEW label \in (InitPcs \cup CallPcs) \ {"preload_init_"}, Goto(t, label),
         InitUnchanged,
         Fn(t) = "init" <=> label \in InitPcs,
         label # "preload_once",
         label \in {"tracker_once", "tracker_open", "tracker_exec_path"}
             => preload_init_once = "done",
         label \in CallPcs \ {"enter"} => Fn(t) \in libc
  PROVE  Inv'
<1> USE DEF Inv, InitUnchanged
<1>1. /\ TypeOK'
      /\ \A u \in Threads : DOMAIN stack'[u] = DOMAIN stack[u]
      /\ stack'[t][1] = [stack[t][1] EXCEPT !.pc = label]
      /\ \A u \in Threads : \A k \in DOMAIN stack[u] :
             u # t \/ k # 1 => stack'[u][k] = stack[u][k]
  BY GotoFacts DEF TypeOK
<1>2. stack[t][1] \in Frames /\ Fn(t) = stack[t][1].fn
  BY TopFacts DEF Fn
<1>3. stack'[t][1].fn = stack[t][1].fn /\ stack'[t][1].pc = label
  BY <1>1, <1>2 DEF Frames
<1>4. ASSUME NEW u \in Threads, NEW k \in DOMAIN stack[u] PROVE FrameOK(u, k)'
  <2>1. FrameOK(u, k) /\ stack'[u][k].fn = stack[u][k].fn
    BY <1>1, <1>3 DEF FramesOK
  <2>2. k > 1 => /\ k - 1 \in DOMAIN stack[u]
                 /\ stack'[u][k - 1].fn = stack[u][k - 1].fn
    <3>1. \A j \in DOMAIN stack[u] : stack'[u][j].fn = stack[u][j].fn
      BY <1>1, <1>3
    <3>2. stack[u] \in Seq(Frames)
      BY DEF TypeOK
    <3>3. k > 1 => k - 1 \in DOMAIN stack[u]
      BY <3>2
    <3> QED
      BY <3>1, <3>3
  <2>3. CASE u = t /\ k = 1
    <3>1. stack'[u][k].pc = label /\ stack'[u][k].fn = Fn(t)
      BY <1>2, <1>3, <2>3
    <3>2. /\ libc' = libc /\ preload_init_once' = preload_init_once
          /\ label # "preload_init_" /\ ~(k > 1)
      BY <2>3
    <3> HIDE DEF Inv, InitUnchanged
    <3> QED
      BY <2>3, <3>1, <3>2 DEF FrameOK
  <2>4. CASE u # t \/ k # 1
    <3>1. stack'[u][k] = stack[u][k]
      BY <1>1, <2>4
    <3>2. ASSUME k > 1 PROVE (stack'[u][k - 1].fn = "init") = (stack[u][k - 1].fn = "init")
      BY <2>2, <3>2
    <3>3. \A n : DoneBefore(n)' = DoneBefore(n)
      BY DEF DoneBefore
    <3> QED
      BY <2>1, <3>1, <3>2, <3>3 DEF FrameOK
  <2> QED
    BY <2>3, <2>4
<1>5. OneInit'
  BY <1>1, <1>3 DEF OneInit
<1> QED
  BY <1>1, <1>4, <1>5 DEF FramesOK, Ordered

LEMMA PushKeepsInv ==
  ASSUME Inv, NEW t \in Threads, NEW f \in Frames, Push(t, f), InitUnchanged,
         \/ f.fn # "init" /\ f.pc = "enter"
         \/ f.fn = "init" /\ f.pc = "preload_once" /\ f.step = 1,
         stack[t] # <<>> => f.fn # "init" /\ stack[t][1].pc = "preload_init_"
  PROVE  Inv'
<1> USE DEF Inv, InitUnchanged
<1>1. /\ TypeOK'
      /\ \A u \in Threads \ {t} : stack'[u] = stack[u]
      /\ DOMAIN stack'[t] = 1..(Len(stack[t]) + 1)
      /\ stack'[t][1] = f
      /\ \A k \in DOMAIN stack[t] : stack'[t][k + 1] = stack[t][k]
  BY PushFacts DEF TypeOK
<1>2. DOMAIN stack[t] = 1..Len(stack[t]) /\ Len(stack[t]) \in Nat
  BY DEF TypeOK
<1>3. ASSUME NEW u \in Threads \ {t}, NEW k \in DOMAIN stack'[u] PROVE FrameOK(u, k)'
  BY <1>1 DEF FramesOK, FrameOK, DoneBefore
<1>4. FrameOK(t, 1)'
  BY <1>1 DEF FrameOK, InitPcs, CallPcs
<1>5. ASSUME NEW k \in DOMAIN stack[t] PROVE FrameOK(t, k + 1)'
  <2>1. FrameOK(t, k) /\ stack'[t][k + 1] = stack[t][k]
    BY <1>1 DEF FramesOK
  <2>2. CASE k = 1
    <3>1. stack[t] # <<>>
      BY <1>2, <2>2
    <3>2. stack[t][1].fn = "init" /\ f.fn # "init"
      BY <2>1, <2>2, <3>1 DEF FrameOK, InitPcs
    <3> QED
      BY <1>1, <2>1, <2>2, <3>1, <3>2 DEF FrameOK, DoneBefore
  <2>3. CASE k > 1
    <3>1. k - 1 \in DOMAIN stack[t] /\ (k + 1) - 1 = (k - 1) + 1
      BY <1>2, <2>3
    <3>2. stack'[t][(k + 1) - 1] = stack[t][k - 1]
      BY <1>1, <3>1
    <3> QED
      BY <1>2, <2>1, <2>3, <3>2 DEF FrameOK, DoneBefore
  <2> QED
    BY <1>2, <2>2, <2>3
<1>6. \A k \in DOMAIN stack'[t] : k = 1 \/ (k - 1 \in DOMAIN stack[t] /\ k = (k - 1) + 1)
  BY <1>1, <1>2
<1>7. FramesOK'
  BY <1>3, <1>4, <1>5, <1>6 DEF FramesOK
<1>8. OneInit'
  <2>1. \A k \in DOMAIN stack'[t] :
            stack'[t][k].pc = "preload_init_"
                => k - 1 \in DOMAIN stack[t] /\ stack[t][k - 1].pc = "preload_init_"
    BY <1>1, <1>6
  <2>2. \A j, k \in DOMAIN stack'[t] : j - 1 = k - 1 => j = k
    BY <1>1
  <2>3. \A j, k \in DOMAIN stack'[t] :
            stack'[t][j].pc = "preload_init_" /\ stack'[t][k].pc = "preload_init_" => j = k
    BY <2>1, <2>2 DEF OneInit
  <2> QED
    BY <1>1, <2>3 DEF OneInit
<1> QED
  BY <1>1, <1>7, <1>8 DEF Ordered

LEMMA PopKeepsInv ==
  ASSUME Inv, NEW t \in Threads, stack[t] # <<>>, Pop(t), InitUnchanged,
         Fn(t) = "init" => preload_init_once = "done"
  PROVE  Inv'
<1> USE DEF Inv, InitUnchanged
<1>1. /\ TypeOK'
      /\ \A u \in Threads \ {t} : stack'[u] = stack[u]
      /\ DOMAIN stack'[t] = 1..(Len(stack[t]) - 1)
      /\ \A k \in 1..(Len(stack[t]) - 1) :
             k + 1 \in DOMAIN stack[t] /\ stack'[t][k] = stack[t][k + 1]
  BY PopFacts DEF TypeOK
<1>2. DOMAIN stack[t] = 1..Len(stack[t]) /\ Len(stack[t]) \in Nat
  BY DEF TypeOK
<1>3. ASSUME NEW u \in Threads \ {t}, NEW k \in DOMAIN stack'[u] PROVE FrameOK(u, k)'
  BY <1>1 DEF FramesOK, FrameOK, DoneBefore
<1>4. ASSUME NEW k \in DOMAIN stack'[t] PROVE FrameOK(t, k)'
  <2>1. /\ k \in 1..(Len(stack[t]) - 1) /\ k + 1 \in DOMAIN stack[t]
        /\ stack'[t][k] = stack[t][k + 1] /\ (k + 1) - 1 = k
    BY <1>1, <1>2
  <2>2. FrameOK(t, k + 1)
    BY <2>1 DEF FramesOK
  <2>3. CASE k = 1
    <3>1. stack[t][2] \in Frames /\ Fn(t) = stack[t][1].fn
      BY <2>1, <2>3, TopFacts DEF TypeOK, Fn
    <3>2. stack[t][2].fn = "init" \/ (Fn(t) = "init" /\ stack[t][2].fn \in Fns)
      BY <1>2, <2>1, <2>2, <2>3, <3>1 DEF FrameOK, Frames
    <3>3. stack[t][2].pc \in CallPcs => stack[t][2].fn \in libc
      BY <2>2, <2>3, <3>2 DEF FrameOK, Ordered, InitPcs, CallPcs
    <3> QED
      BY <2>1, <2>2, <2>3, <3>3 DEF FrameOK, DoneBefore
  <2>4. CASE k > 1
    <3>1. k - 1 \in 1..(Len(stack[t]) - 1) /\ (k - 1) + 1 = k
      BY <1>2, <2>1, <2>4
    <3>2. stack'[t][k - 1] = stack[t][k]
      BY <1>1, <3>1
    <3> QED
      BY <1>2, <2>1, <2>2, <2>4, <3>2 DEF FrameOK, DoneBefore
  <2> QED
    BY <2>1, <2>3, <2>4
<1>5. OneInit'
  <2>1. \A k \in DOMAIN stack'[t] :
            k \in 1..(Len(stack[t]) - 1) /\ k + 1 \in DOMAIN stack[t]
                /\ stack'[t][k] = stack[t][k + 1]
    BY <1>1
  <2>2. ASSUME NEW j \in DOMAIN stack'[t], NEW k \in DOMAIN stack'[t],
               stack'[t][j].pc = "preload_init_", stack'[t][k].pc = "preload_init_"
        PROVE  j = k
    <3>1. j + 1 = k + 1
      BY <2>1, <2>2 DEF OneInit
    <3> QED
      BY <1>2, <2>1, <3>1
  <2> QED
    BY <1>1, <2>2 DEF OneInit
<1> QED
  BY <1>1, <1>3, <1>4, <1>5 DEF FramesOK, Ordered

(***************************************************************************)
(* The steps.                                                              *)
(***************************************************************************)
\* The frame on top of the stack of a thread that is at a label.
LEMMA AtFacts ==
  ASSUME Inv, NEW t \in Threads, NEW label, At(t, label)
  PROVE  /\ stack[t] # <<>>
         /\ Fn(t) = stack[t][1].fn
         /\ Fn(t) \in Fns \cup {"init"}
         /\ Fn(t) = "init" <=> label \in InitPcs
         /\ label = "preload_once" => stack[t][1].step = 1
         /\ label = "preload_init_" => preload_init_once = t /\ DoneBefore(stack[t][1].step)
         /\ label \in {"tracker_once", "tracker_open", "tracker_exec_path"}
                => preload_init_once = "done"
         /\ label \in CallPcs \ {"enter"} => Fn(t) \in libc
<1>1. stack[t] # <<>> /\ Head(stack[t]) = stack[t][1] /\ stack[t][1] \in Frames
      /\ 1 \in DOMAIN stack[t] /\ stack[t][1].pc = label
  BY TopFacts DEF At, Inv
<1>2. FrameOK(t, 1)
  BY <1>1 DEF Inv, FramesOK
<1> QED
  BY <1>1, <1>2 DEF Fn, FrameOK, Frames

LEMMA CallKeepsInv ==
  ASSUME Inv, NEW t \in Threads, Call(t) \/ DlsymCall(t)
  PROVE  Inv'
<1>1. InitUnchanged
  BY DEF Call, DlsymCall, initVars, InitUnchanged
<1>2. \A fn \in Fns : Frame(fn, "enter") \in Frames
  BY DEF Frame, Frames, CallPcs
<1>3. Frame("init", "preload_once") \in Frames
  BY DEF Frame, Frames, InitPcs
<1>4. /\ \A fn \in Fns : Frame(fn, "enter").fn # "init" /\ Frame(fn, "enter").pc = "enter"
      /\ Frame("init", "preload_once").fn = "init"
      /\ Frame("init", "preload_once").pc = "preload_once"
      /\ Frame("init", "preload_once").step = 1
  BY DEF Frame, Fns, Allocators
<1>5. CASE Call(t)
  <2>1. stack[t] = <<>>
    BY <1>5 DEF Call
  <2>2. ASSUME NEW fn \in ProgramFns, Push(t, Frame(fn, "enter")) PROVE Inv'
    BY <1>1, <1>2, <1>4, <2>1, <2>2, PushKeepsInv, StartupAssumption DEF Fns
  <2>3. CASE Push(t, Frame("init", "preload_once"))
    BY <1>1, <1>3, <1>4, <2>1, <2>3, PushKeepsInv
  <2> QED
    BY <1>5, <2>2, <2>3 DEF Call
<1>6. CASE DlsymCall(t)
  <2>1. stack[t][1].pc = "preload_init_"
    BY <1>6, AtFacts, TopFacts DEF DlsymCall, At, Inv
  <2>2. PICK fn \in DlsymCalls : Push(t, Frame(fn, "enter"))
    BY <1>6 DEF DlsymCall
  <2>3. fn \in Fns
    BY StartupAssumption DEF Fns
  <2> QED
    BY <1>1, <1>2, <1>4, <2>1, <2>2, <2>3, PushKeepsInv
<1> QED
  BY <1>5, <1>6

\* A call in the interposed function, below jm_preload_init().
LEMMA FunctionKeepsInv ==
  ASSUME Inv, NEW t \in Threads,
         LibcCall(t) \/ Guard(t) \/ Update(t) \/ UpdateIterate(t) \/ Unwind(t)
  PROVE  Inv'
<1>1. InitUnchanged
  BY DEF LibcCall, Guard, Update, UpdateIterate, Unwind, initVars, InitUnchanged
<1>2. /\ stack[t] # <<>> /\ Fn(t) # "init" /\ Fn(t) \in libc
  BY AtFacts DEF LibcCall, Guard, Update, UpdateIterate, Unwind, InitPcs, CallPcs
<1>3. Pop(t) => Inv'
  BY <1>1, <1>2, PopKeepsInv
<1>4. \A label \in CallPcs : Goto(t, label) => Inv'
  <2> SUFFICES ASSUME NEW label \in CallPcs, Goto(t, label) PROVE Inv'
    OBVIOUS
  <2>1. label \notin InitPcs
    BY DEF InitPcs, CallPcs
  <2> QED
    BY <1>1, <1>2, <2>1, GotoKeepsInv DEF InitPcs
<1>5. Pop(t) \/ \E label \in CallPcs : Goto(t, label)
  BY DEF LibcCall, Guard, Update, UpdateIterate, Unwind, Leave, CallPcs
<1> QED
  BY <1>3, <1>4, <1>5

LEMMA TrackerKeepsInv ==
  ASSUME Inv, NEW t \in Threads, TrackerOnce(t) \/ TrackerOpen(t) \/ TrackerExecPath(t)
  PROVE  Inv'
<1>1. InitUnchanged
  BY DEF TrackerOnce, TrackerOpen, TrackerExecPath, InitUnchanged
<1>2. stack[t] # <<>> /\ Fn(t) = "init" /\ preload_init_once = "done"
  BY AtFacts DEF TrackerOnce, TrackerOpen, TrackerExecPath, InitPcs
<1>3. Pop(t) => Inv'
  BY <1>1, <1>2, PopKeepsInv
<1>4. ASSUME NEW label \in {"tracker_open", "tracker_exec_path"}, Goto(t, label) PROVE Inv'
  BY <1>1, <1>2, <1>4, GotoKeepsInv DEF InitPcs, CallPcs
<1> QED
  BY <1>3, <1>4 DEF TrackerOnce, TrackerOpen, TrackerExecPath

\* An interposed function calls jm_preload_init() if its pointer is not set.
LEMMA EnterKeepsInv ==
  ASSUME Inv, NEW t \in Threads, Enter(t)
  PROVE  Inv'
<1> DEFINE first == IF Fn(t) = "free" THEN "guard" ELSE "libc"
           init  == Frame("init", "preload_once")
           caller == [stack[t][1] EXCEPT !.pc = first]
<1>1. InitUnchanged
  BY DEF Enter, initVars, InitUnchanged
<1>2. /\ stack[t] # <<>> /\ Fn(t) # "init" /\ Fn(t) = stack[t][1].fn /\ Fn(t) \in Fns
      /\ stack[t][1] \in Frames /\ stack[t] \in Seq(Frames)
  BY AtFacts, TopFacts DEF Enter, InitPcs, Inv, TypeOK
<1>3. first \in CallPcs \ {"enter"} /\ first \notin InitPcs
  BY DEF CallPcs, InitPcs
<1>4. CASE Fn(t) \in libc
  <2>1. Goto(t, first)
    BY <1>4 DEF Enter
  <2>2. first # "preload_init_" /\ first # "preload_once" /\ Fn(t) # "init"
    BY <1>2
  <2> HIDE DEF first
  <2> QED
    BY <1>1, <1>2, <1>3, <1>4, <2>1, <2>2, GotoKeepsInv DEF InitPcs
<1>5. CASE Fn(t) \notin libc
  <2>1. stack' = [stack EXCEPT ![t] = <<init>> \o [stack[t] EXCEPT ![1] = caller]]
    BY <1>5 DEF Enter
  <2>2. init \in Frames /\ init.fn = "init" /\ init.pc = "preload_once" /\ init.step = 1
    BY DEF Frame, Frames, InitPcs
  <2>3. caller \in Frames /\ caller.fn = Fn(t) /\ caller.pc = first
    BY <1>2, <1>3 DEF Frames
  <2>4. caller.fn # "init"
    BY <1>2, <2>3
  <2> HIDE DEF first, init, caller
  <2>5. /\ stack' \in [Threads -> Seq(Frames)]
        /\ \A u \in Threads \ {t} : stack'[u] = stack[u]
        /\ DOMAIN stack'[t] = 1..(Len(stack[t]) + 1)
        /\ stack'[t][1] = init /\ stack'[t][2] = caller
        /\ \A k \in DOMAIN stack[t] : k > 1 => stack'[t][k + 1] = stack[t][k]
    BY <1>2, <2>1, <2>2, <2>3 DEF Inv, TypeOK
  <2>6. DOMAIN stack[t] = 1..Len(stack[t]) /\ Len(stack[t]) \in Nat \ {0}
    BY <1>2
  <2>7. \A n : DoneBefore(n)' = DoneBefore(n)
    BY <1>1 DEF DoneBefore, InitUnchanged
  <2>8. ASSUME NEW u \in Threads \ {t}, NEW k \in DOMAIN stack'[u] PROVE FrameOK(u, k)'
    BY <1>1, <2>5, <2>7, <2>8 DEF Inv, FramesOK, FrameOK, InitUnchanged
  <2>9. FrameOK(t, 1)'
    BY <2>2, <2>5 DEF FrameOK, InitPcs, CallPcs
  <2>10. FrameOK(t, 2)'
    BY <1>3, <2>2, <2>3, <2>4, <2>5 DEF FrameOK, InitPcs
  <2>11. ASSUME NEW k \in DOMAIN stack[t], k > 1 PROVE FrameOK(t, k + 1)'
    <3>1. FrameOK(t, k) /\ stack'[t][k + 1] = stack[t][k]
      BY <2>5, <2>11 DEF Inv, FramesOK
    <3>2. k - 1 \in DOMAIN stack[t] /\ (k + 1) - 1 = k /\ (k - 1) + 1 = k /\ k + 1 > 1
      BY <2>6, <2>11
    <3>3. stack'[t][k].fn = "init" <=> stack[t][k - 1].fn = "init"
      <4>1. CASE k = 2
        BY <1>2, <2>4, <2>5, <4>1
      <4>2. CASE k > 2
        <5>1. k - 1 > 1
          BY <2>6, <4>2
        <5>2. stack'[t][(k - 1) + 1] = stack[t][k - 1]
          BY <2>5, <3>2, <5>1
        <5> QED
          BY <3>2, <5>2
      <4> QED
        BY <2>6, <2>11, <4>1, <4>2
    <3>4. k + 1 # 1
      BY <2>6
    <3> QED
      BY <1>1, <2>7, <2>11, <3>1, <3>2, <3>3, <3>4 DEF FrameOK, InitUnchanged
  <2>12. \A k \in DOMAIN stack'[t] :
             k = 1 \/ k = 2 \/ (k - 1 \in DOMAIN stack[t] /\ k - 1 > 1 /\ k = (k - 1) + 1)
    BY <2>5, <2>6
  <2>13. FramesOK'
    BY <2>8, <2>9, <2>10, <2>11, <2>12 DEF FramesOK
  <2>14. ASSUME NEW j \in DOMAIN stack'[t], NEW k \in DOMAIN stack'[t],
                stack'[t][j].pc = "preload_init_", stack'[t][k].pc = "preload_init_"
         PROVE  j = k
    <3>1. ASSUME NEW l \in DOMAIN stack'[t], stack'[t][l].pc = "preload_init_"
          PROVE  l - 1 \in DOMAIN stack[t] /\ stack[t][l - 1].pc = "preload_init_"
      BY <1>3, <2>2, <2>3, <2>5, <2>12, <3>1 DEF CallPcs
    <3>2. j - 1 = k - 1
      BY <2>14, <3>1 DEF Inv, OneInit
    <3> QED
      BY <2>5, <3>2
  <2>15. OneInit'
    BY <2>5, <2>14 DEF Inv, OneInit
  <2> QED
    BY <1>1, <2>5, <2>13, <2>15 DEF Inv, TypeOK, Ordered, InitUnchanged
<1> QED
  BY <1>4, <1>5

\* pthread_once() lets one thread into jm_preload_init_().
LEMMA PreloadOnceKeepsInv ==
  ASSUME Inv, NEW t \in Threads, PreloadOnce(t)
  PROVE  Inv'
<1>1. /\ stack[t] # <<>> /\ Fn(t) = "init" /\ Fn(t) = stack[t][1].fn /\ stack[t][1].step = 1
      /\ stack[t][1].pc = "preload_once" /\ stack[t][1] \in Frames
  BY AtFacts, TopFacts DEF PreloadOnce, At, InitPcs, Inv
<1>2. libc' = libc /\ keys' = keys
  BY DEF PreloadOnce
<1>3. CASE preload_init_once = "done" /\ Goto(t, "tracker_once") /\ UNCHANGED preload_init_once
  BY <1>1, <1>2, <1>3, GotoKeepsInv DEF InitPcs, CallPcs, InitUnchanged
<1>4. CASE /\ preload_init_once = "never" /\ preload_init_once' = t
           /\ Goto(t, "preload_init_")
  <2>1. /\ stack' \in [Threads -> Seq(Frames)]
        /\ \A u \in Threads : DOMAIN stack'[u] = DOMAIN stack[u]
        /\ stack'[t][1] = [stack[t][1] EXCEPT !.pc = "preload_init_"]
        /\ \A u \in Threads : \A k \in DOMAIN stack[u] :
               u # t \/ k # 1 => stack'[u][k] = stack[u][k]
    BY <1>1, <1>4, GotoFacts DEF Inv, InitPcs
  <2>2. stack'[t][1].fn = "init" /\ stack'[t][1].pc = "preload_init_" /\ stack'[t][1].step = 1
    BY <1>1, <2>1 DEF Frames
  <2>3. \A u \in Threads : \A k \in DOMAIN stack[u] :
            stack[u][k].pc \notin {"preload_init_", "tracker_once", "tracker_open", "tracker_exec_path"}
    BY <1>4, StartupAssumption DEF Inv, FramesOK, FrameOK
  <2>4. \A n : DoneBefore(n)' = DoneBefore(n)
    BY <1>2 DEF DoneBefore
  <2>5. ASSUME NEW u \in Threads, NEW k \in DOMAIN stack[u] PROVE FrameOK(u, k)'
    <3>1. FrameOK(u, k)
      BY DEF Inv, FramesOK
    <3>2. \A j \in DOMAIN stack[u] : stack'[u][j].fn = stack[u][j].fn
      BY <1>1, <2>1, <2>2
    <3>3. k > 1 => k - 1 \in DOMAIN stack[u]
      BY DEF Inv, TypeOK
    <3>4. CASE u = t /\ k = 1
      <4>1. DoneBefore(1)
        BY DEF DoneBefore
      <4> QED
        BY <1>4, <2>2, <2>4, <3>4, <4>1 DEF FrameOK, InitPcs, CallPcs
    <3>5. CASE u # t \/ k # 1
      <4>1. stack'[u][k] = stack[u][k]
        BY <2>1, <3>5
      <4>2. k > 1 => (stack'[u][k - 1].fn = "init" <=> stack[u][k - 1].fn = "init")
        BY <3>2, <3>3
      <4> QED
        BY <1>2, <2>3, <3>1, <4>1, <4>2 DEF FrameOK
    <3> QED
      BY <3>4, <3>5
  <2>6. OneInit'
    BY <2>1, <2>3 DEF OneInit
  <2>7. Ordered'
    BY <1>2, <1>4, StartupAssumption DEF Inv, Ordered
  <2> QED
    BY <1>4, <2>1, <2>5, <2>6, <2>7 DEF Inv, TypeOK, FramesOK
<1> QED
  BY <1>3, <1>4 DEF PreloadOnce

\* One function more, and after the last one pthread_once() lets the others go on.
LEMMA PreloadInitKeepsInv ==
  ASSUME Inv, NEW t \in Threads, PreloadInit(t)
  PROVE  Inv'
<1>0. PICK n \in 1..10 : n = stack[t][1].step
  BY AtFacts, TopFacts DEF PreloadInit, At, Inv, Frames
<1>1. /\ stack[t] # <<>> /\ Fn(t) = "init" /\ Fn(t) = stack[t][1].fn
      /\ stack[t][1].pc = "preload_init_" /\ stack[t][1] \in Frames
      /\ Head(stack[t]) = stack[t][1] /\ 1 \in DOMAIN stack[t]
      /\ preload_init_once = t /\ DoneBefore(n)
  BY <1>0, AtFacts, TopFacts DEF PreloadInit, At, InitPcs, Inv
<1>2. n \in 1..10
  OBVIOUS
<1>3. /\ keys' = IF InitSteps[n].set = "key" THEN keys \cup {InitSteps[n].fn} ELSE keys
      /\ libc' = IF InitSteps[n].set = "libc" THEN libc \cup {InitSteps[n].fn} ELSE libc
      /\ IF n < 10
         THEN stack' = [stack EXCEPT ![t][1].step = n + 1] /\ UNCHANGED preload_init_once
         ELSE Goto(t, "tracker_once") /\ preload_init_once' = "done"
  BY <1>0, <1>1, StepsFacts DEF PreloadInit
<1>4. keys \subseteq keys' /\ libc \subseteq libc'
  BY <1>3
<1>5. \A j \in 1..10 : j <= n =>
          InitSteps[j].fn \in (IF InitSteps[j].set = "key" THEN keys' ELSE libc')
  <2>1. ASSUME NEW j \in 1..10, j <= n
        PROVE  InitSteps[j].fn \in (IF InitSteps[j].set = "key" THEN keys' ELSE libc')
    <3>1. CASE j = n
      BY <1>2, <1>3, <3>1, StepsFacts
    <3>2. CASE j < n
      BY <1>1, <1>4, <3>2 DEF DoneBefore
    <3> QED
      BY <1>2, <2>1, <3>1, <3>2
  <2> QED
    BY <2>1
<1>6. \A i : DoneBefore(i) => DoneBefore(i)'
  BY <1>4 DEF DoneBefore
<1>7. libc' \cap Fns \subseteq keys'
  <2>1. CASE InitSteps[n].set = "libc" /\ InitSteps[n].fn \in Fns
    <3>1. PICK j \in 1..(n - 1) : InitSteps[j] = Key(InitSteps[n].fn)
      BY <1>2, <2>1, StepsFacts
    <3>2. j \in 1..10 /\ j <= n
      BY <1>2
    <3>3. InitSteps[n].fn \in keys'
      BY <1>5, <3>1, <3>2 DEF Key
    <3> QED
      BY <1>3, <1>4, <2>1, <3>3 DEF Inv, Ordered
  <2>2. CASE ~(InitSteps[n].set = "libc" /\ InitSteps[n].fn \in Fns)
    BY <1>3, <1>4, <2>2 DEF Inv, Ordered
  <2> QED
    BY <2>1, <2>2
<1>8. \A u \in Threads : \A k \in DOMAIN stack[u] :
          /\ u # t \/ k # 1 => stack[u][k].pc # "preload_init_"
          /\ stack[u][k].pc \notin {"tracker_once", "tracker_open", "tracker_exec_path"}
  BY <1>1, StartupAssumption DEF Inv, FramesOK, FrameOK, OneInit
<1>9. ASSUME NEW g \in Frames, stack' = [stack EXCEPT ![t] = [stack[t] EXCEPT ![1] = g]],
             g.fn = "init",
             \/ /\ g.pc = "preload_init_" /\ preload_init_once' = t
                /\ DoneBefore(g.step)'
             \/ /\ g.pc = "tracker_once" /\ preload_init_once' = "done"
                /\ Fns \subseteq libc'
      PROVE  Inv'
  <2>1. /\ TypeOK'
        /\ \A u \in Threads : DOMAIN stack'[u] = DOMAIN stack[u]
        /\ stack'[t][1] = g
        /\ \A u \in Threads : \A k \in DOMAIN stack[u] :
               u # t \/ k # 1 => stack'[u][k] = stack[u][k]
    <3>1. [stack[t] EXCEPT ![1] = g] \in Seq(Frames)
      BY <1>1, <1>9 DEF Inv, TypeOK
    <3> QED
      BY <1>1, <1>9, <3>1 DEF Inv, TypeOK
  <2>2. ASSUME NEW u \in Threads, NEW k \in DOMAIN stack[u] PROVE FrameOK(u, k)'
    <3>1. FrameOK(u, k)
      BY DEF Inv, FramesOK
    <3>2. \A j \in DOMAIN stack[u] : stack'[u][j].fn = stack[u][j].fn
      BY <1>1, <1>9, <2>1
    <3>3. k > 1 => k - 1 \in DOMAIN stack[u]
      BY DEF Inv, TypeOK
    <3>4. CASE u = t /\ k = 1
      BY <1>9, <2>1, <3>4 DEF FrameOK, InitPcs, CallPcs
    <3>5. CASE u # t \/ k # 1
      <4>1. stack'[u][k] = stack[u][k]
        BY <2>1, <3>5
      <4>2. k > 1 => (stack'[u][k - 1].fn = "init" <=> stack[u][k - 1].fn = "init")
        BY <3>2, <3>3
      <4> QED
        BY <1>4, <1>8, <3>1, <3>5, <4>1, <4>2 DEF FrameOK
    <3> QED
      BY <3>4, <3>5
  <2>3. OneInit'
    BY <1>8, <2>1 DEF OneInit
  <2>4. Ordered'
    BY <1>7, <1>9, StartupAssumption DEF Ordered
  <2> QED
    BY <2>1, <2>2, <2>3, <2>4 DEF Inv, FramesOK
<1>10. CASE n < 10
  <2> n + 1 \in 1..10
    BY <1>10
  <2>0. PICK g \in Frames : g = [stack[t][1] EXCEPT !.step = n + 1]
    BY <1>1 DEF Frames
  <2>1. g \in Frames /\ g.fn = "init" /\ g.pc = "preload_init_" /\ g.step = n + 1
    BY <1>1, <1>2, <1>10, <2>0 DEF Frames
  <2>2. stack' = [stack EXCEPT ![t] = [stack[t] EXCEPT ![1] = g]]
    BY <1>3, <1>10, <2>0
  <2>3. DoneBefore(n + 1)'
    BY <1>2, <1>5 DEF DoneBefore
  <2>4. preload_init_once' = t
    BY <1>1, <1>3, <1>10
  <2> QED
    BY <1>9, <2>1, <2>2, <2>3, <2>4
<1>11. CASE ~(n < 10)
  <2>0. PICK g \in Frames : g = [stack[t][1] EXCEPT !.pc = "tracker_once"]
    BY <1>1, <1>2, <1>11 DEF Frames, InitPcs
  <2>1. g \in Frames /\ g.fn = "init" /\ g.pc = "tracker_once"
    BY <1>1, <2>0 DEF Frames, InitPcs
  <2>2. stack' = [stack EXCEPT ![t] = [stack[t] EXCEPT ![1] = g]]
    BY <1>3, <1>11, <2>0 DEF Goto
  <2>3. Fns \subseteq libc'
    <3>1. ASSUME NEW fn \in Fns PROVE fn \in libc'
      <4>1. PICK j \in 1..10 : InitSteps[j] = Libc(fn)
        BY StepsFacts
      <4>2. InitSteps[j].fn = fn /\ InitSteps[j].set # "key" /\ j <= n
        BY <1>2, <1>11, <4>1 DEF Libc
      <4> QED
        BY <1>5, <4>2
    <3> QED
      BY <3>1
  <2>4. preload_init_once' = "done"
    BY <1>3, <1>11
  <2> QED
    BY <1>9, <2>1, <2>2, <2>3, <2>4
<1> QED
  BY <1>10, <1>11

(***************************************************************************)
(* The invariant.                                                          *)
(***************************************************************************)
LEMMA InvInit == Init => Inv
<1> SUFFICES ASSUME Init PROVE Inv
  OBVIOUS
<1>1. \A t \in Threads : DOMAIN stack[t] = {}
  <2>1. DOMAIN <<>> = {}
    OBVIOUS
  <2> QED
    BY <2>1, Zenon DEF Init
<1>2. TypeOK
  BY DEF Init, TypeOK
<1>3. FramesOK /\ OneInit
  BY <1>1 DEF FramesOK, OneInit
<1>4. Ordered
  BY DEF Init, Ordered
<1> QED
  BY <1>2, <1>3, <1>4 DEF Inv

LEMMA InvNext == Inv /\ [Next]_vars => Inv'
<1> SUFFICES ASSUME Inv, [Next]_vars PROVE Inv'
  OBVIOUS
<1>1. CASE UNCHANGED vars
  <2>1. UNCHANGED <<stack, libc, keys, preload_init_once>>
    BY <1>1 DEF vars, initVars
  <2>2. FramesOK' /\ OneInit'
    BY <2>1 DEF Inv, FramesOK, FrameOK, DoneBefore, OneInit
  <2> QED
    BY <2>1, <2>2 DEF Inv, TypeOK, Ordered
<1>2. ASSUME NEW t \in Threads, Call(t) \/ DlsymCall(t) \/ Step(t) PROVE Inv'
  BY <1>2, CallKeepsInv, PreloadInitKeepsInv, PreloadOnceKeepsInv, TrackerKeepsInv,
     EnterKeepsInv, FunctionKeepsInv DEF Step
<1> QED
  BY <1>1, <1>2 DEF Next, Rest

LEMMA InvAlways == Spec => []Inv
<1>1. Inv /\ [Next]_vars => Inv'
  BY InvNext
<1> QED
  BY InvInit, <1>1, PTL DEF Spec

(***************************************************************************)
(* No thread calls a function of the C library whose pointer is not set,   *)
(* also while another thread is in jm_preload_init_() (preload.c:135).     *)
(***************************************************************************)
THEOREM LibcSet == Spec => []LibcBeforeCall
<1>1. Inv => LibcBeforeCall
  BY AtFacts DEF LibcBeforeCall, CallPcs
<1> QED
  BY <1>1, InvAlways, PTL

(***************************************************************************)
(* No thread asks for a key that was not created (preload.c:139), though   *)
(* is_initialized is true from the start.                                  *)
(***************************************************************************)
THEOREM KeyCreated == Spec => []KeyBeforeUse
<1>1. Inv => KeyBeforeUse
  <2> SUFFICES ASSUME Inv, NEW t \in Threads, At(t, "guard") PROVE Fn(t) \in keys
    BY DEF KeyBeforeUse
  <2>1. Fn(t) \in Fns \cup {"init"} /\ Fn(t) # "init" /\ Fn(t) \in libc
    BY AtFacts DEF CallPcs, InitPcs
  <2> QED
    BY <2>1 DEF Inv, Ordered
<1> QED
  BY <1>1, InvAlways, PTL
===============================================================================
