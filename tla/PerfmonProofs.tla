---------------------------- MODULE PerfmonProofs -----------------------------
(***************************************************************************)
(* For any number of events: from the reset on they count together, and    *)
(* after the first ioctl() of jm_perfmon_deinit() none counts.             *)
(***************************************************************************)
EXTENDS Perfmon, TLAPS

Pcs == {"open", "enable", "main", "disable", "close", "failed", "return", "exited"}

TypeOK == /\ pc \in Pcs
          /\ i \in 1..(N + 1)
          /\ fd \in [Counters -> BOOLEAN]
          /\ group \in [Counters -> Counters]
          /\ enabled \in [Counters -> BOOLEAN]
          /\ value \in [Counters -> Nat]
          /\ encoded \in [Counters -> BOOLEAN]

\* The events opened so far are all in the group of the first, and enabled if
\* libpfm knows them.
OpenIn(c) == fd[c] /\ group[c] = 1 /\ (encoded[c] => enabled[c])

OneGroup ==
    /\ pc = "open" => \A c \in Counters : c < i => OpenIn(c)
    /\ pc \in {"enable", "main"} => \A c \in Counters : OpenIn(c)
    /\ pc = "disable" /\ i = 1 => \A c \in Counters : group[c] = 1

\* In jm_perfmon_deinit() they are disabled before one of them is closed.
Disabled ==
    /\ pc = "close" => i <= N
    /\ pc \in {"close", "return"} \/ (pc = "disable" /\ i > 1) => \A c \in Counters : ~enabled[c]

Inv == TypeOK /\ OneGroup /\ Disabled /\ CountTogether

LEMMA OneIsCounter == 1 \in Counters /\ Counters \subseteq Nat
  BY PerfmonAssumption DEF Counters

LEMMA InvInit == Init => Inv
  BY PerfmonAssumption DEF Init, Inv, TypeOK, Pcs, OpenIn, OneGroup, Disabled, CountTogether, Counters

LEMMA InvNext == Inv /\ [Next]_vars => Inv'
<1> SUFFICES ASSUME Inv, [Next]_vars PROVE Inv'
  OBVIOUS
<1> USE PerfmonAssumption, OneIsCounter DEF Inv, TypeOK, Pcs, OpenIn, OneGroup, Disabled, CountTogether
<1>1. CASE OpenEvent
  <2>1. i \in Counters /\ GroupFd(i) \in Counters /\ GroupFd(i) = 1
    BY <1>1 DEF OpenEvent, GroupFd, Counters
  <2> PICK on \in BOOLEAN : enabled' = [enabled EXCEPT ![i] = on] /\ (encoded[i] => on)
    BY <1>1, <2>1 DEF OpenEvent
  <2>2. TypeOK'
    <3>1. i' \in 1..(N + 1)
      BY <1>1 DEF OpenEvent
    <3>2. fd' \in [Counters -> BOOLEAN] /\ enabled' \in [Counters -> BOOLEAN]
      BY <1>1, <2>1 DEF OpenEvent
    <3>3. group' \in [Counters -> Counters]
      BY <1>1, <2>1 DEF OpenEvent
    <3> QED
      BY <1>1, <3>1, <3>2, <3>3 DEF OpenEvent
  <2>3. ASSUME NEW c \in Counters, c < i' PROVE OpenIn(c)'
    <3>1. c = i \/ c < i
      BY <1>1, <2>3 DEF OpenEvent, Counters
    <3>2. CASE c = i
      <4>1. fd'[c] /\ group'[c] = 1 /\ encoded' = encoded
        BY <1>1, <2>1, <3>2 DEF OpenEvent
      <4>2. enabled'[c] = on
        BY <2>1, <3>2
      <4> QED
        BY <3>2, <4>1, <4>2
    <3>3. CASE c < i
      <4>1. c # i
        BY <2>1, <3>3 DEF Counters
      <4>2. OpenIn(c)
        BY <1>1, <3>3 DEF OpenEvent
      <4> QED
        BY <1>1, <2>1, <4>1, <4>2 DEF OpenEvent
    <3> QED
      BY <3>1, <3>2, <3>3
  <2> QED
    BY <1>1, <2>2, <2>3 DEF OpenEvent
<1>2. CASE OpenFails
  BY <1>2 DEF OpenFails
<1>3. CASE Reset
  <2>1. i = N + 1 /\ \A c \in Counters : c < i
    BY <1>3 DEF Reset, Counters
  <2>2. value' = [c \in Counters |-> 0]
    BY <1>3, <2>1 DEF Reset, InGroup
  <2> QED
    BY <1>3, <2>1, <2>2 DEF Reset
<1>4. CASE Enable
  BY <1>4 DEF Enable, InGroup
<1>5. CASE Deinit
  BY <1>5 DEF Deinit
<1>6. CASE Disable
  <2>1. i \in Counters
    BY <1>6 DEF Disable, Counters
  <2>2. enabled' \in [Counters -> BOOLEAN]
    BY <1>6 DEF Disable, InGroup
  <2>3. \A c \in Counters : ~enabled'[c]
    <3>1. TAKE c \in Counters
    <3>2. enabled'[c] = (enabled[c] /\ ~InGroup(c, group[i]))
      BY <1>6 DEF Disable
    <3>3. CASE i = 1
      BY <1>6, <3>2, <3>3 DEF Disable, InGroup
    <3>4. CASE i > 1
      BY <1>6, <3>2, <3>4 DEF Disable
    <3> QED
      BY <2>1, <3>3, <3>4 DEF Counters
  <2> QED
    BY <1>6, <2>1, <2>2, <2>3 DEF Disable, Counters
<1>7. CASE Close
  <2>1. i \in Counters /\ i' \in 1..(N + 1) /\ i' > 1
    BY <1>7 DEF Close, Counters
  <2>2. fd' \in [Counters -> BOOLEAN]
    BY <1>7 DEF Close
  <2>3. group' \in [Counters -> Counters]
    BY <1>7 DEF Close, InGroup
  <2> QED
    BY <1>7, <2>1, <2>2, <2>3 DEF Close
<1>8. CASE CloseFails \/ AllClosed
  BY <1>8 DEF CloseFails, AllClosed
<1>9. CASE Exit
  BY <1>9 DEF Exit
<1>10. ASSUME NEW leader \in Counters, Count(leader) PROVE Inv'
  BY <1>10 DEF Count, InGroup, Counting
<1>11. CASE Exited \/ UNCHANGED vars
  BY <1>11 DEF Exited, vars
<1> QED
  BY <1>1, <1>2, <1>3, <1>4, <1>5, <1>6, <1>7, <1>8, <1>9, <1>10, <1>11 DEF Next

LEMMA InvAlways == Spec => []Inv
  BY InvInit, InvNext, PTL DEF Spec

\* All events count for the same time: each of them is in the group of the first
\* and enabled when the group is reset.
THEOREM Together == Spec => []CountTogether
<1>1. Inv => CountTogether
  BY DEF Inv
<1> QED
  BY <1>1, InvAlways, PTL

\* Nothing counts after the group was disabled: closing the first event splits the
\* group, but enables none.
THEOREM Stopped == Spec => []StopTogether
<1>1. Inv => StopTogether
  BY DEF Inv, TypeOK, Disabled, StopTogether, Counting
<1> QED
  BY <1>1, InvAlways, PTL
===============================================================================
