---------------------------- MODULE LogTextProofs -----------------------------
(***************************************************************************)
(* Theorems about the text of the log, for any rows of /proc/self/maps and *)
(* room for any number of regions, any lines, and buffers of any size: the *)
(* heap regions it ends with, the buffer of a line, and what printf.c      *)
(* prints of an integer, against the C standard.                           *)
(*                                                                         *)
(* A conversion is followed from its digits to its text.  Digits() leaves  *)
(* the numeral turned around (DigitsOfNumeral);                            *)
(* zeros, prefix and sign are put behind it (FinalPlain, FinalPrefix), and *)
(* turned around they stand before it, which is what the standard says     *)
(* (TextWithBlanks, TextFilledUp).                                         *)
(***************************************************************************)
EXTENDS LogText, SequenceTheorems, WellFoundedInduction, TLAPS

(***************************************************************************)
(* find_heap_regions(): the regions stored are numbers of rows.            *)
(***************************************************************************)
RegionsOK == /\ maps \in Seq(Rows)
             /\ next \in Nat \ {0}
             /\ regions \in Seq(Nat)

RegionsInv == RegionsOK /\ HeapReported

LEMMA RegionsInit == HeapInit => RegionsInv
  <1> SUFFICES ASSUME HeapInit PROVE RegionsInv
    OBVIOUS
  <1>1. PICK n \in 1..MaxRows : maps \in [1..n -> Rows]
    BY DEF HeapInit
  <1>2. maps \in Seq(Rows)
    BY <1>1, HeapRegionsAssumption
  <1> QED BY <1>2, HeapRegionsAssumption
          DEF HeapInit, RegionsInv, RegionsOK, HeapReported

\* sscanf() matches all six fields of the row of the heap, whatever stood before.
LEMMA HeapRowIsHeap ==
  ASSUME NEW r \in Rows, r.path = "[heap]", path' = Path(r)
  PROVE  IsHeap(r)
  <1>1. r.offset = "digits" /\ Ret(r) = 6
    BY DEF Rows, Ret
  <1> QED BY <1>1 DEF Path, IsHeap

LEMMA ReadRowKeeps == RegionsInv /\ ReadRow => RegionsInv'
  <1> SUFFICES ASSUME RegionsInv, ReadRow PROVE RegionsInv'
    OBVIOUS
  <1> USE HeapRegionsAssumption DEF RegionsInv, RegionsOK
  <1>1. /\ next \in 1..Len(maps)
        /\ next' = next + 1 /\ maps' = maps /\ path' = Path(maps[next])
    BY DEF ReadRow
  <1>2. next \in Nat /\ next' \in Nat \ {0}
    BY <1>1
  <1>3. CASE IsHeap(maps[next]) /\ ~Full
    <2>1. regions' = Append(regions, next)
      BY <1>3 DEF ReadRow, Store, Full
    <2>2. /\ regions' \in Seq(Nat) /\ Len(regions') = Len(regions) + 1
          /\ \A i \in 1..Len(regions) : regions'[i] = regions[i]
          /\ regions'[Len(regions) + 1] = next
      BY <2>1, <1>2, AppendProperties
    <2>4. DOMAIN regions = 1..Len(regions) /\ DOMAIN regions' = 1..Len(regions')
      BY <2>2
    <2>5. Reported \cup {next} \subseteq Reported'
      <3>1. Len(regions) \in Nat
        OBVIOUS
      <3>2. Len(regions) + 1 \in DOMAIN regions' /\ DOMAIN regions \subseteq DOMAIN regions'
        BY <2>2, <2>4, <3>1
      <3>3. next \in Reported'
        BY <2>2, <3>2 DEF Reported
      <3>4. ASSUME NEW i \in DOMAIN regions PROVE regions[i] \in Reported'
        BY <2>2, <2>4, <3>2 DEF Reported
      <3> QED BY <3>3, <3>4 DEF Reported
    <2> QED BY <1>1, <1>2, <2>2, <2>5, <1>3 DEF HeapReported
  <1>4. CASE ~IsHeap(maps[next]) \/ Full
    <2>1. regions' = regions
      BY <1>4 DEF ReadRow, Store, Full
    <2>2. maps[next].path = "[heap]" => Full'
      <3> SUFFICES ASSUME maps[next].path = "[heap]" PROVE Full
        BY <2>1 DEF Full
      <3>1. maps[next] \in Rows
        BY <1>1
      <3> QED BY <3>1, <1>1, <1>4, HeapRowIsHeap
    <2> QED BY <1>1, <1>2, <2>1, <2>2 DEF HeapReported, Reported, Full
  <1> QED BY <1>3, <1>4

LEMMA RegionsStep == RegionsInv /\ [Next]_vars => RegionsInv'
  <1> SUFFICES ASSUME RegionsInv, [Next]_vars PROVE RegionsInv'
    OBVIOUS
  <1>1. CASE FindHeapRegions
    BY <1>1, ReadRowKeeps DEF FindHeapRegions
  <1>2. CASE UNCHANGED heapVars
    BY <1>2 DEF heapVars, RegionsInv, RegionsOK, HeapReported,
                Reported, Full
  <1>3. CASE ~FindHeapRegions
    <2>1. UNCHANGED heapVars
      BY <1>3 DEF Next, vars, Fprintf, Write, Deinit, Close, Fgets, Finished, writerVars
    <2> QED BY <2>1, <1>2
  <1> QED BY <1>1, <1>3

LEMMA RegionsAlways == Spec => []RegionsInv
  <1>1. Init => RegionsInv
    BY RegionsInit DEF Init
  <1> QED BY <1>1, RegionsStep, PTL DEF Spec

(***************************************************************************)
(* The row of the heap is reported, whatever rows of files stand before it *)
(* and whatever they leave in `path`, unless the regions were full         *)
(* (tracker.c:211-241).                                                    *)
(***************************************************************************)
THEOREM HeapIsReported == Spec => []HeapReported
  <1>1. RegionsInv => HeapReported
    BY DEF RegionsInv
  <1> QED BY <1>1, RegionsAlways, PTL

(***************************************************************************)
(* Numbers: what Digits() of printf.c leaves in its buffer is the numeral, *)
(* turned around, if the buffer has room for it.                           *)
(***************************************************************************)

LEMMA SmallestOf ==
  ASSUME NEW T \in SUBSET Nat, T # {}
  PROVE  \E n \in T : \A m \in T : n <= m
  <1>1. IsWellFoundedOn(OpToRel(<, Nat), Nat)
    BY NatLessThanWellFounded
  <1>2. PICK n \in T : \A y \in T : ~(<<y, n>> \in OpToRel(<, Nat))
    BY <1>1, WFMin
  <1>3. \A y \in T : ~(y < n)
    BY <1>2 DEF OpToRel
  <1> QED BY <1>3

LEMMA Reached ==
  ASSUME NEW N \in Nat, NEW S, 0 \in S, \A n \in 0..(N - 1) : n \in S => n + 1 \in S
  PROVE  \A n \in 0..N : n \in S
  <1> DEFINE T == {n \in 0..N : n \notin S}
  <1> SUFFICES ASSUME T # {} PROVE FALSE
    OBVIOUS
  <1>0. T \in SUBSET Nat
    OBVIOUS
  <1>1. PICK m \in T : \A n \in T : m <= n
    <2> HIDE DEF T
    <2> QED BY <1>0, SmallestOf
  <1>2. m # 0 /\ m - 1 \in 0..(N - 1) /\ m - 1 \in 0..N
    BY <1>1
  <1>3. m - 1 \in S
    BY <1>1, <1>2
  <1>4. (m - 1) + 1 \in S
    BY <1>2, <1>3
  <1> QED BY <1>1, <1>4

\* What the conversions print numbers to.
Bases == {2, 8, 10, 16}

LEMMA Division ==
  ASSUME NEW v \in Nat, NEW base \in Bases
  PROVE  /\ v \div base \in Nat /\ v % base \in 0..15
         /\ v # 0 => v \div base < v
  <1>1. CASE base = 2
    BY <1>1
  <1>2. CASE base = 8
    BY <1>2
  <1>3. CASE base = 10
    BY <1>3
  <1>4. CASE base = 16
    BY <1>4
  <1> QED BY <1>1, <1>2, <1>3, <1>4 DEF Bases

LEMMA QuotientsDefined ==
  ASSUME NEW value \in Nat, NEW base \in Bases
  PROVE  LET q == Quotients(value, base)
         IN  /\ q[0] = value
             /\ \A i \in 1..PRINTF_INTEGER_BUFFER_SIZE : q[i] = q[i - 1] \div base
             /\ \A i \in 0..PRINTF_INTEGER_BUFFER_SIZE : q[i] \in Nat
  <1> DEFINE SIZE == PRINTF_INTEGER_BUFFER_SIZE
             IsRun(g, n) == g = [i \in 0..n |-> IF i = 0 THEN value ELSE g[i - 1] \div base]
             Runs == {n \in Nat : \E g : IsRun(g, n)}
             q == Quotients(value, base)
  <1>s. SIZE \in Nat
    BY PrintfAssumption
  <1>1. 0 \in Runs
    <2>1. IsRun([i \in 0..0 |-> value], 0)
      OBVIOUS
    <2> QED BY <2>1
  <1>2. ASSUME NEW n \in 0..(SIZE - 1), n \in Runs PROVE n + 1 \in Runs
    <2>1. PICK g : IsRun(g, n)
      BY <1>2
    <2> DEFINE h == [i \in 0..(n + 1) |-> IF i = n + 1 THEN g[n] \div base ELSE g[i]]
    <2>2. n \in Nat
      BY <1>s
    <2>3. ASSUME NEW i \in 0..(n + 1) PROVE h[i] = IF i = 0 THEN value ELSE h[i - 1] \div base
      <3>1. CASE i = n + 1
        BY <2>2, <3>1
      <3>2. CASE i # n + 1
        <4>1. i \in 0..n /\ h[i] = g[i]
          BY <2>2, <3>2
        <4>2. g[i] = IF i = 0 THEN value ELSE g[i - 1] \div base
          BY <2>1, <4>1
        <4>3. CASE i = 0
          BY <4>1, <4>2, <4>3
        <4>4. CASE i # 0
          <5>1. i - 1 \in 0..(n + 1) /\ i - 1 # n + 1
            BY <2>2, <4>1, <4>4
          <5> QED BY <4>1, <4>2, <4>4, <5>1
        <4> QED BY <4>3, <4>4
      <3> QED BY <3>1, <3>2
    <2>4. IsRun(h, n + 1)
      BY <2>3
    <2> HIDE DEF IsRun, h
    <2> QED BY <2>2, <2>4
  <1>3. SIZE \in Runs
    <2> HIDE DEF Runs
    <2> QED BY <1>s, <1>1, <1>2, Reached
  <1>4. \E g : IsRun(g, SIZE)
    BY <1>3
  <1>5. IsRun(q, SIZE)
    BY <1>4 DEF Quotients
  <1>6. q[0] = value /\ \A i \in 1..SIZE : q[i] = q[i - 1] \div base
    BY <1>s, <1>5
  <1>7. \A i \in 0..SIZE : q[i] \in Nat
    <2> DEFINE S == {i \in Nat : i <= SIZE => q[i] \in Nat}
    <2>1. 0 \in S
      BY <1>6
    <2>2. ASSUME NEW n \in 0..(SIZE - 1), n \in S PROVE n + 1 \in S
      <3>1. n \in Nat /\ n + 1 \in 1..SIZE /\ (n + 1) - 1 = n /\ q[n] \in Nat
        BY <1>s, <2>2
      <3>2. q[n + 1] = q[n] \div base
        BY <1>6, <3>1
      <3> QED BY <3>1, <3>2, Division
    <2>3. \A n \in 0..SIZE : n \in S
      <3> HIDE DEF S
      <3> QED BY <1>s, <2>1, <2>2, Reached
    <2> QED BY <1>s, <2>3
  <1> QED BY <1>6, <1>7

LEMMA ZeroDivided == ASSUME NEW base \in Bases PROVE 0 \div base = 0 /\ base \in Nat \ {0}
  <1>1. CASE base = 2
    BY <1>1
  <1>2. CASE base = 8
    BY <1>2
  <1>3. CASE base = 10
    BY <1>3
  <1>4. CASE base = 16
    BY <1>4
  <1> QED BY <1>1, <1>2, <1>3, <1>4 DEF Bases

LEMMA LastQuotient ==
  ASSUME NEW v \in Nat, NEW base \in Bases, v # 0, v \div base = 0
  PROVE  v % base # 0
  <1>1. CASE base = 2
    BY <1>1
  <1>2. CASE base = 8
    BY <1>2
  <1>3. CASE base = 10
    BY <1>3
  <1>4. CASE base = 16
    BY <1>4
  <1> QED BY <1>1, <1>2, <1>3, <1>4 DEF Bases

LEMMA DigitIsChar ==
  ASSUME NEW d \in 0..15, NEW upper \in BOOLEAN
  PROVE  DigitChar(d, upper) \in Chars /\ (DigitChar(d, upper) = "0" <=> d = 0)
  <1>1. DigitChar(d, upper) \in Chars
    <2>1. DigitChar(d, upper) \in Symbols
      <3>1. CASE upper = TRUE
        BY <3>1 DEF Symbols
      <3>2. CASE upper = FALSE
        BY <3>2 DEF Symbols
      <3> QED BY <3>1, <3>2
    <2> QED BY <2>1, PrintfAssumption
  <1>2. DigitChar(0, upper) = "0"
    BY DEF DigitChar
  <1>3. ASSUME NEW e \in 1..15 PROVE DigitChar(e, upper) # "0"
    BY DEF DigitChar
  <1> QED BY <1>1, <1>2, <1>3

\* The quotients until they are zero are those of the digits.
LEMMA DigitsRange ==
  ASSUME NEW value \in Nat, NEW base \in Bases
  PROVE  LET q == Quotients(value, base)
         IN  \E n \in 0..PRINTF_INTEGER_BUFFER_SIZE :
                /\ {k \in 1..PRINTF_INTEGER_BUFFER_SIZE : q[k - 1] # 0} = 1..n
                /\ n < PRINTF_INTEGER_BUFFER_SIZE => q[n] = 0
  <1> DEFINE SIZE == PRINTF_INTEGER_BUFFER_SIZE
             q == Quotients(value, base)
             Z == {n \in 0..(SIZE - 1) : q[n] = 0}
  <1>s. SIZE \in Nat
    BY PrintfAssumption
  <1>q. /\ \A i \in 1..SIZE : q[i] = q[i - 1] \div base
        /\ \A i \in 0..SIZE : q[i] \in Nat
    BY QuotientsDefined
  <1> HIDE DEF q
  <1>1. CASE Z = {}
    <2>1. {k \in 1..SIZE : q[k - 1] # 0} = 1..SIZE
      <3>1. ASSUME NEW k \in 1..SIZE PROVE q[k - 1] # 0
        <4>1. k - 1 \in 0..(SIZE - 1)
          BY <1>s
        <4> QED BY <1>1, <4>1
      <3> QED BY <3>1
    <2> QED BY <1>s, <2>1 DEF q
  <1>2. CASE Z # {}
    <2>1. PICK n \in Z : \A m \in Z : n <= m
      <3>1. Z \in SUBSET Nat
        BY <1>s
      <3> HIDE DEF Z
      <3> QED BY <1>2, <3>1, SmallestOf
    <2>2. n \in Nat /\ n < SIZE /\ q[n] = 0
      BY <1>s, <2>1
    <2> DEFINE S == {i \in Nat : i >= n /\ i <= SIZE => q[i] = 0}
    <2>3. \A i \in 0..SIZE : i \in S
      <3>1. 0 \in S
        BY <2>2
      <3>2. ASSUME NEW i \in 0..(SIZE - 1), i \in S PROVE i + 1 \in S
        <4>1. i \in Nat /\ i + 1 \in 1..SIZE /\ (i + 1) - 1 = i
          BY <1>s
        <4>2. q[i + 1] = q[i] \div base
          BY <1>q, <4>1
        <4>3. CASE i >= n
          <5>1. q[i] = 0
            BY <1>s, <3>2, <4>1, <4>3
          <5> QED BY <4>1, <4>2, <5>1, ZeroDivided
        <4>4. CASE i < n
          BY <2>2, <4>1, <4>4
        <4> QED BY <2>2, <4>1, <4>3, <4>4
      <3> HIDE DEF S
      <3> QED BY <1>s, <3>1, <3>2, Reached
    <2>4. {k \in 1..SIZE : q[k - 1] # 0} = 1..n
      <3>1. ASSUME NEW k \in 1..SIZE PROVE q[k - 1] # 0 <=> k <= n
        <4>1. k - 1 \in 0..(SIZE - 1) /\ k - 1 \in Nat
          BY <1>s
        <4>2. CASE k <= n
          <5>1. ~(n <= k - 1)
            BY <2>2, <4>2
          <5> QED BY <2>1, <4>1, <4>2, <5>1
        <4>3. CASE ~(k <= n)
          <5>1. k - 1 >= n /\ k - 1 \in 0..SIZE /\ k - 1 <= SIZE
            BY <1>s, <2>2, <4>1, <4>3
          <5> QED BY <2>3, <4>3, <5>1
        <4> QED BY <4>2, <4>3
      <3> QED BY <1>s, <2>2, <3>1
    <2> QED BY <1>s, <2>2, <2>4 DEF q
  <1> QED BY <1>1, <1>2

LEMMA NumeralDefined ==
  ASSUME NEW value \in Nat, NEW base \in Bases, NEW upper \in BOOLEAN
  PROVE  \E num : /\ Numeral(value, base, upper) = num[value]
                  /\ \A v \in 0..value :
                        num[v] = IF v = 0 THEN <<>>
                                 ELSE Append(num[v \div base], DigitChar(v % base, upper))
  <1> DEFINE IsRun(g, n) == g = [v \in 0..n |-> IF v = 0 THEN <<>>
                                  ELSE Append(g[v \div base], DigitChar(v % base, upper))]
             Runs == {n \in Nat : \E g : IsRun(g, n)}
  <1>1. 0 \in Runs
    <2>1. IsRun([i \in 0..0 |-> <<>>], 0)
      OBVIOUS
    <2> HIDE DEF IsRun
    <2> QED BY <2>1
  <1>2. ASSUME NEW n \in 0..(value - 1), n \in Runs PROVE n + 1 \in Runs
    <2>1. PICK g : IsRun(g, n)
      BY <1>2
    <2> DEFINE last == Append(g[(n + 1) \div base], DigitChar((n + 1) % base, upper))
               h == [v \in 0..(n + 1) |-> IF v = n + 1 THEN last ELSE g[v]]
    <2>2. n \in Nat /\ n + 1 \in Nat /\ n + 1 # 0
      OBVIOUS
    <2>3. ASSUME NEW v \in 0..(n + 1)
          PROVE  h[v] = IF v = 0 THEN <<>>
                        ELSE Append(h[v \div base], DigitChar(v % base, upper))
      <3>0. v \in Nat /\ v \div base \in Nat /\ (v # 0 => v \div base < v)
        BY <2>2, Division
      <3>1. CASE v = n + 1
        <4>1. v \div base \in 0..n /\ v \div base # n + 1 /\ v \div base \in 0..(n + 1)
          BY <2>2, <3>0, <3>1
        <4>2. h[v \div base] = g[v \div base] /\ h[v] = last /\ v # 0
          BY <2>2, <3>1, <4>1
        <4> HIDE DEF h
        <4> QED BY <3>1, <4>2
      <3>2. CASE v # n + 1
        <4>1. v \in 0..n /\ h[v] = g[v]
          BY <2>2, <3>2
        <4>2. g[v] = IF v = 0 THEN <<>> ELSE Append(g[v \div base], DigitChar(v % base, upper))
          BY <2>1, <4>1
        <4>3. CASE v = 0
          BY <4>1, <4>2, <4>3
        <4>4. CASE v # 0
          <5>1. v \div base \in 0..(n + 1) /\ v \div base # n + 1
            BY <2>2, <3>0, <4>1, <4>4
          <5>2. h[v \div base] = g[v \div base]
            BY <5>1
          <5> HIDE DEF h
          <5> QED BY <4>1, <4>2, <4>4, <5>2
        <4> QED BY <4>3, <4>4
      <3> QED BY <3>1, <3>2
    <2>4. IsRun(h, n + 1)
      <3>1. h = [v \in 0..(n + 1) |-> h[v]]
        OBVIOUS
      <3> HIDE DEF h
      <3> QED BY <2>3, <3>1
    <2> HIDE DEF IsRun, h
    <2> QED BY <2>2, <2>4
  <1>3. value \in Runs
    <2> HIDE DEF Runs
    <2> QED BY <1>1, <1>2, Reached
  <1>4. \E g : IsRun(g, value)
    BY <1>3
  <1> DEFINE num == CHOOSE g : IsRun(g, value)
  <1>5. IsRun(num, value)
    <2> HIDE DEF IsRun
    <2> QED BY <1>4
  <1>6. Numeral(value, base, upper) = num[value]
    BY DEF Numeral
  <1> HIDE DEF num
  <1> QED BY <1>5, <1>6

\* The loop of print_integer() finds the digits of the numeral, the lowest first.
LEMMA DigitsOfNumeral ==
  ASSUME NEW value \in Nat, NEW base \in Bases, NEW upper \in BOOLEAN
  PROVE  LET D == Digits(value, base, upper)
             N == Numeral(value, base, upper)
         IN  /\ D \in Seq(Chars) /\ Len(D) <= PRINTF_INTEGER_BUFFER_SIZE
             /\ N \in Seq(Chars)
             /\ value = 0 => D = <<>>
             /\ value # 0 => Len(D) > 0
             /\ Len(N) <= PRINTF_INTEGER_BUFFER_SIZE =>
                   N = Reverse(D) /\ (Len(N) > 0 => N[1] # "0")
  <1> DEFINE SIZE == PRINTF_INTEGER_BUFFER_SIZE
             D == Digits(value, base, upper)
             N == Numeral(value, base, upper)
             q == Quotients(value, base)
             C(v) == DigitChar(v % base, upper)
  <1>s. SIZE \in Nat \ {0}
    BY PrintfAssumption
  <1>q. /\ q[0] = value
        /\ \A i \in 1..SIZE : q[i] = q[i - 1] \div base
        /\ \A i \in 0..SIZE : q[i] \in Nat
    BY QuotientsDefined
  <1>1. PICK n \in 0..SIZE : /\ {k \in 1..SIZE : q[k - 1] # 0} = 1..n
                             /\ n < SIZE => q[n] = 0
    BY DigitsRange
  <1>2. D = [i \in 1..n |-> C(q[i - 1])]
    BY <1>1 DEF Digits
  <1>3. PICK num : /\ N = num[value]
                   /\ \A v \in 0..value :
                         num[v] = IF v = 0 THEN <<>> ELSE Append(num[v \div base], C(v))
    BY NumeralDefined
  <1>c. \A v \in Nat : C(v) \in Chars
    BY Division, DigitIsChar
  <1>n. n \in Nat /\ n <= SIZE
    BY <1>1, <1>s
  <1> HIDE DEF q, C, D, N
  <1>4. \A i \in 0..SIZE : q[i] \in 0..value
    <2> DEFINE S == {i \in Nat : i <= SIZE => q[i] \in 0..value}
    <2>1. 0 \in S
      BY <1>q
    <2>2. ASSUME NEW i \in 0..(SIZE - 1), i \in S PROVE i + 1 \in S
      <3>1. i \in Nat /\ i + 1 \in 1..SIZE /\ (i + 1) - 1 = i /\ q[i] \in 0..value
        BY <1>s, <2>2
      <3>2. q[i + 1] = q[i] \div base
        BY <1>q, <3>1
      <3>3. q[i] = 0 \/ q[i] \div base < q[i]
        BY <3>1, Division
      <3>4. q[i] \div base \in Nat
        BY <3>1, Division
      <3>5. q[i] \div base \in 0..value
        <4>1. CASE q[i] = 0
          BY <4>1, ZeroDivided
        <4>2. CASE q[i] # 0
          <5> DEFINE d == q[i] \div base
          <5>1. d \in Nat /\ d < q[i]
            BY <3>3, <3>4, <4>2
          <5> HIDE DEF d
          <5>2. d \in 0..value
            BY <3>1, <5>1
          <5> QED BY <5>2 DEF d
        <4> QED BY <4>1, <4>2
      <3> QED BY <3>1, <3>2, <3>5
    <2> HIDE DEF S
    <2>3. \A i \in 0..SIZE : i \in S
      BY <1>s, <2>1, <2>2, Reached
    <2> QED BY <1>s, <2>3 DEF S
  <1>5. \A v \in 0..value : num[v] \in Seq(Chars)
    <2> DEFINE T == {v \in 0..value : num[v] \notin Seq(Chars)}
    <2> SUFFICES ASSUME T # {} PROVE FALSE
      OBVIOUS
    <2>1. T \in SUBSET Nat
      OBVIOUS
    <2>2. PICK v \in T : \A w \in T : v <= w
      <3> HIDE DEF T
      <3> QED BY <2>1, SmallestOf
    <2>3. v \in Nat /\ v # 0 /\ v \in 0..value
      <3>1. 0 \in 0..value
        OBVIOUS
      <3>2. num[0] = <<>> /\ <<>> \in Seq(Chars)
        BY <1>3, <3>1
      <3>3. v \in 0..value /\ num[v] \notin Seq(Chars)
        OBVIOUS
      <3>4. v # 0
        <4> SUFFICES ASSUME v = 0 PROVE FALSE
          OBVIOUS
        <4> HIDE DEF T
        <4> QED BY <3>2, <3>3
      <3> QED BY <3>3, <3>4
    <2> DEFINE d == v \div base
    <2>4. d \in Nat /\ d < v
      BY <2>3, Division
    <2>5. num[v] = Append(num[d], C(v))
      BY <1>3, <2>3
    <2> HIDE DEF d
    <2>6. d \in 0..value /\ ~(v <= d)
      BY <2>3, <2>4
    <2>7. num[d] \in Seq(Chars)
      BY <2>2, <2>6
    <2>8. num[v] \in Seq(Chars)
      <3>1. C(v) \in Chars
        BY <1>c, <2>3
      <3> QED BY <2>5, <2>7, <3>1, AppendProperties
    <2> QED BY <2>2, <2>8
  <1> DEFINE W(i) == [j \in 1..i |-> C(q[i - j])]
  <1>6. ASSUME NEW i \in 0..n
        PROVE  W(i) \in Seq(Chars) /\ Len(W(i)) = i
    <2>1. i \in Nat
      BY <1>n
    <2>2. \A j \in 1..i : i - j \in 0..SIZE
      BY <1>n, <1>s, <2>1
    <2>3. \A j \in 1..i : C(q[i - j]) \in Chars
      BY <1>c, <1>q, <2>2
    <2> QED BY <2>1, <2>3
  <1>7. \A i \in 0..n : N = num[q[i]] \o W(i)
    <2> DEFINE Split(i) == N = num[q[i]] \o W(i)
               S == {i \in Nat : i <= n => Split(i)}
    <2>1. 0 \in S
      <3>1. W(0) = <<>>
        OBVIOUS
      <3>2. N = num[q[0]] /\ N \in Seq(Chars)
        BY <1>3, <1>4, <1>5, <1>q, <1>s
      <3> HIDE DEF W
      <3>3. Split(0)
        BY <3>1, <3>2
      <3> HIDE DEF Split
      <3> QED BY <3>3
    <2>2. ASSUME NEW i \in 0..(n - 1), i \in S PROVE i + 1 \in S
      <3>1. /\ i \in Nat /\ i \in 0..n /\ i + 1 \in 0..n /\ i + 1 \in 1..n /\ (i + 1) - 1 = i
            /\ i \in 0..SIZE /\ i + 1 \in 0..SIZE /\ i + 1 \in 1..SIZE
        BY <1>n, <1>s
      <3>2. q[i + 1] = q[i] \div base /\ q[i] # 0
        BY <1>1, <1>q, <3>1
      <3> DEFINE A == num[q[i + 1]]
                 c == C(q[i])
      <3>3. num[q[i]] = Append(A, c) /\ A \in Seq(Chars) /\ c \in Chars
        BY <1>3, <1>4, <1>5, <1>c, <1>q, <3>1, <3>2
      <3>4. W(i) \in Seq(Chars) /\ Len(W(i)) = i /\ W(i + 1) \in Seq(Chars) /\ Len(W(i + 1)) = i + 1
        BY <1>6, <3>1
      <3>5. <<c>> \o W(i) = W(i + 1)
        <4>1. <<c>> \in Seq(Chars) /\ Len(<<c>>) = 1 /\ <<c>>[1] = c
          BY <3>3
        <4>2. ASSUME NEW k \in 1..(i + 1) PROVE (<<c>> \o W(i))[k] = W(i + 1)[k]
          <5>1. W(i + 1)[k] = C(q[(i + 1) - k])
            BY <3>1
          <5>2. CASE k = 1
            <6>1. (<<c>> \o W(i))[k] = c
              <7> HIDE DEF c, W
              <7> QED BY <3>4, <4>1, <5>2, ConcatProperties
            <6> QED BY <3>1, <5>1, <5>2, <6>1
          <5>3. CASE k # 1
            <6>1. k - 1 \in 1..i /\ i - (k - 1) = (i + 1) - k
              BY <3>1, <5>3
            <6>2. (<<c>> \o W(i))[k] = W(i)[k - 1]
              <7> HIDE DEF c, W
              <7> QED BY <3>1, <3>4, <4>1, <5>3, ConcatProperties
            <6>3. W(i)[k - 1] = C(q[i - (k - 1)])
              BY <6>1
            <6> QED BY <5>1, <6>1, <6>2, <6>3
          <5> QED BY <5>2, <5>3
        <4> HIDE DEF c, W
        <4>3. Len(<<c>> \o W(i)) = i + 1 /\ <<c>> \o W(i) \in Seq(Chars)
          BY <3>1, <3>4, <4>1, ConcatProperties
        <4> QED BY <3>4, <4>2, <4>3, SeqEqual
      <3>6. N = num[q[i]] \o W(i)
        BY <2>2, <3>1
      <3> HIDE DEF A, c, W
      <3>7. Append(A, c) = A \o <<c>> /\ <<c>> \in Seq(Chars)
        BY <3>3, AppendIsConcat
      <3>8. (A \o <<c>>) \o W(i) = A \o (<<c>> \o W(i))
        BY <3>3, <3>4, <3>7, ConcatAssociative
      <3>9. Split(i + 1)
        BY <3>3, <3>5, <3>6, <3>7, <3>8 DEF A
      <3> HIDE DEF Split
      <3> QED BY <3>1, <3>9
    <2> HIDE DEF S
    <2>3. \A i \in 0..n : i \in S
      BY <1>n, <2>1, <2>2, Reached
    <2>4. \A i \in 0..n : Split(i)
      <3> HIDE DEF Split
      <3> QED BY <1>n, <2>3 DEF S
    <2> HIDE DEF W
    <2> QED BY <2>4
  <1>8. D \in Seq(Chars) /\ Len(D) = n /\ (\A k \in 1..n : D[k] = C(q[k - 1]))
    <2>1. \A k \in 1..n : k - 1 \in 0..SIZE
      BY <1>n, <1>s
    <2>2. \A k \in 1..n : C(q[k - 1]) \in Chars
      BY <1>c, <1>q, <2>1
    <2> QED BY <1>2, <1>n, <2>2
  <1>9. N \in Seq(Chars)
    BY <1>3, <1>5
  <1>10. N = num[q[n]] \o W(n) /\ W(n) \in Seq(Chars) /\ Len(W(n)) = n
    <2> HIDE DEF W
    <2> QED BY <1>6, <1>7, <1>n
  <1>11. ASSUME q[n] = 0 PROVE N = Reverse(D) /\ (Len(N) > 0 => N[1] # "0")
    <2>1. num[q[n]] = <<>>
      <3>1. 0 \in 0..value
        OBVIOUS
      <3> QED BY <1>3, <1>11, <3>1
    <2>2. N = W(n)
      <3> HIDE DEF W
      <3> QED BY <1>10, <2>1
    <2>3. W(n) = Reverse(D)
      <3>1. Reverse(D) = [k \in 1..n |-> D[n - k + 1]]
        BY <1>8 DEF Reverse
      <3>2. ASSUME NEW k \in 1..n PROVE D[n - k + 1] = C(q[n - k])
        <4>1. n - k + 1 \in 1..n /\ (n - k + 1) - 1 = n - k
          BY <1>n
        <4> QED BY <1>8, <4>1
      <3> QED BY <3>1, <3>2
    <2>4. ASSUME n > 0 PROVE N[1] # "0"
      <3>1. n \in 1..n /\ n - 1 \in 0..SIZE /\ n \in 1..SIZE /\ 1 \in 1..n
        BY <1>n, <1>s, <2>4
      <3>2. q[n - 1] # 0 /\ q[n] = q[n - 1] \div base /\ q[n - 1] \in Nat
        BY <1>1, <1>q, <3>1
      <3>3. q[n - 1] % base # 0 /\ q[n - 1] % base \in 0..15
        BY <1>11, <3>2, LastQuotient, Division
      <3>4. N[1] = C(q[n - 1])
        BY <2>2, <3>1
      <3> QED BY <3>3, <3>4, DigitIsChar DEF C
    <2> HIDE DEF W
    <2> QED BY <1>10, <2>2, <2>3, <2>4
  <1>12. ASSUME q[n] # 0 PROVE ~(Len(N) <= SIZE)
    <2>1. n = SIZE
      BY <1>1, <1>12, <1>n, <1>s
    <2>2. q[n] \in 0..value /\ q[n] \in Nat
      BY <1>4, <1>n, <1>q
    <2>3. q[n] \div base \in 0..value
      <3> DEFINE d == q[n] \div base
      <3>1. d \in Nat /\ d < q[n]
        BY <1>12, <2>2, Division
      <3> HIDE DEF d
      <3>2. d \in 0..value
        BY <2>2, <3>1
      <3> QED BY <3>2 DEF d
    <2>4. num[q[n]] = Append(num[q[n] \div base], C(q[n])) /\ num[q[n] \div base] \in Seq(Chars)
      BY <1>12, <1>3, <1>5, <2>2, <2>3
    <2>5. Len(num[q[n]]) > 0 /\ num[q[n]] \in Seq(Chars)
      <3>1. C(q[n]) \in Chars
        BY <1>c, <2>2
      <3> QED BY <2>4, <3>1, AppendProperties
    <2>6. Len(N) = Len(num[q[n]]) + n
      <3> HIDE DEF W
      <3>1. PICK a \in Seq(Chars), b \in Seq(Chars) : a = num[q[n]] /\ b = W(n)
        BY <1>10, <2>5
      <3>2. N = a \o b /\ Len(b) = n
        BY <1>10, <3>1
      <3>3. Len(a \o b) = Len(a) + Len(b)
        BY ConcatProperties
      <3> QED BY <3>1, <3>2, <3>3
    <2> HIDE DEF W
    <2> QED BY <1>n, <2>1, <2>5, <2>6
  <1>13. Len(N) <= SIZE => N = Reverse(D) /\ (Len(N) > 0 => N[1] # "0")
    BY <1>11, <1>12
  <1>14. (value = 0 => D = <<>>) /\ (value # 0 => Len(D) > 0)
    <2>1. value # 0 <=> 1 \in 1..n
      <3>1. 1 \in 1..SIZE /\ 1 - 1 = 0
        BY <1>s
      <3>2. 1 \in {k \in 1..SIZE : q[k - 1] # 0} <=> value # 0
        BY <1>q, <3>1
      <3> QED BY <1>1, <3>2
    <2> QED BY <1>8, <1>n, <2>1
  <1> QED BY <1>8, <1>9, <1>13, <1>14, <1>n DEF D, N

(***************************************************************************)
(* Texts: repeated, joined and turned around.                              *)
(***************************************************************************)

LEMMA TimesIs ==
  ASSUME NEW char \in Chars, NEW n \in Int
  PROVE  /\ Times(char, n) \in Seq(Chars)
         /\ Len(Times(char, n)) = IF n > 0 THEN n ELSE 0
         /\ \A i \in 1..n : Times(char, n)[i] = char
         /\ n <= 0 => Times(char, n) = <<>>
  <1>1. CASE n > 0
    BY <1>1 DEF Times
  <1>2. CASE n <= 0
    <2>1. 1..n = {}
      BY <1>2
    <2>2. Times(char, n) = <<>>
      BY <2>1 DEF Times
    <2> QED BY <1>2, <2>1, <2>2, EmptySeq
  <1> QED BY <1>1, <1>2

LEMMA ReverseIs ==
  ASSUME NEW s \in Seq(Chars)
  PROVE  /\ Reverse(s) \in Seq(Chars) /\ Len(Reverse(s)) = Len(s)
         /\ \A i \in 1..Len(s) : Reverse(s)[i] = s[Len(s) - i + 1]
         /\ Reverse(Reverse(s)) = s
  <1>1. \A i \in 1..Len(s) : Len(s) - i + 1 \in 1..Len(s)
    OBVIOUS
  <1>2. /\ Reverse(s) \in Seq(Chars) /\ Len(Reverse(s)) = Len(s)
        /\ \A i \in 1..Len(s) : Reverse(s)[i] = s[Len(s) - i + 1]
    BY <1>1 DEF Reverse
  <1>3. Reverse(Reverse(s)) = s
    <2> DEFINE t == Reverse(s)
    <2>1. t \in Seq(Chars) /\ Len(t) = Len(s) /\ \A i \in 1..Len(s) : t[i] = s[Len(s) - i + 1]
      BY <1>2
    <2>2. /\ Reverse(t) = [i \in 1..Len(s) |-> t[Len(s) - i + 1]]
      BY <2>1 DEF Reverse
    <2> HIDE DEF t
    <2>3. ASSUME NEW i \in 1..Len(s) PROVE Reverse(t)[i] = s[i]
      <3>1. Len(s) - i + 1 \in 1..Len(s) /\ Len(s) - (Len(s) - i + 1) + 1 = i
        OBVIOUS
      <3> QED BY <2>1, <2>2, <3>1
    <2>4. Reverse(t) = s
      BY <2>2, <2>3
    <2> QED BY <2>4 DEF t
  <1> QED BY <1>2, <1>3

LEMMA ConcatIs ==
  ASSUME NEW s \in Seq(Chars), NEW t \in Seq(Chars), NEW m \in Nat, NEW n \in Nat,
         Len(s) = m, Len(t) = n
  PROVE  /\ s \o t \in Seq(Chars) /\ Len(s \o t) = m + n
         /\ \A i \in 1..(m + n) : (s \o t)[i] = IF i <= m THEN s[i] ELSE t[i - m]
  BY ConcatProperties

LEMMA ReverseOf ==
  ASSUME NEW s \in Seq(Chars), NEW m \in Nat, Len(s) = m
  PROVE  /\ Reverse(s) \in Seq(Chars) /\ Len(Reverse(s)) = m
         /\ \A i \in 1..m : Reverse(s)[i] = s[m - i + 1]
  BY ReverseIs

LEMMA ReverseConcat ==
  ASSUME NEW s \in Seq(Chars), NEW t \in Seq(Chars)
  PROVE  Reverse(s \o t) = Reverse(t) \o Reverse(s)
  <1>0. PICK m \in Nat, n \in Nat : m = Len(s) /\ n = Len(t)
    OBVIOUS
  <1>1. s \o t \in Seq(Chars) /\ Len(s \o t) = m + n
    BY <1>0, ConcatProperties
  <1>2. /\ Reverse(s) \in Seq(Chars) /\ Reverse(t) \in Seq(Chars) /\ Reverse(s \o t) \in Seq(Chars)
        /\ Len(Reverse(s)) = m /\ Len(Reverse(t)) = n /\ Len(Reverse(s \o t)) = m + n
        /\ \A i \in 1..m : Reverse(s)[i] = s[m - i + 1]
        /\ \A i \in 1..n : Reverse(t)[i] = t[n - i + 1]
        /\ \A i \in 1..(m + n) : Reverse(s \o t)[i] = (s \o t)[m + n - i + 1]
    <2>1. Reverse(s) \in Seq(Chars) /\ Len(Reverse(s)) = m
          /\ \A i \in 1..m : Reverse(s)[i] = s[m - i + 1]
      BY <1>0, ReverseOf
    <2>2. Reverse(t) \in Seq(Chars) /\ Len(Reverse(t)) = n
          /\ \A i \in 1..n : Reverse(t)[i] = t[n - i + 1]
      BY <1>0, ReverseOf
    <2>0. m + n \in Nat
      OBVIOUS
    <2>3. PICK r \in Nat, u \in Seq(Chars) : r = m + n /\ u = s \o t /\ Len(u) = r
      BY <1>1, <2>0
    <2>4. Reverse(u) \in Seq(Chars) /\ Len(Reverse(u)) = r
          /\ \A i \in 1..r : Reverse(u)[i] = u[r - i + 1]
      BY <2>3, ReverseOf
    <2> QED BY <2>1, <2>2, <2>3, <2>4
  <1>3. /\ Reverse(t) \o Reverse(s) \in Seq(Chars) /\ Len(Reverse(t) \o Reverse(s)) = m + n
        /\ \A i \in 1..(m + n) : (Reverse(t) \o Reverse(s))[i] =
                                     IF i <= n THEN Reverse(t)[i] ELSE Reverse(s)[i - n]
        /\ \A i \in 1..(m + n) : (s \o t)[i] = IF i <= m THEN s[i] ELSE t[i - m]
    <2>1. \A i \in 1..(m + n) : (s \o t)[i] = IF i <= m THEN s[i] ELSE t[i - m]
      BY <1>0, ConcatIs
    <2>2. PICK a \in Seq(Chars), b \in Seq(Chars) :
              a = Reverse(t) /\ b = Reverse(s) /\ Len(a) = n /\ Len(b) = m
      BY <1>2
    <2>3. /\ a \o b \in Seq(Chars) /\ Len(a \o b) = n + m
          /\ \A i \in 1..(n + m) : (a \o b)[i] = IF i <= n THEN a[i] ELSE b[i - n]
      <3>1. a \in Seq(Chars) /\ b \in Seq(Chars) /\ Len(a) = n /\ Len(b) = m
        BY <2>2
      <3>2. a \o b \in Seq(Chars) /\ Len(a \o b) = n + m
        BY <3>1, ConcatProperties
      <3>3. \A i \in 1..(n + m) : (a \o b)[i] = IF i <= n THEN a[i] ELSE b[i - n]
        BY <3>1, ConcatProperties
      <3> QED BY <3>2, <3>3
    <2>4. n + m = m + n
      OBVIOUS
    <2> QED BY <2>1, <2>2, <2>3, <2>4
  <1>4. ASSUME NEW i \in 1..(m + n) PROVE Reverse(s \o t)[i] = (Reverse(t) \o Reverse(s))[i]
    <2>0. i \in Int
      OBVIOUS
    <2>1. Reverse(s \o t)[i] = (s \o t)[m + n - i + 1]
      BY <1>2
    <2>2. CASE i <= n
      <3>1. i \in 1..n /\ m + n - i + 1 \in 1..(m + n) /\ ~(m + n - i + 1 <= m)
            /\ (m + n - i + 1) - m = n - i + 1
        BY <2>0, <2>2
      <3>2. (Reverse(t) \o Reverse(s))[i] = Reverse(t)[i]
        BY <1>3, <2>2
      <3>3. (s \o t)[m + n - i + 1] = t[n - i + 1]
        <4> DEFINE j == m + n - i + 1
        <4>1. j \in 1..(m + n) /\ ~(j <= m) /\ j - m = n - i + 1
          BY <3>1
        <4> HIDE DEF j
        <4>2. (s \o t)[j] = t[j - m]
          BY <1>3, <4>1
        <4> QED BY <4>1, <4>2 DEF j
      <3> QED BY <1>2, <2>1, <3>1, <3>2, <3>3
    <2>3. CASE ~(i <= n)
      <3>1. i - n \in 1..m /\ m + n - i + 1 \in 1..(m + n) /\ m + n - i + 1 <= m
            /\ m - (i - n) + 1 = m + n - i + 1
        BY <2>0, <2>3
      <3>2. (Reverse(t) \o Reverse(s))[i] = Reverse(s)[i - n]
        BY <1>3, <2>3
      <3>3. (s \o t)[m + n - i + 1] = s[m + n - i + 1]
        BY <1>3, <3>1
      <3> QED BY <1>2, <2>1, <3>1, <3>2, <3>3
    <2> QED BY <2>2, <2>3
  <1> QED BY <1>2, <1>3, <1>4, SeqEqual

LEMMA ReverseTimes ==
  ASSUME NEW char \in Chars, NEW n \in Int
  PROVE  Reverse(Times(char, n)) = Times(char, n)
  <1>1. CASE n > 0
    <2> DEFINE s == Times(char, n)
    <2>1. s \in Seq(Chars) /\ Len(s) = n /\ \A i \in 1..n : s[i] = char
      BY <1>1, TimesIs
    <2> HIDE DEF s
    <2>2. /\ Reverse(s) \in Seq(Chars) /\ Len(Reverse(s)) = n
          /\ \A i \in 1..n : Reverse(s)[i] = s[n - i + 1]
      BY <2>1, ReverseIs
    <2>3. ASSUME NEW i \in 1..n PROVE Reverse(s)[i] = s[i]
      <3>1. n - i + 1 \in 1..n
        OBVIOUS
      <3> QED BY <2>1, <2>2, <3>1
    <2>4. Reverse(s) = s
      BY <2>1, <2>2, <2>3, SeqEqual
    <2> QED BY <2>4 DEF s
  <1>2. CASE n <= 0
    <2>1. Times(char, n) = <<>>
      BY <1>2, TimesIs
    <2> QED BY <2>1 DEF Reverse
  <1> QED BY <1>1, <1>2

LEMMA TimesJoin ==
  ASSUME NEW char \in Chars, NEW m \in Nat, NEW n \in Nat
  PROVE  Times(char, m) \o Times(char, n) = Times(char, m + n)
  <1>1. /\ Times(char, m) \in Seq(Chars) /\ Len(Times(char, m)) = m
        /\ Times(char, n) \in Seq(Chars) /\ Len(Times(char, n)) = n
        /\ Times(char, m + n) \in Seq(Chars) /\ Len(Times(char, m + n)) = m + n
    BY TimesIs
  <1>2. /\ Times(char, m) \o Times(char, n) \in Seq(Chars)
        /\ Len(Times(char, m) \o Times(char, n)) = m + n
    BY <1>1, ConcatProperties
  <1>3. ASSUME NEW i \in 1..(m + n)
        PROVE  (Times(char, m) \o Times(char, n))[i] = Times(char, m + n)[i]
    <2>1. Times(char, m + n)[i] = char
      BY TimesIs
    <2>2. CASE i <= m
      <3>1. i \in 1..m
        BY <2>2
      <3>2. Times(char, m)[i] = char
        BY <3>1, TimesIs
      <3>3. (Times(char, m) \o Times(char, n))[i] = Times(char, m)[i]
        BY <1>1, <2>2, <3>1, ConcatProperties
      <3> QED BY <2>1, <3>2, <3>3
    <2>3. CASE i > m
      <3>1. i - m \in 1..n
        BY <2>3
      <3>2. Times(char, n)[i - m] = char
        BY <3>1, TimesIs
      <3>3. (Times(char, m) \o Times(char, n))[i] = Times(char, n)[i - m]
        <4>1. PICK a \in Seq(Chars), b \in Seq(Chars) :
                 a = Times(char, m) /\ b = Times(char, n) /\ Len(a) = m /\ Len(b) = n
          BY <1>1
        <4>2. (a \o b)[i] = b[i - m]
          BY <2>3, <4>1
        <4> QED BY <4>1, <4>2
      <3> QED BY <2>1, <3>2, <3>3
    <2>4. i <= m \/ i > m
      OBVIOUS
    <2> QED BY <2>2, <2>3, <2>4
  <1> QED BY <1>1, <1>2, <1>3, SeqEqual

LEMMA SymbolsAreChars ==
  {"0", "b", " ", "x", "X", "-", "+", "%", "(", ")", "n", "i", "l", "u"} \subseteq Chars
  <1>1. DigitChar(0, FALSE) = "0" /\ DigitChar(11, FALSE) = "b"
    BY DEF DigitChar
  <1>2. DigitChar(0, FALSE) \in Chars /\ DigitChar(11, FALSE) \in Chars
    <2>1. 0 \in 0..15 /\ 11 \in 0..15 /\ FALSE \in BOOLEAN
      OBVIOUS
    <2> QED BY <2>1, DigitIsChar, Zenon
  <1>3. {" ", "x", "X", "-", "+", "%", "(", ")", "n", "i", "l", "u"} \subseteq Chars
    <2>1. {" ", "x", "X", "-", "+", "%", "(", ")", "n", "i", "l", "u"} \subseteq Symbols
      BY DEF Symbols
    <2> QED BY <2>1, PrintfAssumption, Zenon
  <1> QED BY <1>1, <1>2, <1>3

(***************************************************************************)
(* What printf.c puts into its buffer of PRINTF_INTEGER_BUFFER_SIZE        *)
(* characters stays there, and is text.                                    *)
(***************************************************************************)

\* The leading part of a text.
LEMMA PartOf ==
  ASSUME NEW s \in Seq(Chars), NEW k \in Int, k <= Len(s)
  PROVE  /\ SubSeq(s, 1, k) \in Seq(Chars)
         /\ Len(SubSeq(s, 1, k)) = IF k > 0 THEN k ELSE 0
         /\ \A i \in 1..k : SubSeq(s, 1, k)[i] = s[i]
  <1>1. CASE k > 0
    <2>1. 1 \in 1..(Len(s) + 1) /\ k \in 0..Len(s)
      BY <1>1
    <2> QED BY <1>1, <2>1, SubSeqProperties
  <1>2. CASE k <= 0
    <2>1. SubSeq(s, 1, k) = <<>>
      BY <1>2
    <2> QED BY <1>2, <2>1
  <1> QED BY <1>1, <1>2

LEMMA PutIs ==
  ASSUME NEW buf \in Seq(Chars), NEW chars \in Seq(Chars)
  PROVE  /\ Put(buf, chars) \in Seq(Chars)
         /\ Len(buf) <= PRINTF_INTEGER_BUFFER_SIZE =>
                Len(Put(buf, chars)) <= PRINTF_INTEGER_BUFFER_SIZE
         /\ Len(buf) + Len(chars) <= PRINTF_INTEGER_BUFFER_SIZE => Put(buf, chars) = buf \o chars
  <1> DEFINE room == PRINTF_INTEGER_BUFFER_SIZE - Len(buf)
             k == Lesser(Len(chars), room)
  <1>1. /\ PRINTF_INTEGER_BUFFER_SIZE \in Nat /\ Len(buf) \in Nat /\ Len(chars) \in Nat
        /\ room \in Int
    BY PrintfAssumption
  <1>2. k \in Int /\ k <= Len(chars) /\ k <= room /\ k \in {Len(chars), room}
    BY <1>1 DEF Lesser
  <1>3. Len(buf) + Len(chars) <= PRINTF_INTEGER_BUFFER_SIZE => k = Len(chars)
    BY <1>1 DEF Lesser
  <1>4. Put(buf, chars) = buf \o SubSeq(chars, 1, k)
    BY DEF Put
  <1> HIDE DEF k
  <1>5. /\ SubSeq(chars, 1, k) \in Seq(Chars)
        /\ Len(SubSeq(chars, 1, k)) = IF k > 0 THEN k ELSE 0
    BY <1>2, PartOf
  <1>6. /\ buf \o SubSeq(chars, 1, k) \in Seq(Chars)
        /\ Len(buf \o SubSeq(chars, 1, k)) = Len(buf) + Len(SubSeq(chars, 1, k))
    BY <1>5, ConcatProperties
  <1>7. ASSUME k = Len(chars) PROVE SubSeq(chars, 1, k) = chars
    BY <1>7, <1>1
  <1>8. Put(buf, chars) \in Seq(Chars)
    BY <1>4, <1>6
  <1>9. Len(buf) <= PRINTF_INTEGER_BUFFER_SIZE => Len(Put(buf, chars)) <= PRINTF_INTEGER_BUFFER_SIZE
    BY <1>1, <1>2, <1>4, <1>5, <1>6
  <1>10. Len(buf) + Len(chars) <= PRINTF_INTEGER_BUFFER_SIZE => Put(buf, chars) = buf \o chars
    BY <1>3, <1>4, <1>7
  <1> QED BY <1>8, <1>9, <1>10

LEMMA PadToIs ==
  ASSUME NEW buf \in Seq(Chars), NEW n \in Int
  PROVE  /\ PadTo(buf, n) \in Seq(Chars) /\ Len(PadTo(buf, n)) >= Len(buf)
         /\ Len(buf) <= PRINTF_INTEGER_BUFFER_SIZE =>
                Len(PadTo(buf, n)) <= PRINTF_INTEGER_BUFFER_SIZE
  <1> DEFINE k == Lesser(n, PRINTF_INTEGER_BUFFER_SIZE) - Len(buf)
  <1>1. PRINTF_INTEGER_BUFFER_SIZE \in Nat /\ Len(buf) \in Nat
    BY PrintfAssumption
  <1>2. k \in Int /\ k <= PRINTF_INTEGER_BUFFER_SIZE - Len(buf)
    BY <1>1 DEF Lesser
  <1>3. PadTo(buf, n) = buf \o Times("0", k)
    BY DEF PadTo
  <1> HIDE DEF k
  <1>4. "0" \in Chars
    BY SymbolsAreChars
  <1>5. Times("0", k) \in Seq(Chars) /\ Len(Times("0", k)) = IF k > 0 THEN k ELSE 0
    BY <1>2, <1>4, TimesIs
  <1>6. /\ buf \o Times("0", k) \in Seq(Chars)
        /\ Len(buf \o Times("0", k)) = Len(buf) + Len(Times("0", k))
    BY <1>5, ConcatProperties
  <1> QED BY <1>1, <1>2, <1>3, <1>5, <1>6

LEMMA SpacesAre ==
  ASSUME NEW k \in Int
  PROVE  Times(" ", k) \in Seq(Chars) /\ Len(Times(" ", k)) = IF k > 0 THEN k ELSE 0
  BY SymbolsAreChars, TimesIs

LEMMA OutRevIs ==
  ASSUME NEW buf \in Seq(Chars), NEW width \in Int, NEW flags
  PROVE  /\ OutRev(buf, width, flags) \in Seq(Chars)
         /\ width <= 0 => OutRev(buf, width, flags) = Reverse(buf)
  <1> DEFINE spaces == Times(" ", width - Len(buf))
  <1>1. Len(buf) \in Nat /\ width - Len(buf) \in Int
    OBVIOUS
  <1>2. spaces \in Seq(Chars) /\ (width <= 0 => spaces = <<>>)
    <2>1. spaces \in Seq(Chars) /\ Len(spaces) = IF width - Len(buf) > 0 THEN width - Len(buf) ELSE 0
      BY <1>1, SpacesAre
    <2> HIDE DEF spaces
    <2> QED BY <1>1, <2>1
  <1>3. Reverse(buf) \in Seq(Chars)
    BY ReverseIs
  <1>4. OutRev(buf, width, flags) = IF "-" \in flags THEN Reverse(buf) \o spaces
                                    ELSE IF "0" \in flags THEN Reverse(buf)
                                    ELSE spaces \o Reverse(buf)
    BY DEF OutRev
  <1> HIDE DEF spaces
  <1>5. Reverse(buf) \o spaces \in Seq(Chars) /\ spaces \o Reverse(buf) \in Seq(Chars)
    BY <1>2, <1>3, ConcatProperties
  <1>6. width <= 0 => Reverse(buf) \o spaces = Reverse(buf) /\ spaces \o Reverse(buf) = Reverse(buf)
    BY <1>2, <1>3, ConcatEmptySeq
  <1> QED BY <1>3, <1>4, <1>5, <1>6

LEMMA OneChar == ASSUME NEW c \in Chars PROVE <<c>> \in Seq(Chars) /\ Len(<<c>>) = 1 /\ <<c>>[1] = c
  OBVIOUS

LEMMA TwoChars ==
  ASSUME NEW c \in Chars, NEW d \in Chars
  PROVE  <<c, d>> \in Seq(Chars) /\ Len(<<c, d>>) = 2 /\ <<c, d>>[1] = c /\ <<c, d>>[2] = d
  OBVIOUS

LEMMA SignIsText == ASSUME NEW negative \in BOOLEAN, NEW flags PROVE Sign(negative, flags) \in Seq(Chars)
  <1>1. "-" \in Chars /\ "+" \in Chars /\ " " \in Chars
    BY SymbolsAreChars
  <1>2. <<"-">> \in Seq(Chars) /\ <<"+">> \in Seq(Chars) /\ <<" ">> \in Seq(Chars)
    BY <1>1, OneChar
  <1>3. <<>> \in Seq(Chars)
    OBVIOUS
  <1>4. Sign(negative, flags) \in {<<"-">>, <<"+">>, <<" ">>, <<>>}
    BY DEF Sign
  <1> QED BY <1>2, <1>3, <1>4, Zenon

LEMMA PrefixIsText == ASSUME NEW base \in Bases, NEW flags PROVE Prefix(base, flags) \in Seq(Chars)
  <1>1. "x" \in Chars /\ "X" \in Chars /\ "b" \in Chars /\ "0" \in Chars
    BY SymbolsAreChars
  <1>2. {<<"x", "0">>, <<"X", "0">>, <<"b", "0">>, <<"0">>} \subseteq Seq(Chars)
    BY <1>1, OneChar, TwoChars
  <1>3. Prefix(base, flags) \in {<<"x", "0">>, <<"X", "0">>, <<"b", "0">>, <<"0">>}
    BY DEF Prefix
  <1> QED BY <1>2, <1>3

LEMMA WidthLeftIs ==
  ASSUME NEW negative \in BOOLEAN, NEW width \in Nat, NEW flags
  PROVE  /\ WidthLeft(negative, width, flags) \in Nat
         /\ width = 0 => WidthLeft(negative, width, flags) = 0
  <1> DEFINE p == Zeros(flags) /\ (negative \/ flags \cap {"+", " "} # {})
  <1>1. WidthLeft(negative, width, flags) = IF p /\ width > 0 THEN width - 1 ELSE width
    BY Zenon DEF WidthLeft
  <1> HIDE DEF p
  <1> QED BY <1>1

\* What print_integer() prints, whatever the flags, and that it fits in its buffer
\* but for blanks.
LEMMA FinalizationIs ==
  ASSUME NEW digits \in Seq(Chars), Len(digits) <= PRINTF_INTEGER_BUFFER_SIZE,
         NEW negative \in BOOLEAN, NEW base \in Bases, NEW precision \in Int, NEW width \in Nat,
         NEW flags
  PROVE  LET text == Finalization(digits, negative, base, precision, width, flags)
         IN  /\ text \in Seq(Chars)
             /\ width = 0 => Len(text) <= PRINTF_INTEGER_BUFFER_SIZE
  <1> DEFINE left     == WidthLeft(negative, width, flags)
             first    == IF Zeros(flags) THEN PadTo(digits, left) ELSE digits
             padded   == PadTo(first, precision)
             padding  == Len(padded) - Len(digits)
             kept     == IF base = 8 /\ padding > 0 THEN flags \ {"#"} ELSE flags
             taken    == TakenBack(Len(padded), padding, base, precision, left, kept)
             prefixed == IF kept \cap {"#", "pointer"} = {} THEN padded
                         ELSE Put(SubSeq(padded, 1, Len(padded) - taken), Prefix(base, kept))
  <1>1. left \in Nat /\ (width = 0 => left = 0)
    BY WidthLeftIs
  <1>2. first \in Seq(Chars) /\ Len(first) <= PRINTF_INTEGER_BUFFER_SIZE /\ Len(first) >= Len(digits)
    <2>1. CASE Zeros(flags)
      <3> HIDE DEF left
      <3> QED BY <1>1, <2>1, PadToIs
    <2>2. CASE ~Zeros(flags)
      BY <2>2
    <2> QED BY <2>1, <2>2
  <1>3. padded \in Seq(Chars) /\ Len(padded) <= PRINTF_INTEGER_BUFFER_SIZE /\ padding \in Nat
    <2> HIDE DEF first
    <2>1. /\ padded \in Seq(Chars) /\ Len(padded) >= Len(first)
          /\ Len(padded) <= PRINTF_INTEGER_BUFFER_SIZE
      BY <1>2, PadToIs
    <2> HIDE DEF padded
    <2> QED BY <1>2, <2>1
  <1>4. taken \in Nat
    <2> HIDE DEF left, padded, padding, kept
    <2> QED BY <1>3 DEF TakenBack, Lesser
  <1>5. prefixed \in Seq(Chars) /\ Len(prefixed) <= PRINTF_INTEGER_BUFFER_SIZE
    <2> DEFINE part == SubSeq(padded, 1, Len(padded) - taken)
    <2> HIDE DEF padded, taken, kept
    <2>1. part \in Seq(Chars) /\ Len(part) <= PRINTF_INTEGER_BUFFER_SIZE
      <3>1. Len(padded) \in Nat /\ Len(padded) - taken \in Int /\ Len(padded) - taken <= Len(padded)
        BY <1>3, <1>4
      <3>2. part \in Seq(Chars) /\ Len(part) = IF Len(padded) - taken > 0 THEN Len(padded) - taken ELSE 0
        BY <1>3, <3>1, PartOf
      <3>3. PRINTF_INTEGER_BUFFER_SIZE \in Nat
        BY PrintfAssumption
      <3> HIDE DEF part
      <3> QED BY <1>3, <1>4, <3>1, <3>2, <3>3
    <2> HIDE DEF part
    <2>2. Prefix(base, kept) \in Seq(Chars)
      BY PrefixIsText
    <2>3. /\ Put(part, Prefix(base, kept)) \in Seq(Chars)
          /\ Len(Put(part, Prefix(base, kept))) <= PRINTF_INTEGER_BUFFER_SIZE
      BY <2>1, <2>2, PutIs
    <2> QED BY <1>3, <2>3 DEF part
  <1> DEFINE signed == Put(prefixed, Sign(negative, kept))
  <1>6. signed \in Seq(Chars) /\ Len(signed) <= PRINTF_INTEGER_BUFFER_SIZE
    <2> HIDE DEF prefixed, kept
    <2>1. Sign(negative, kept) \in Seq(Chars)
      BY SignIsText
    <2> QED BY <1>5, <2>1, PutIs
  <1>7. Finalization(digits, negative, base, precision, width, flags) = OutRev(signed, left, kept)
    BY DEF Finalization
  <1> HIDE DEF signed, left, kept
  <1>8. /\ OutRev(signed, left, kept) \in Seq(Chars)
        /\ left <= 0 => OutRev(signed, left, kept) = Reverse(signed)
    BY <1>1, <1>6, OutRevIs
  <1>9. Len(Reverse(signed)) = Len(signed)
    BY <1>6, ReverseIs
  <1> QED BY <1>1, <1>6, <1>7, <1>8, <1>9

LEMMA PrintIntegerIs ==
  ASSUME NEW value \in Nat, NEW negative \in BOOLEAN, NEW base \in Bases,
         NEW precision \in Int, NEW width \in Nat, NEW flags
  PROVE  LET text == PrintInteger(value, negative, base, precision, width, flags)
         IN  /\ text \in Seq(Chars)
             /\ width = 0 => Len(text) <= PRINTF_INTEGER_BUFFER_SIZE
  <1> DEFINE plain  == "precision" \notin flags
             digits == IF value = 0 /\ plain THEN <<"0">> ELSE Digits(value, base, "upper" \in flags)
             kept   == IF value = 0 /\ (plain \/ base = 16) THEN flags \ {"#"} ELSE flags
  <1>1. digits \in Seq(Chars) /\ Len(digits) <= PRINTF_INTEGER_BUFFER_SIZE
    <2>1. CASE value = 0 /\ plain
      <3>1. digits = <<"0">>
        BY <2>1
      <3> HIDE DEF digits
      <3>2. <<"0">> \in Seq(Chars) /\ Len(<<"0">>) = 1
        BY SymbolsAreChars, OneChar
      <3> QED BY <3>1, <3>2, PrintfAssumption
    <2>2. CASE ~(value = 0 /\ plain)
      <3>1. digits = Digits(value, base, "upper" \in flags)
        BY <2>2
      <3>2. digits = Digits(value, base, TRUE) \/ digits = Digits(value, base, FALSE)
        <4>1. CASE "upper" \in flags
          BY <3>1, <4>1
        <4>2. CASE "upper" \notin flags
          <5>1. ("upper" \in flags) = FALSE
            BY <4>2
          <5> QED BY <3>1, <5>1, Zenon
        <4> QED BY <4>1, <4>2
      <3> HIDE DEF digits
      <3> QED BY <3>2, DigitsOfNumeral
    <2> QED BY <2>1, <2>2
  <1> HIDE DEF digits
  <1>2. PrintInteger(value, negative, base, precision, width, flags)
          = Finalization(digits, negative, base, precision, width, kept)
    BY DEF PrintInteger, digits
  <1> HIDE DEF kept
  <1> QED BY <1>1, <1>2, FinalizationIs

\* The argument of an integer conversion, and what print_integer() is told of it.
LEMMA ArgumentIs ==
  ASSUME NEW c \in Items, c.conv \in Integers_
  PROVE  /\ Argument(c) \in Int /\ (~Signed(c) => Argument(c) \in Nat)
         /\ Base(c) \in Bases /\ Width(c) \in Nat /\ Precision(c) \in Int
  <1>1. c.width \in Int /\ c.precision \in Seq(Int)
    BY DEF Items, Convs, Integers_
  <1>2. c.arg \in Int /\ (~Signed(c) => c.arg \in Nat)
    <2>1. c \in Convs({"d", "i"}, Int) \/ c \in Convs(Integers_ \ {"d", "i"}, Nat)
      BY DEF Items, Convs, Integers_
    <2>2. CASE c \in Convs({"d", "i"}, Int)
      <3>1. c.arg \in Int /\ c.conv \in {"d", "i"}
        BY <2>2 DEF Convs
      <3> QED BY <3>1 DEF Signed
    <2>3. CASE c \in Convs(Integers_ \ {"d", "i"}, Nat)
      <3>1. c.arg \in Nat
        BY <2>3 DEF Convs
      <3> QED BY <3>1
    <2> QED BY <2>1, <2>2, <2>3
  <1>3. ASSUME NEW m \in {256, 65536}
        PROVE  /\ ((c.arg + m \div 2) % m) - m \div 2 \in Int
               /\ ~Signed(c) => c.arg % m \in Nat
    BY <1>2
  <1>4. Argument(c) \in Int /\ (~Signed(c) => Argument(c) \in Nat)
    BY <1>2, <1>3 DEF Argument
  <1>5. Base(c) \in Bases
    BY DEF Base, Bases
  <1>6. Width(c) \in Nat
    BY <1>1 DEF Width
  <1>7. Precision(c) \in Int
    BY <1>1 DEF Precision
  <1> QED BY <1>4, <1>5, <1>6, <1>7

LEMMA IntegerTextIs ==
  ASSUME NEW c \in Items, c.conv \in Integers_
  PROVE  /\ IntegerText(c) \in Seq(Chars)
         /\ c.width = 0 => Len(IntegerText(c)) <= PRINTF_INTEGER_BUFFER_SIZE
  <1> DEFINE value == Argument(c)
             magnitude == IF value > 0 THEN value ELSE -value
  <1>1. /\ value \in Int
        /\ Base(c) \in Bases /\ Width(c) \in Nat /\ Precision(c) \in Int
    BY ArgumentIs
  <1>2. magnitude \in Nat /\ (value < 0) \in BOOLEAN
    BY <1>1
  <1>3. IntegerText(c) = PrintInteger(magnitude, value < 0, Base(c), Precision(c), Width(c), IntegerFlags(c))
    BY DEF IntegerText
  <1>4. c.width = 0 => Width(c) = 0
    BY DEF Width
  <1> HIDE DEF magnitude, value
  <1> QED BY <1>1, <1>2, <1>3, <1>4, PrintIntegerIs

LEMMA PaddedIs ==
  ASSUME NEW text \in Seq(Chars), NEW c, Width(c) \in Nat
  PROVE  Padded(text, c) \in Seq(Chars)
  <1> DEFINE spaces == Times(" ", Width(c) - Len(text))
  <1>1. spaces \in Seq(Chars)
    <2>1. Width(c) - Len(text) \in Int
      OBVIOUS
    <2> QED BY <2>1, SpacesAre
  <1> HIDE DEF spaces
  <1>2. text \o spaces \in Seq(Chars) /\ spaces \o text \in Seq(Chars)
    BY <1>1, ConcatProperties
  <1> QED BY <1>2 DEF Padded, spaces

LEMMA StringTextIs ==
  ASSUME NEW c \in Items, c.conv = "s"
  PROVE  StringText(c) \in Seq(Chars)
  <1>1. c.width \in Int /\ c.precision \in Seq(Int) /\ c.arg \in Seq(Chars) \cup {NULL}
    BY DEF Items, Convs, Integers_
  <1>2. Width(c) \in Nat /\ Precision(c) \in Int
    BY <1>1 DEF Width, Precision
  <1>3. CASE c.arg = NULL
    <2> DEFINE null == <<")", "l", "l", "u", "n", "(">>
    <2>1. null \in Seq(Chars)
      <3>1. ")" \in Chars /\ "l" \in Chars /\ "u" \in Chars /\ "n" \in Chars /\ "(" \in Chars
        BY SymbolsAreChars
      <3> QED BY <3>1
    <2>2. StringText(c) = OutRev(null, Width(c), Flags(c))
      BY <1>3 DEF StringText
    <2> HIDE DEF null
    <2> QED BY <1>2, <2>1, <2>2, OutRevIs
  <1>4. CASE c.arg # NULL
    <2>1. c.arg \in Seq(Chars)
      BY <1>1, <1>4
    <2>2. PICK text \in Seq(Chars) : text = c.arg
      BY <2>1
    <2>3. CASE c.precision = <<>>
      <3>1. StringText(c) = Padded(text, c)
        BY <1>4, <2>2, <2>3 DEF StringText
      <3> QED BY <1>2, <3>1, PaddedIs
    <2>4. CASE c.precision # <<>>
      <3> DEFINE k == Lesser(Len(text), Precision(c))
      <3>1. StringText(c) = Padded(SubSeq(text, 1, k), c)
        BY <1>4, <2>2, <2>4 DEF StringText
      <3>2. k \in Int /\ k <= Len(text)
        BY <1>2 DEF Lesser
      <3> HIDE DEF k
      <3>3. SubSeq(text, 1, k) \in Seq(Chars)
        BY <3>2, PartOf
      <3> QED BY <1>2, <3>1, <3>3, PaddedIs
    <2> QED BY <2>3, <2>4
  <1> QED BY <1>3, <1>4

LEMMA PointerTextIs ==
  ASSUME NEW c \in Items, c.conv = "p"
  PROVE  PointerText(c) \in Seq(Chars)
  <1>1. c.width \in Int /\ c.precision \in Seq(Int) /\ c.arg \in Nat
    BY DEF Items, Convs, Integers_
  <1>2. Precision(c) \in Int
    BY <1>1 DEF Precision
  <1> DEFINE width == 2 * SizeOfPointer + 2
             flags == Flags(c) \cup {"0", "pointer"}
  <1>3. width \in Nat
    BY DEF SizeOfPointer
  <1>4. CASE c.arg = 0
    <2> DEFINE nil == <<")", "l", "i", "n", "(">>
    <2>1. nil \in Seq(Chars)
      <3>1. ")" \in Chars /\ "l" \in Chars /\ "i" \in Chars /\ "n" \in Chars /\ "(" \in Chars
        BY SymbolsAreChars
      <3> QED BY <3>1
    <2>2. PointerText(c) = OutRev(nil, width, flags)
      BY <1>4 DEF PointerText
    <2> HIDE DEF nil, width, flags
    <2> QED BY <1>3, <2>1, <2>2, OutRevIs
  <1>5. CASE c.arg # 0
    <2>1. PointerText(c) = PrintInteger(c.arg, FALSE, 16, Precision(c), width, flags)
      BY <1>5 DEF PointerText
    <2>2. 16 \in Bases
      BY DEF Bases
    <2> HIDE DEF width, flags
    <2> QED BY <1>1, <1>2, <1>3, <2>1, <2>2, PrintIntegerIs
  <1> QED BY <1>4, <1>5

\* A conversion prints a text.
LEMMA TextIs == ASSUME NEW c \in Items PROVE Text(c) \in Seq(Chars)
  <1>1. CASE c.conv = ""
    <2>1. c.arg \in Chars
      BY <1>1 DEF Items, Convs, Integers_
    <2>2. Text(c) = <<c.arg>>
      BY <1>1 DEF Text, Integers_
    <2> QED BY <2>1, <2>2, OneChar
  <1>2. CASE c.conv \in Integers_
    <2>1. Text(c) = IntegerText(c)
      BY <1>2 DEF Text, Integers_
    <2> QED BY <1>2, <2>1, IntegerTextIs
  <1>3. CASE c.conv = "c"
    <2>1. c.width \in Int /\ c.arg \in Chars
      BY <1>3 DEF Items, Convs, Integers_
    <2>2. Width(c) \in Nat
      BY <2>1 DEF Width
    <2>3. Text(c) = Padded(<<c.arg>>, c)
      BY <1>3 DEF Text, Integers_
    <2> QED BY <2>1, <2>2, <2>3, OneChar, PaddedIs
  <1>4. CASE c.conv = "s"
    <2>1. Text(c) = StringText(c)
      BY <1>4 DEF Text, Integers_
    <2> QED BY <1>4, <2>1, StringTextIs
  <1>5. CASE c.conv = "p"
    <2>1. Text(c) = PointerText(c)
      BY <1>5 DEF Text, Integers_
    <2> QED BY <1>5, <2>1, PointerTextIs
  <1>6. CASE c.conv \in {"n", "end"}
    <2>1. Text(c) = <<>>
      BY <1>6 DEF Text, Integers_
    <2> QED BY <2>1
  <1>7. CASE c.conv = "%"
    <2>1. Text(c) = <<c.conv>>
      BY <1>7 DEF Text, Integers_
    <2> QED BY <1>7, <2>1, SymbolsAreChars, OneChar
  <1>8. \/ c.conv = "" \/ c.conv \in Integers_ \/ c.conv = "c" \/ c.conv = "s" \/ c.conv = "p"
        \/ c.conv \in {"n", "end"} \/ c.conv = "%"
    BY DEF Items, Convs, Integers_
  <1> QED BY <1>1, <1>2, <1>3, <1>4, <1>5, <1>6, <1>7, <1>8

(***************************************************************************)
(* A whole format, and the memory that vsnprintf_() writes to.             *)
(***************************************************************************)

LEMMA FlattenDefined ==
  ASSUME NEW seqs, NEW N \in Nat \ {0}, Len(seqs) = N
  PROVE  \E f : /\ FlattenSeq(seqs) = f[N]
                /\ \A i \in 1..N : f[i] = IF i = 1 THEN seqs[i] ELSE f[i - 1] \o seqs[i]
  <1> DEFINE IsRun(g, n) == g = [i \in 1..n |-> IF i = 1 THEN seqs[i] ELSE g[i - 1] \o seqs[i]]
             Runs == {n \in Nat : \E g : IsRun(g, n)}
             f == CHOOSE g : IsRun(g, N)
  <1>1. 0 \in Runs
    <2>1. IsRun([i \in 1..0 |-> seqs[i]], 0)
      OBVIOUS
    <2> QED BY <2>1
  <1>2. ASSUME NEW n \in 0..(N - 1), n \in Runs PROVE n + 1 \in Runs
    <2>1. PICK g : IsRun(g, n)
      BY <1>2
    <2> DEFINE next_ == IF n + 1 = 1 THEN seqs[n + 1] ELSE g[n] \o seqs[n + 1]
               h == [i \in 1..(n + 1) |-> IF i = n + 1 THEN next_ ELSE g[i]]
    <2>2. n \in Nat
      OBVIOUS
    <2>3. ASSUME NEW i \in 1..(n + 1) PROVE h[i] = IF i = 1 THEN seqs[i] ELSE h[i - 1] \o seqs[i]
      <3>1. CASE i = n + 1
        <4>1. h[i] = next_
          BY <3>1
        <4>2. CASE i = 1
          BY <3>1, <4>1, <4>2
        <4>3. CASE i # 1
          <5>1. i - 1 = n /\ n \in 1..(n + 1) /\ n # n + 1
            BY <2>2, <3>1, <4>3
          <5>2. h[n] = g[n]
            BY <5>1
          <5> HIDE DEF h
          <5> QED BY <3>1, <4>1, <4>3, <5>1, <5>2
        <4> QED BY <4>2, <4>3
      <3>2. CASE i # n + 1
        <4>1. i \in 1..n /\ h[i] = g[i]
          BY <2>2, <3>2
        <4>2. g[i] = IF i = 1 THEN seqs[i] ELSE g[i - 1] \o seqs[i]
          BY <2>1, <4>1
        <4>3. CASE i = 1
          BY <4>1, <4>2, <4>3
        <4>4. CASE i # 1
          <5>1. i - 1 \in 1..(n + 1) /\ i - 1 # n + 1
            BY <2>2, <4>1, <4>4
          <5>2. h[i - 1] = g[i - 1]
            BY <5>1
          <5> HIDE DEF h
          <5> QED BY <4>1, <4>2, <4>4, <5>2
        <4> QED BY <4>3, <4>4
      <3> QED BY <3>1, <3>2
    <2>4. IsRun(h, n + 1)
      <3>1. h = [i \in 1..(n + 1) |-> h[i]]
        OBVIOUS
      <3> HIDE DEF h
      <3> QED BY <2>3, <3>1
    <2> HIDE DEF IsRun, h
    <2> QED BY <2>2, <2>4
  <1>3. N \in Runs
    <2>1. N \in Nat /\ N \in 0..N
      OBVIOUS
    <2> HIDE DEF Runs
    <2>2. \A n \in 0..N : n \in Runs
      BY <2>1, <1>1, <1>2, Reached
    <2> QED BY <2>1, <2>2
  <1>4. \E g : IsRun(g, N)
    BY <1>3
  <1>5. IsRun(f, N)
    BY <1>4
  <1>6. FlattenSeq(seqs) = f[N]
    BY DEF FlattenSeq
  <1> HIDE DEF f
  <1>7. \A i \in 1..N : f[i] = IF i = 1 THEN seqs[i] ELSE f[i - 1] \o seqs[i]
    BY <1>5
  <1> QED BY <1>6, <1>7

LEMMA FlattenIs ==
  ASSUME NEW seqs, NEW N \in Nat, Len(seqs) = N, \A i \in 1..N : seqs[i] \in Seq(Chars),
         N = 0 => seqs = <<>>
  PROVE  /\ FlattenSeq(seqs) \in Seq(Chars)
         /\ N = 2 => FlattenSeq(seqs) = seqs[1] \o seqs[2]
  <1>1. CASE N = 0
    BY <1>1 DEF FlattenSeq
  <1>2. CASE N # 0
    <2>0. N \in Nat \ {0}
      BY <1>2
    <2>1. PICK f : /\ FlattenSeq(seqs) = f[N]
                   /\ \A i \in 1..N : f[i] = IF i = 1 THEN seqs[i] ELSE f[i - 1] \o seqs[i]
      BY <2>0, FlattenDefined
    <2> DEFINE S == {i \in Nat : i = 0 \/ f[i] \in Seq(Chars)}
    <2>2. 0 \in S
      OBVIOUS
    <2>3. ASSUME NEW n \in 0..(N - 1), n \in S PROVE n + 1 \in S
      <3>1. n \in Nat /\ n + 1 \in 1..N /\ (n + 1) - 1 = n /\ (n + 1 = 1 <=> n = 0)
        OBVIOUS
      <3>2. f[n + 1] = IF n = 0 THEN seqs[n + 1] ELSE f[n] \o seqs[n + 1]
        BY <2>1, <3>1
      <3>3. seqs[n + 1] \in Seq(Chars)
        BY <3>1
      <3>4. CASE n = 0
        BY <3>1, <3>2, <3>3, <3>4
      <3>5. CASE n # 0
        <4>1. f[n] \in Seq(Chars)
          BY <2>3, <3>5
        <4>2. f[n] \o seqs[n + 1] \in Seq(Chars)
          BY <3>3, <4>1, ConcatProperties
        <4>3. f[n + 1] = f[n] \o seqs[n + 1]
          BY <3>2, <3>5
        <4>4. f[n + 1] \in Seq(Chars) /\ n + 1 \in Nat
          BY <3>1, <4>2, <4>3
        <4> QED BY <4>4
      <3> QED BY <3>4, <3>5
    <2>4. \A n \in 0..N : n \in S
      <3> HIDE DEF S
      <3> QED BY <2>2, <2>3, Reached
    <2>5. f[N] \in Seq(Chars)
      BY <2>0, <2>4
    <2>6. ASSUME N = 2 PROVE f[N] = seqs[1] \o seqs[2]
      <3>1. 1 \in 1..N /\ 2 \in 1..N /\ 2 # 1 /\ 2 - 1 = 1
        BY <2>6
      <3>2. f[1] = seqs[1]
        BY <2>1, <3>1
      <3>3. f[2] = f[1] \o seqs[2]
        BY <2>1, <3>1
      <3> QED BY <2>6, <3>2, <3>3
    <2> QED BY <2>1, <2>5, <2>6
  <1> QED BY <1>1, <1>2

LEMMA CutIs ==
  ASSUME NEW format \in Seq(Items)
  PROVE  LET cut == SelectInSeq(format, LAMBDA c : c.conv = "end")
         IN  cut \in 0..Len(format) /\ (cut = 0 \/ format[cut].conv = "end")
  <1> DEFINE I == {i \in 1..Len(format) : format[i].conv = "end"}
             cut == SelectInSeq(format, LAMBDA c : c.conv = "end")
  <1>1. cut = IF I # {} THEN Min(I) ELSE 0
    BY DEF SelectInSeq
  <1>2. CASE I # {}
    <2>1. I \in SUBSET Nat
      OBVIOUS
    <2>2. \E n \in I : \A m \in I : n <= m
      <3> HIDE DEF I
      <3> QED BY <1>2, <2>1, SmallestOf
    <2>3. Min(I) \in I
      <3> HIDE DEF I
      <3> QED BY <2>2 DEF Min
    <2> QED BY <1>1, <1>2, <2>3
  <1>3. CASE I = {}
    BY <1>1, <1>3
  <1> QED BY <1>2, <1>3

\* What a format prints is a text, and that of two items one after the other is the
\* text of the second after that of the first.
LEMMA FormatTextIs ==
  ASSUME NEW format \in Seq(Items)
  PROVE  /\ FormatText(format) \in Seq(Chars)
         /\ Len(format) = 2 /\ (\A i \in 1..2 : format[i].conv # "end")
              => FormatText(format) = Text(format[1]) \o Text(format[2])
  <1> DEFINE cut == SelectInSeq(format, LAMBDA c : c.conv = "end")
             N == IF cut = 0 THEN Len(format) ELSE cut
             seqs == [i \in 1..N |-> Text(format[i])]
  <1>1. cut \in 0..Len(format) /\ (cut = 0 \/ format[cut].conv = "end")
    BY CutIs
  <1>2. N \in Nat /\ N <= Len(format)
    BY <1>1
  <1>3. FormatText(format) = FlattenSeq(seqs)
    BY DEF FormatText
  <1> HIDE DEF cut
  <1>4. Len(format) = 2 /\ (\A i \in 1..2 : format[i].conv # "end") => N = 2
    BY <1>1
  <1> HIDE DEF N
  <1>5. \A i \in 1..N : seqs[i] = Text(format[i]) /\ seqs[i] \in Seq(Chars)
    <2> SUFFICES ASSUME NEW i \in 1..N
                 PROVE  seqs[i] = Text(format[i]) /\ seqs[i] \in Seq(Chars)
      OBVIOUS
    <2>1. format[i] \in Items
      BY <1>2
    <2>2. seqs[i] = Text(format[i])
      OBVIOUS
    <2> HIDE DEF seqs
    <2> QED BY <2>1, <2>2, TextIs
  <1>6. Len(seqs) = N
    BY <1>2
  <1>7. N = 0 => seqs = <<>>
    <2>1. ASSUME N = 0 PROVE 1..N = {}
      BY <2>1
    <2> QED BY <2>1
  <1> HIDE DEF seqs
  <1>8. /\ FlattenSeq(seqs) \in Seq(Chars)
        /\ N = 2 => FlattenSeq(seqs) = seqs[1] \o seqs[2]
    BY <1>2, <1>5, <1>6, <1>7, FlattenIs
  <1>9. ASSUME N = 2 PROVE seqs[1] = Text(format[1]) /\ seqs[2] = Text(format[2])
    BY <1>5, <1>9
  <1> QED BY <1>3, <1>4, <1>8, <1>9

\* vsnprintf_() writes only where it was told that there is room.
LEMMA VsnprintfStays ==
  ASSUME NEW memory, NEW size \in Nat, DOMAIN memory = 0..(size - 1),
         NEW at \in Nat, NEW n \in Nat, at + n <= size, NEW format \in Seq(Items)
  PROVE  DOMAIN Vsnprintf(memory, at, n, format) = 0..(size - 1)
  <1> DEFINE text    == FormatText(format)
             written == at..(at + Lesser(Len(text), n) - 1)
             nul     == IF n = 0 THEN {} ELSE {at + Lesser(Len(text), n - 1)}
  <1>1. Len(text) \in Nat
    BY FormatTextIs
  <1>2. DOMAIN Vsnprintf(memory, at, n, format) = DOMAIN memory \cup written \cup nul
    BY DEF Vsnprintf
  <1> HIDE DEF text
  <1>3. Lesser(Len(text), n) \in 0..n
    BY <1>1 DEF Lesser
  <1>4. written \subseteq 0..(size - 1)
    BY <1>3
  <1>5. nul \subseteq 0..(size - 1)
    <2>1. CASE n = 0
      BY <2>1
    <2>2. CASE n # 0
      <3>1. Lesser(Len(text), n - 1) \in 0..(n - 1)
        BY <1>1, <2>2 DEF Lesser
      <3> QED BY <2>2, <3>1
    <2> QED BY <2>1, <2>2
  <1> QED BY <1>2, <1>4, <1>5

\* Formats are made of characters and conversions.
LEMMA LitIs ==
  ASSUME NEW char \in Chars
  PROVE  Lit(char) \in Items /\ Lit(char).conv = "" /\ Lit(char).arg = char
  BY DEF Lit, Items

LEMMA UintmaxIs ==
  ASSUME NEW arg \in Nat, NEW conv \in {"u", "x"}
  PROVE  LET c == [Conv(conv, arg) EXCEPT !.length = "j"]
         IN  c \in Items /\ c.conv = conv /\ c.arg = arg /\ c.width = 0
  <1> DEFINE b == Conv(conv, arg)
             c == [b EXCEPT !.length = "j"]
  <1>1. b \in Convs({"u", "x"}, Nat) /\ b.conv = conv /\ b.arg = arg /\ b.width = 0
    BY DEF Convs, Conv
  <1> HIDE DEF b
  <1>2. c \in Convs({"u", "x"}, Nat) /\ c.conv = conv /\ c.arg = arg /\ c.width = 0
    BY <1>1 DEF Convs
  <1> HIDE DEF c
  <1>3. c \in Convs(Integers_ \ {"d", "i"}, Nat)
    BY <1>2 DEF Convs, Integers_
  <1>4. c \in Items
    BY <1>3 DEF Items
  <1> QED BY <1>2, <1>4 DEF b, c

LEMMA TimestampIs ==
  ASSUME clock \in Nat
  PROVE  /\ Timestamp \in Seq(Items)
         /\ VsnprintfReturns(Timestamp) \in 0..(PRINTF_INTEGER_BUFFER_SIZE + 1)
  <1>0. PICK now \in Nat : now = clock
    OBVIOUS
  <1> DEFINE d == [Conv("u", now) EXCEPT !.length = "j"]
             e == Lit(" ")
  <1>1. " " \in Chars
    BY SymbolsAreChars
  <1>2. d \in Items /\ d.conv = "u" /\ d.width = 0
    BY UintmaxIs
  <1>3. e \in Items /\ e.conv = "" /\ e.arg = " "
    BY <1>1, LitIs
  <1>4. Timestamp = <<d, e>>
    BY <1>0 DEF Timestamp
  <1> HIDE DEF d, e
  <1>5. PICK c \in Items, blank \in Items : c = d /\ blank = e
    BY <1>2, <1>3
  <1>6. Text(c) \in Seq(Chars) /\ Len(Text(c)) <= PRINTF_INTEGER_BUFFER_SIZE
    <2>1. c.conv \in Integers_ /\ Text(c) = IntegerText(c)
      BY <1>2, <1>5 DEF Text, Integers_
    <2> QED BY <1>2, <1>5, <2>1, IntegerTextIs
  <1>7. Text(blank) = <<" ">>
    BY <1>3, <1>5 DEF Text, Integers_
  <1>8. PICK format \in Seq(Items) : format = Timestamp /\ format = <<c, blank>>
    <2>1. <<c, blank>> \in Seq(Items)
      OBVIOUS
    <2>2. Timestamp = <<c, blank>>
      BY <1>4, <1>5, Zenon
    <2> QED BY <2>1, <2>2, Zenon
  <1>9. FormatText(format) = Text(c) \o <<" ">>
    <2>1. Len(format) = 2 /\ format[1] = c /\ format[2] = blank
      BY <1>8
    <2>2. \A i \in 1..2 : format[i].conv # "end"
      <3>1. format[1].conv = "u" /\ format[2].conv = ""
        BY <1>2, <1>3, <1>5, <2>1
      <3>2. \A i \in 1..2 : i = 1 \/ i = 2
        OBVIOUS
      <3>3. "u" # "end" /\ "" # "end"
        OBVIOUS
      <3> QED BY <3>1, <3>2, <3>3, Zenon
    <2> QED BY <1>7, <2>1, <2>2, FormatTextIs
  <1>10. Len(Text(c) \o <<" ">>) = Len(Text(c)) + 1
    <2>1. <<" ">> \in Seq(Chars) /\ Len(<<" ">>) = 1
      BY <1>1, OneChar
    <2> QED BY <1>6, <2>1, ConcatProperties
  <1>11. Len(FormatText(format)) \in 0..(PRINTF_INTEGER_BUFFER_SIZE + 1)
    <2>1. PICK n \in Nat : n = Len(Text(c))
      BY <1>6
    <2>2. Len(FormatText(format)) = n + 1
      BY <1>9, <1>10, <2>1, Zenon
    <2> QED BY <1>6, <2>1, <2>2, PrintfAssumption
  <1> QED BY <1>8, <1>11 DEF VsnprintfReturns

(***************************************************************************)
(* Every line that the library prints has a format of Items.               *)
(***************************************************************************)

LEMMA RegionFormatIs ==
  ASSUME NEW start \in Nat, NEW end \in Nat
  PROVE  RegionFormat(start, end) \in Seq(Items)
  <1>1. " " \in Chars /\ "0" \in Chars /\ "x" \in Chars
    BY SymbolsAreChars
  <1>2. "r" \in Chars /\ "\n" \in Chars
    BY LogTextAssumption
  <1>3. /\ Lit(" ") \in Items /\ Lit("0") \in Items /\ Lit("x") \in Items /\ Lit("\n") \in Items
    BY <1>1, <1>2, LitIs
  <1>t. ASSUME NEW c \in Items PROVE <<c>> \in Seq(Items)
    OBVIOUS
  <1>u. ASSUME NEW c \in Items, NEW d \in Items PROVE <<c, d>> \in Seq(Items)
    OBVIOUS
  <1>v. ASSUME NEW c \in Items, NEW d \in Items, NEW e \in Items PROVE <<c, d, e>> \in Seq(Items)
    OBVIOUS
  <1>4. ASSUME NEW arg \in Nat PROVE Hex(arg) \in Seq(Items)
    <2>1. "x" \in {"u", "x"}
      OBVIOUS
    <2>2. [Conv("x", arg) EXCEPT !.length = "j"] \in Items
      BY <2>1, UintmaxIs
    <2> QED BY <1>3, <1>v, <2>2, Zenon DEF Hex
  <1>5. Conv("c", "r") \in Items
    <2>1. Conv("c", "r") \in Convs({"c"}, Chars)
      BY <1>2 DEF Conv, Convs
    <2> QED BY <2>1 DEF Items
  <1>6. /\ <<Conv("c", "r"), Lit(" ")>> \in Seq(Items)
        /\ <<Lit(" ")>> \in Seq(Items) /\ <<Lit("\n")>> \in Seq(Items)
        /\ Hex(start) \in Seq(Items) /\ Hex(end) \in Seq(Items)
    BY <1>3, <1>4, <1>5, <1>t, <1>u, Zenon
  <1>7. ASSUME NEW s \in Seq(Items), NEW t \in Seq(Items) PROVE s \o t \in Seq(Items)
    OBVIOUS
  <1>8. <<Conv("c", "r"), Lit(" ")>> \o Hex(start) \in Seq(Items)
    BY <1>6, <1>7
  <1>9. <<Conv("c", "r"), Lit(" ")>> \o Hex(start) \o <<Lit(" ")>> \in Seq(Items)
    BY <1>6, <1>7, <1>8
  <1>10. <<Conv("c", "r"), Lit(" ")>> \o Hex(start) \o <<Lit(" ")>> \o Hex(end) \in Seq(Items)
    BY <1>6, <1>7, <1>9
  <1>11. <<Conv("c", "r"), Lit(" ")>> \o Hex(start) \o <<Lit(" ")>> \o Hex(end) \o <<Lit("\n")>>
             \in Seq(Items)
    BY <1>6, <1>7, <1>10
  <1> QED BY <1>11 DEF RegionFormat

\* Lines are made of conversions with arguments of their types, which is all
\* that the theorems about their text need to know of the log.
PrintedOK == /\ todo \in Seq(Seq(Items))
             /\ clock \in Nat
             /\ printed \in Seq([timestamp : Nat, format : Seq(Items)])

LEMMA PrintedKept == regions \in Seq(Nat) /\ PrintedOK /\ [Next]_vars => PrintedOK'
  <1> SUFFICES ASSUME regions \in Seq(Nat), PrintedOK, [Next]_vars PROVE PrintedOK'
    OBVIOUS
  <1> USE DEF PrintedOK
  <1>1. CASE UNCHANGED vars
    BY <1>1 DEF vars, heapVars
  <1>2. CASE Fprintf
    <2>1. todo # <<>> /\ todo' = Tail(todo) /\ clock' = clock + 1
          /\ printed' = Append(printed, [timestamp |-> clock, format |-> Head(todo)])
      BY <1>2 DEF Fprintf, Format
    <2>2. Head(todo) \in Seq(Items) /\ Tail(todo) \in Seq(Seq(Items))
      BY <2>1, HeadTailProperties
    <2>3. [timestamp |-> clock, format |-> Head(todo)] \in [timestamp : Nat, format : Seq(Items)]
      BY <2>2
    <2> QED BY <2>1, <2>2, <2>3, AppendProperties
  <1>3. CASE Deinit
    <2>1. /\ todo' = [i \in DOMAIN regions |-> RegionFormat(16 * regions[i], 16 * regions[i] + 15)]
          /\ UNCHANGED <<clock, printed>>
      BY <1>3 DEF Deinit
    <2>2. ASSUME NEW i \in DOMAIN regions
          PROVE  RegionFormat(16 * regions[i], 16 * regions[i] + 15) \in Seq(Items)
      <3>1. 16 * regions[i] \in Nat /\ 16 * regions[i] + 15 \in Nat
        OBVIOUS
      <3> QED BY <3>1, RegionFormatIs
    <2>3. DOMAIN regions = 1..Len(regions) /\ Len(regions) \in Nat
      OBVIOUS
    <2>4. todo' \in Seq(Seq(Items))
      BY <2>1, <2>2, <2>3
    <2> QED BY <2>1, <2>4
  <1>4. CASE Write \/ FindHeapRegions \/ Close \/ Fgets \/ Finished
    BY <1>4 DEF Write, FindHeapRegions, Close, Fgets, writerVars, Finished, vars
  <1> QED BY <1>1, <1>2, <1>3, <1>4 DEF Next

\* The two calls of vsnprintf() together stay in the buffer.
LEMMA BufferKept ==
  ASSUME PRINTF_INTEGER_BUFFER_SIZE + 2 <= MAX_BUFFER_SIZE
  PROVE  PrintedOK /\ BufferHolds /\ [Next]_vars => BufferHolds'
  <1> SUFFICES ASSUME PrintedOK, BufferHolds, [Next]_vars PROVE BufferHolds'
    OBVIOUS
  <1>1. CASE Fprintf
    <2> DEFINE stamp  == VsnprintfReturns(Timestamp)
               memory == [i \in 0..(MAX_BUFFER_SIZE - 1) |-> NotWritten]
               first  == Vsnprintf(memory, 0, stamp + 1, Timestamp)
    <2>1. PICK size \in Nat : size = MAX_BUFFER_SIZE
      BY LogTextAssumption
    <2>2. Timestamp \in Seq(Items) /\ stamp \in 0..(PRINTF_INTEGER_BUFFER_SIZE + 1)
      BY TimestampIs DEF PrintedOK
    <2>3. stamp \in Nat /\ stamp + 1 \in Nat /\ stamp + 1 <= size
          /\ Room(stamp) \in Nat /\ stamp + Room(stamp) <= size
      <3> HIDE DEF stamp
      <3>1. PRINTF_INTEGER_BUFFER_SIZE \in Nat
        BY PrintfAssumption
      <3> QED BY <2>1, <2>2, <3>1 DEF Room
    <2>4. PICK format \in Seq(Items) : format = Head(todo)
      <3>1. todo # <<>>
        BY <1>1 DEF Fprintf
      <3> QED BY <3>1, HeadTailProperties DEF PrintedOK
    <2>5. DOMAIN memory = 0..(size - 1)
      BY <2>1
    <2>6. buffer' = Vsnprintf(first, stamp, Room(stamp), format)
      BY <1>1, <2>4 DEF Fprintf, Format
    <2> HIDE DEF stamp, memory
    <2>7. PICK s \in Nat, format0 \in Seq(Items) : s = stamp /\ format0 = Timestamp
      BY <2>2, <2>3
    <2>8. DOMAIN first = 0..(size - 1)
      <3>1. 0 \in Nat /\ 0 + (s + 1) <= size /\ s + 1 \in Nat
        BY <2>3, <2>7
      <3>2. DOMAIN Vsnprintf(memory, 0, s + 1, format0) = 0..(size - 1)
        BY <2>5, <3>1, VsnprintfStays
      <3> QED BY <2>7, <3>2
    <2> HIDE DEF first
    <2>9. PICK room \in Nat : room = Room(stamp)
      BY <2>3
    <2>10. DOMAIN Vsnprintf(first, s, room, format) = 0..(size - 1)
      <3>1. s + room <= size
        BY <2>3, <2>7, <2>9
      <3> QED BY <2>8, <3>1, VsnprintfStays
    <2> QED BY <2>1, <2>6, <2>7, <2>9, <2>10 DEF BufferHolds
  <1>2. CASE Write
    BY <1>2 DEF Write, BufferHolds
  <1>3. CASE FindHeapRegions \/ Deinit \/ Close \/ Fgets \/ Finished \/ UNCHANGED vars
    BY <1>3 DEF FindHeapRegions, Deinit, Close, Fgets, writerVars, Finished, vars, BufferHolds
  <1> QED BY <1>1, <1>2, <1>3 DEF Next

(***************************************************************************)
(* An integer conversion prints what the standard says: first the flags,   *)
(* then the zeros and prefixes of print_integer_finalization(), then what  *)
(* the standard asks for, and last the two put together, with the width    *)
(* filled with blanks or with zeros.                                       *)
(***************************************************************************)

LEMMA FlagsAre ==
  ASSUME NEW c \in Items, c.conv \in Integers_ \ {"b"}
  PROVE  LET F == IntegerFlags(c)
         IN  /\ "-" \in F <=> ("-" \in c.flags \/ c.width < 0)
             /\ "0" \in F <=> ("0" \in c.flags /\ c.precision = <<>>)
             /\ "+" \in F <=> ("+" \in c.flags /\ Signed(c))
             /\ " " \in F <=> (" " \in c.flags /\ Signed(c))
             /\ "#" \in F <=> ("#" \in c.flags /\ Base(c) # 10)
             /\ "precision" \in F <=> c.precision # <<>>
             /\ "upper" \in F <=> c.conv = "X"
             /\ "pointer" \notin F
  <1>1. c.flags \in SUBSET {"0", "-", "+", " ", "#"} /\ c.width \in Int
    BY DEF Items, Convs, Integers_
  <1> DEFINE All == Flags(c) \cup (IF c.conv = "X" THEN {"upper"} ELSE {})
             F == IntegerFlags(c)
  <1>2. /\ "-" \in All <=> ("-" \in c.flags \/ c.width < 0)
        /\ "0" \in All <=> "0" \in c.flags
        /\ "+" \in All <=> "+" \in c.flags
        /\ " " \in All <=> " " \in c.flags
        /\ "#" \in All <=> "#" \in c.flags
        /\ "precision" \in All <=> c.precision # <<>>
        /\ "upper" \in All <=> c.conv = "X"
        /\ "pointer" \notin All
    BY <1>1 DEF Flags
  <1>3. F = All \ ((IF Base(c) = 10 THEN {"#"} ELSE {})
                     \cup (IF c.precision # <<>> THEN {"0"} ELSE {})
                     \cup (IF Signed(c) THEN {} ELSE {"+", " "}))
    BY DEF IntegerFlags
  <1> HIDE DEF All, F
  <1>4. /\ "-" \in F <=> "-" \in All
        /\ "precision" \in F <=> "precision" \in All
        /\ "upper" \in F <=> "upper" \in All
        /\ "pointer" \in F <=> "pointer" \in All
    BY <1>3
  <1>5. "0" \in F <=> ("0" \in All /\ c.precision = <<>>)
    BY <1>3
  <1>6. /\ "+" \in F <=> ("+" \in All /\ Signed(c))
        /\ " " \in F <=> (" " \in All /\ Signed(c))
    BY <1>3
  <1>7. "#" \in F <=> ("#" \in All /\ Base(c) # 10)
    BY <1>3
  <1> QED BY <1>2, <1>4, <1>5, <1>6, <1>7 DEF F

LEMMA KindsAre ==
  ASSUME NEW c \in Items, c.conv \in Integers_ \ {"b"}
  PROVE  /\ Base(c) = 8 <=> c.conv = "o"
         /\ Base(c) = 16 <=> c.conv \in {"x", "X"}
         /\ Base(c) \in {8, 10, 16}
         /\ Signed(c) => Base(c) = 10
         /\ ~Signed(c) => Argument(c) \in Nat
  <1>1. ~Signed(c) => Argument(c) \in Nat
    BY ArgumentIs
  <1>2. /\ Base(c) = 8 <=> c.conv = "o"
        /\ Base(c) = 16 <=> c.conv \in {"x", "X"}
        /\ Base(c) \in {8, 10, 16}
        /\ Signed(c) => Base(c) = 10
    BY DEF Base, Signed, Integers_
  <1> QED BY <1>1, <1>2

LEMMA Associative ==
  ASSUME NEW s \in Seq(Chars), NEW t \in Seq(Chars), NEW u \in Seq(Chars)
  PROVE  s \o (t \o u) = (s \o t) \o u
  BY ConcatAssociative

LEMMA NothingAdded ==
  ASSUME NEW s \in Seq(Chars)
  PROVE  s \o <<>> = s /\ <<>> \o s = s
  BY ConcatEmptySeq

LEMMA ReverseOne ==
  ASSUME NEW a \in Chars
  PROVE  Reverse(<<a>>) = <<a>>
  <1>1. <<a>> \in Seq(Chars) /\ Len(<<a>>) = 1 /\ <<a>>[1] = a
    BY OneChar
  <1>2. PICK s \in Seq(Chars) : s = <<a>>
    BY <1>1
  <1>3. PICK r \in Seq(Chars) : r = Reverse(s)
    BY ReverseIs
  <1>4. Len(r) = 1 /\ \A i \in 1..1 : r[i] = s[1 - i + 1]
    <2>1. Len(s) = 1
      BY <1>1, <1>2
    <2> QED BY <1>3, <2>1, ReverseOf
  <1>5. r[1] = a
    BY <1>1, <1>2, <1>4
  <1>6. r = <<a>>
    BY <1>4, <1>5
  <1> QED BY <1>2, <1>3, <1>6

LEMMA ReverseTwo ==
  ASSUME NEW a \in Chars, NEW b \in Chars
  PROVE  Reverse(<<a, b>>) = <<b, a>>
  <1>1. <<a>> \in Seq(Chars) /\ <<b>> \in Seq(Chars)
    BY OneChar
  <1>2. ASSUME NEW c \in Chars, NEW d \in Chars PROVE <<c, d>> = <<c>> \o <<d>>
    <2>1. PICK s \in Seq(Chars), t \in Seq(Chars), u \in Seq(Chars) :
              s = <<c>> /\ t = <<d>> /\ u = <<c, d>>
      BY OneChar, TwoChars
    <2>2. Len(s) = 1 /\ s[1] = c /\ Len(t) = 1 /\ t[1] = d /\ Len(u) = 2 /\ u[1] = c /\ u[2] = d
      BY <2>1, OneChar, TwoChars
    <2>3. PICK v \in Seq(Chars) : v = s \o t
      BY ConcatProperties
    <2>4. Len(v) = 2 /\ \A i \in 1..2 : v[i] = IF i <= 1 THEN s[i] ELSE t[i - 1]
      BY <2>2, <2>3, ConcatProperties
    <2>5. v[1] = c /\ v[2] = d
      BY <2>2, <2>4
    <2>6. v = u
      BY <2>2, <2>4, <2>5
    <2> QED BY <2>1, <2>3, <2>6
  <1>3. Reverse(<<a>> \o <<b>>) = Reverse(<<b>>) \o Reverse(<<a>>)
    BY <1>1, ReverseConcat
  <1>4. <<a, b>> = <<a>> \o <<b>> /\ <<b, a>> = <<b>> \o <<a>>
    BY <1>2
  <1> QED BY <1>3, <1>4, ReverseOne

LEMMA PutTurned ==
  ASSUME NEW buf \in Seq(Chars), NEW chars \in Seq(Chars),
         Len(buf) + Len(chars) <= PRINTF_INTEGER_BUFFER_SIZE
  PROVE  /\ Put(buf, chars) \in Seq(Chars)
         /\ Len(Put(buf, chars)) = Len(buf) + Len(chars)
         /\ Reverse(Put(buf, chars)) = Reverse(chars) \o Reverse(buf)
  <1>1. Put(buf, chars) = buf \o chars
    BY PutIs
  <1>2. buf \o chars \in Seq(Chars) /\ Len(buf \o chars) = Len(buf) + Len(chars)
    BY ConcatProperties
  <1>3. Reverse(buf \o chars) = Reverse(chars) \o Reverse(buf)
    BY ReverseConcat
  <1> QED BY <1>1, <1>2, <1>3

\* The length of k zeros: Times() of a negative number is empty.
NumberOfZeros(k) == IF k > 0 THEN k ELSE 0

LEMMA ZerosAdded ==
  ASSUME NEW digits \in Seq(Chars), NEW k \in Int
  PROVE  LET padded == digits \o Times("0", k)
         IN  /\ padded \in Seq(Chars) /\ Len(padded) = Len(digits) + NumberOfZeros(k)
             /\ Reverse(padded) = Times("0", k) \o Reverse(digits)
  <1> DEFINE zeros == Times("0", k)
  <1>1. "0" \in Chars
    BY SymbolsAreChars
  <1>2. zeros \in Seq(Chars) /\ Len(zeros) = NumberOfZeros(k) /\ Reverse(zeros) = zeros
    BY <1>1, TimesIs, ReverseTimes DEF NumberOfZeros
  <1> HIDE DEF zeros
  <1>3. digits \o zeros \in Seq(Chars) /\ Len(digits \o zeros) = Len(digits) + Len(zeros)
    BY <1>2, ConcatProperties
  <1>4. Reverse(digits \o zeros) = Reverse(zeros) \o Reverse(digits)
    BY <1>2, ReverseConcat
  <1> QED BY <1>2, <1>3, <1>4 DEF zeros

LEMMA NumberOfZerosIs ==
  ASSUME NEW k \in Int
  PROVE  /\ NumberOfZeros(k) \in Nat /\ (NumberOfZeros(k) > 0 => NumberOfZeros(k) = k)
         /\ \A taken \in Nat : taken <= NumberOfZeros(k) => NumberOfZeros(k - taken) = NumberOfZeros(k) - taken
  BY DEF NumberOfZeros

LEMMA ZerosIndexed ==
  ASSUME NEW digits \in Seq(Chars), NEW k \in Int, NEW padded \in Seq(Chars),
         padded = digits \o Times("0", k)
  PROVE  /\ \A i \in 1..Len(digits) : padded[i] = digits[i]
         /\ \A i \in (Len(digits) + 1)..(Len(digits) + NumberOfZeros(k)) : padded[i] = "0"
  <1>d. PICK d \in Nat, m \in Nat : d = Len(digits) /\ m = NumberOfZeros(k)
    BY NumberOfZerosIs
  <1> DEFINE zeros == Times("0", k)
  <1>1. "0" \in Chars
    BY SymbolsAreChars
  <1>2. zeros \in Seq(Chars) /\ Len(zeros) = m
    BY <1>d, <1>1, TimesIs DEF NumberOfZeros
  <1>3. \A j \in 1..k : zeros[j] = "0"
    BY <1>1, TimesIs
  <1> HIDE DEF zeros
  <1>4. PICK z \in Seq(Chars) : z = zeros
    BY <1>2
  <1>5. \A j \in 1..(d + m) : padded[j] = IF j <= d THEN digits[j] ELSE z[j - d]
    <2>0. Len(digits) = d /\ Len(z) = m
      BY <1>d, <1>2, <1>4
    <2>1. padded = digits \o z
      BY <1>4 DEF zeros
    <2>2. ASSUME NEW j \in 1..(d + m) PROVE padded[j] = IF j <= d THEN digits[j] ELSE z[j - d]
      <3>1. CASE j <= d
        <4>1. (digits \o z)[j] = digits[j]
          BY <2>0, <3>1, ConcatProperties
        <4> QED BY <2>1, <3>1, <4>1
      <3>2. CASE ~(j <= d)
        <4>1. (digits \o z)[j] = z[j - d]
          BY <2>0, <3>2, ConcatProperties
        <4> QED BY <2>1, <3>2, <4>1
      <3> QED BY <3>1, <3>2
    <2> QED BY <2>2
  <1>6. ASSUME NEW i \in 1..d PROVE padded[i] = digits[i]
    <2>1. i \in 1..(d + m) /\ i <= d
      OBVIOUS
    <2> QED BY <1>5, <2>1
  <1>7. ASSUME NEW i \in (d + 1)..(d + m) PROVE padded[i] = "0"
    <2>1. i \in 1..(d + m) /\ ~(i <= d) /\ m > 0
      OBVIOUS
    <2>2. m = k
      BY <1>d, <2>1, NumberOfZerosIs
    <2>3. i - d \in 1..k
      BY <2>1, <2>2
    <2>4. padded[i] = z[i - d]
      BY <1>5, <2>1
    <2> QED BY <1>3, <1>4, <2>3, <2>4
  <1> QED BY <1>d, <1>6, <1>7

\* SubSeq() of the first zeros.
LEMMA ZerosTaken ==
  ASSUME NEW digits \in Seq(Chars), NEW k \in Int, NEW taken \in Nat, taken <= NumberOfZeros(k)
  PROVE  LET padded == digits \o Times("0", k)
         IN  SubSeq(padded, 1, Len(padded) - taken) = digits \o Times("0", k - taken)
  <1> DEFINE padded == digits \o Times("0", k)
             less   == digits \o Times("0", k - taken)
  <1>0. PICK j \in Int : j = k - taken
    OBVIOUS
  <1>2. PICK d \in Nat : d = Len(digits)
    OBVIOUS
  <1>3. PICK m \in Nat, n \in Nat : m = NumberOfZeros(k) /\ n = NumberOfZeros(j) /\ n = m - taken
    BY <1>0, NumberOfZerosIs
  <1>4. padded \in Seq(Chars) /\ Len(padded) = d + m
    BY <1>2, <1>3, ZerosAdded
  <1>5. less \in Seq(Chars) /\ Len(less) = d + n
    BY <1>0, <1>2, <1>3, ZerosAdded
  <1>8. PICK p \in Seq(Chars), l \in Seq(Chars) : p = padded /\ l = less
    BY <1>4, <1>5
  <1>p. p = digits \o Times("0", k) /\ l = digits \o Times("0", j)
    BY <1>0, <1>8
  <1>6. (\A i \in 1..d : p[i] = digits[i]) /\ (\A i \in (d + 1)..(d + m) : p[i] = "0")
    <2>1. /\ \A i \in 1..Len(digits) : p[i] = digits[i]
          /\ \A i \in (Len(digits) + 1)..(Len(digits) + NumberOfZeros(k)) : p[i] = "0"
      <3> HIDE DEF padded, less
      <3> QED BY <1>p, ZerosIndexed
    <2> QED BY <1>2, <1>3, <2>1
  <1>7. (\A i \in 1..d : l[i] = digits[i]) /\ (\A i \in (d + 1)..(d + n) : l[i] = "0")
    <2>1. /\ \A i \in 1..Len(digits) : l[i] = digits[i]
          /\ \A i \in (Len(digits) + 1)..(Len(digits) + NumberOfZeros(j)) : l[i] = "0"
      <3> HIDE DEF padded, less
      <3> QED BY <1>p, ZerosIndexed
    <2> QED BY <1>2, <1>3, <2>1
  <1> HIDE DEF padded, less
  <1>9. ASSUME NEW i \in 1..(d + n) PROVE p[i] = l[i]
    <2>1. CASE i \in 1..d
      BY <1>6, <1>7, <2>1
    <2>2. CASE i \notin 1..d
      <3>1. i \in (d + 1)..(d + n) /\ i \in (d + 1)..(d + m)
        BY <1>3, <2>2
      <3>2. p[i] = "0"
        BY <1>6, <3>1
      <3>3. l[i] = "0"
        BY <1>7, <3>1
      <3> QED BY <3>2, <3>3
    <2> QED BY <2>1, <2>2
  <1>10. PICK e \in Nat : e = d + n
    OBVIOUS
  <1>11. PICK s \in Seq(Chars) : /\ s = SubSeq(p, 1, e) /\ Len(s) = e
                                 /\ \A i \in 1..e : s[i] = p[i]
    <2>1. e \in Int /\ e <= Len(p) /\ (e > 0 \/ e = 0)
      <3>1. Len(p) = d + m
        BY <1>4, <1>8
      <3>2. n <= m
        BY <1>3
      <3> QED BY <1>10, <3>1, <3>2
    <2>2. /\ SubSeq(p, 1, e) \in Seq(Chars)
          /\ Len(SubSeq(p, 1, e)) = IF e > 0 THEN e ELSE 0
          /\ \A i \in 1..e : SubSeq(p, 1, e)[i] = p[i]
      BY <2>1, PartOf
    <2> QED BY <2>1, <2>2
  <1>12. s = l
    <2>1. \A i \in 1..e : s[i] = l[i]
      BY <1>9, <1>10, <1>11
    <2>2. Len(l) = e
      BY <1>5, <1>8, <1>10
    <2> QED BY <1>11, <2>1, <2>2
  <1>13. Len(padded) - taken = e
    BY <1>3, <1>4, <1>10
  <1> QED BY <1>8, <1>11, <1>12, <1>13 DEF padded, less

\* What out_rev_() prints of a text it has turned around.
Shown(text, width, flags) ==
    LET spaces == Times(" ", width - Len(text))
    IN  IF "-" \in flags THEN text \o spaces
        ELSE IF "0" \in flags THEN text
        ELSE spaces \o text

LEMMA Nothing == <<>> \in Seq(Chars) /\ Len(<<>>) = 0
  BY EmptySeq

LEMMA OutRevShown ==
  ASSUME NEW buf \in Seq(Chars), NEW width, NEW flags
  PROVE  OutRev(buf, width, flags) = Shown(Reverse(buf), width, flags)
  <1>1. Len(Reverse(buf)) = Len(buf)
    BY ReverseIs
  <1> QED BY <1>1 DEF OutRev, Shown

LEMMA SignIs ==
  ASSUME NEW negative \in BOOLEAN, NEW flags
  PROVE  /\ Sign(negative, flags) \in Seq(Chars) /\ Len(Sign(negative, flags)) \in {0, 1}
         /\ Reverse(Sign(negative, flags)) = Sign(negative, flags)
  <1>1. "-" \in Chars /\ "+" \in Chars /\ " " \in Chars
    BY SymbolsAreChars
  <1>2. Sign(negative, flags) \in {<<>>, <<"-">>, <<"+">>, <<" ">>}
    BY DEF Sign
  <1>3. ASSUME NEW c \in Chars
        PROVE  <<c>> \in Seq(Chars) /\ Len(<<c>>) \in {0, 1} /\ Reverse(<<c>>) = <<c>>
    BY OneChar, ReverseOne
  <1>4. <<>> \in Seq(Chars) /\ Len(<<>>) \in {0, 1} /\ Reverse(<<>>) = <<>>
    <2>1. PICK e \in Seq(Chars) : e = <<>> /\ Len(e) = 0
      BY Nothing
    <2>2. Reverse(e) \in Seq(Chars) /\ Len(Reverse(e)) = 0
      BY <2>1, ReverseIs
    <2>3. Reverse(e) = <<>>
      BY <2>2, EmptySeq
    <2> QED BY <2>1, <2>3
  <1>5. CASE Sign(negative, flags) = <<>>
    BY <1>4, <1>5
  <1>6. CASE Sign(negative, flags) = <<"-">>
    BY <1>1, <1>3, <1>6
  <1>7. CASE Sign(negative, flags) = <<"+">>
    BY <1>1, <1>3, <1>7
  <1>8. CASE Sign(negative, flags) = <<" ">>
    BY <1>1, <1>3, <1>8
  <1> QED BY <1>2, <1>5, <1>6, <1>7, <1>8

LEMMA PrefixIs ==
  ASSUME NEW base \in {8, 16}, NEW flags
  PROVE  /\ Prefix(base, flags) \in Seq(Chars)
         /\ base = 8 => Len(Prefix(base, flags)) = 1 /\ Reverse(Prefix(base, flags)) = <<"0">>
         /\ base = 16 => /\ Len(Prefix(base, flags)) = 2
                         /\ Reverse(Prefix(base, flags))
                              = <<"0", IF "upper" \in flags THEN "X" ELSE "x">>
  <1>1. "0" \in Chars /\ "x" \in Chars /\ "X" \in Chars
    BY SymbolsAreChars
  <1>2. CASE base = 8
    <2>1. Prefix(base, flags) = <<"0">>
      BY <1>2 DEF Prefix
    <2> QED BY <1>1, <1>2, <2>1, OneChar, ReverseOne
  <1>3. CASE base = 16
    <2>1. PICK x \in Chars : x = IF "upper" \in flags THEN "X" ELSE "x"
      BY <1>1
    <2>2. Prefix(base, flags) = <<x, "0">>
      BY <1>3, <2>1 DEF Prefix
    <2>3. <<x, "0">> \in Seq(Chars) /\ Len(<<x, "0">>) = 2
      BY <1>1, TwoChars
    <2>4. Reverse(<<x, "0">>) = <<"0", x>>
      BY <1>1, ReverseTwo
    <2>5. <<"0", x>> = <<"0", IF "upper" \in flags THEN "X" ELSE "x">>
      BY <2>1
    <2>6. base # 8
      BY <1>3
    <2> QED BY <2>2, <2>3, <2>4, <2>5, <2>6, Zenon
  <1> QED BY <1>2, <1>3

\* print_integer_finalization(), once the zeros are known.
Padding(digits, negative, precision, width, flags, k) ==
    LET left == WidthLeft(negative, width, flags)
    IN  PadTo(IF Zeros(flags) THEN PadTo(digits, left) ELSE digits, precision)
            = digits \o Times("0", k)

\* Leading zeros are all that the flag # asks of an octal number.
Kept(base, k, flags) == IF base = 8 /\ k > 0 THEN flags \ {"#"} ELSE flags

LEMMA FinalPlain ==
  ASSUME NEW digits \in Seq(Chars), NEW negative \in BOOLEAN, NEW base, NEW precision,
         NEW width, NEW flags, NEW k \in Int,
         Padding(digits, negative, precision, width, flags, k),
         Kept(base, k, flags) \cap {"#", "pointer"} = {},
         Len(digits) + NumberOfZeros(k) + Len(Sign(negative, Kept(base, k, flags)))
             <= PRINTF_INTEGER_BUFFER_SIZE
  PROVE  Finalization(digits, negative, base, precision, width, flags)
           = Shown(Sign(negative, Kept(base, k, flags)) \o (Times("0", k) \o Reverse(digits)),
                   WidthLeft(negative, width, flags), Kept(base, k, flags))
  <1> DEFINE left     == WidthLeft(negative, width, flags)
             padded   == PadTo(IF Zeros(flags) THEN PadTo(digits, left) ELSE digits, precision)
             padding  == Len(padded) - Len(digits)
             kept     == IF base = 8 /\ padding > 0 THEN flags \ {"#"} ELSE flags
             taken    == TakenBack(Len(padded), padding, base, precision, left, kept)
             prefixed == IF kept \cap {"#", "pointer"} = {} THEN padded
                         ELSE Put(SubSeq(padded, 1, Len(padded) - taken), Prefix(base, kept))
             sign     == Sign(negative, kept)
  <1>1. Finalization(digits, negative, base, precision, width, flags)
          = OutRev(Put(prefixed, sign), left, kept)
    BY DEF Finalization
  <1>2. padded = digits \o Times("0", k)
    BY DEF Padding
  <1>3. /\ padded \in Seq(Chars) /\ Len(padded) = Len(digits) + NumberOfZeros(k)
        /\ Reverse(padded) = Times("0", k) \o Reverse(digits)
    BY <1>2, ZerosAdded
  <1> HIDE DEF padded
  <1>4. padding = NumberOfZeros(k) /\ (padding > 0 <=> k > 0)
    BY <1>3, NumberOfZerosIs DEF NumberOfZeros
  <1>5. kept = Kept(base, k, flags)
    BY <1>4 DEF Kept
  <1> HIDE DEF padding, kept
  <1>6. prefixed = padded
    BY <1>5
  <1> HIDE DEF prefixed
  <1>7. sign \in Seq(Chars) /\ Reverse(sign) = sign /\ Len(padded) + Len(sign) <= PRINTF_INTEGER_BUFFER_SIZE
    BY <1>3, <1>5, SignIs
  <1> HIDE DEF sign
  <1>8. /\ Put(padded, sign) \in Seq(Chars)
        /\ Reverse(Put(padded, sign)) = sign \o Reverse(padded)
    BY <1>3, <1>7, PutTurned
  <1>9. OutRev(Put(padded, sign), left, kept) = Shown(sign \o Reverse(padded), left, kept)
    BY <1>8, OutRevShown
  <1> QED BY <1>1, <1>3, <1>5, <1>6, <1>9 DEF sign

LEMMA FinalPrefix ==
  ASSUME NEW digits \in Seq(Chars), NEW negative \in BOOLEAN, NEW base \in {8, 16},
         NEW precision, NEW width, NEW flags, NEW k \in Int, NEW taken \in Nat,
         Padding(digits, negative, precision, width, flags, k),
         "#" \in Kept(base, k, flags),
         Sign(negative, Kept(base, k, flags)) = <<>>,
         taken = TakenBack(Len(digits) + NumberOfZeros(k), NumberOfZeros(k), base, precision,
                           WidthLeft(negative, width, flags), Kept(base, k, flags)),
         taken <= NumberOfZeros(k),
         Len(digits) + NumberOfZeros(k - taken) + Len(Prefix(base, Kept(base, k, flags)))
             <= PRINTF_INTEGER_BUFFER_SIZE
  PROVE  Finalization(digits, negative, base, precision, width, flags)
           = Shown(Reverse(Prefix(base, Kept(base, k, flags)))
                     \o (Times("0", k - taken) \o Reverse(digits)),
                   WidthLeft(negative, width, flags), Kept(base, k, flags))
  <1> DEFINE left     == WidthLeft(negative, width, flags)
             padded   == PadTo(IF Zeros(flags) THEN PadTo(digits, left) ELSE digits, precision)
             padding  == Len(padded) - Len(digits)
             kept     == IF base = 8 /\ padding > 0 THEN flags \ {"#"} ELSE flags
             back     == TakenBack(Len(padded), padding, base, precision, left, kept)
             part     == SubSeq(padded, 1, Len(padded) - back)
             prefix   == Prefix(base, kept)
             prefixed == IF kept \cap {"#", "pointer"} = {} THEN padded ELSE Put(part, prefix)
             sign     == Sign(negative, kept)
  <1>1. Finalization(digits, negative, base, precision, width, flags)
          = OutRev(Put(prefixed, sign), left, kept)
    BY DEF Finalization
  <1>2. padded = digits \o Times("0", k)
    BY DEF Padding
  <1>3. padded \in Seq(Chars) /\ Len(padded) = Len(digits) + NumberOfZeros(k)
    BY <1>2, ZerosAdded
  <1>4. SubSeq(padded, 1, Len(padded) - taken) = digits \o Times("0", k - taken)
    <2>1. LET p == digits \o Times("0", k)
          IN  SubSeq(p, 1, Len(p) - taken) = digits \o Times("0", k - taken)
      BY ZerosTaken
    <2> HIDE DEF padded
    <2> QED BY <1>2, <2>1, Zenon
  <1> HIDE DEF padded
  <1>5. padding = NumberOfZeros(k) /\ (padding > 0 <=> k > 0)
    BY <1>3, NumberOfZerosIs DEF NumberOfZeros
  <1>6. kept = Kept(base, k, flags)
    BY <1>5 DEF Kept
  <1>7. back = taken
    <2> HIDE DEF padding, kept, left
    <2> QED BY <1>3, <1>5, <1>6 DEF left
  <1> HIDE DEF padding, kept, back
  <1>8. prefixed = Put(part, prefix) /\ sign = <<>>
    BY <1>6
  <1>9. /\ part \in Seq(Chars) /\ Len(part) = Len(digits) + NumberOfZeros(k - taken)
        /\ Reverse(part) = Times("0", k - taken) \o Reverse(digits)
    <2>1. part = digits \o Times("0", k - taken)
      BY <1>4, <1>7
    <2>2. k - taken \in Int
      OBVIOUS
    <2> QED BY <2>1, <2>2, ZerosAdded
  <1>10. prefix \in Seq(Chars) /\ Len(part) + Len(prefix) <= PRINTF_INTEGER_BUFFER_SIZE
    BY <1>6, <1>9, PrefixIs
  <1> HIDE DEF part, prefix, prefixed, sign
  <1>11. /\ Put(part, prefix) \in Seq(Chars)
         /\ Len(Put(part, prefix)) = Len(part) + Len(prefix)
         /\ Reverse(Put(part, prefix)) = Reverse(prefix) \o Reverse(part)
    BY <1>9, <1>10, PutTurned
  <1>12. Put(Put(part, prefix), <<>>) = Put(part, prefix)
    <2>1. PICK b \in Seq(Chars) : b = Put(part, prefix)
      BY <1>11
    <2>2. PICK e \in Seq(Chars) : e = <<>> /\ Len(e) = 0
      BY Nothing
    <2>3. Len(b) + Len(e) <= PRINTF_INTEGER_BUFFER_SIZE
      BY <1>10, <1>11, <2>1, <2>2
    <2>4. Put(b, e) = b \o e
      BY <2>3, PutIs
    <2> QED BY <2>1, <2>2, <2>4, NothingAdded
  <1>13. OutRev(Put(part, prefix), left, kept)
           = Shown(Reverse(prefix) \o Reverse(part), left, kept)
    BY <1>11, OutRevShown
  <1>14. prefix = Prefix(base, Kept(base, k, flags))
    BY <1>6 DEF prefix
  <1> QED BY <1>1, <1>6, <1>8, <1>9, <1>12, <1>13, <1>14

\* The number that print_integer() is called with.
Value(c) == IF Argument(c) > 0 THEN Argument(c) ELSE -Argument(c)

\* StandardDigits(c) without the zero that the flag # adds.
StandardPadded(c) ==
    LET digits == Numeral(Value(c), Base(c), c.conv = "X")
        least  == IF c.precision = <<>> THEN 1 ELSE Head(c.precision)
    IN  Times("0", least - Len(digits)) \o digits

LEMMA FieldsAre ==
  ASSUME NEW c \in Items, c.conv \in Integers_ \ {"b"}
  PROVE  /\ c.width \in Int /\ c.precision \in Seq(Int)
         /\ c.flags \subseteq {"0", "-", "+", " ", "#"}
         /\ Value(c) \in Nat /\ Base(c) \in Bases /\ Width(c) \in Nat
         /\ (c.conv = "X") \in BOOLEAN
         /\ c.precision = <<>> => Precision(c) = 0
  <1>1. Argument(c) \in Int /\ Base(c) \in Bases /\ Width(c) \in Nat
    BY ArgumentIs
  <1>2. Value(c) \in Nat
    BY <1>1 DEF Value
  <1> QED BY <1>1, <1>2 DEF Items, Convs, Integers_, Precision

LEMMA StandardDigitsAre ==
  ASSUME NEW c \in Items, c.conv \in Integers_ \ {"b"}
  PROVE  LET P == StandardPadded(c)
         IN  /\ P \in Seq(Chars)
             /\ StandardDigits(c) = IF "#" \in c.flags /\ c.conv = "o" /\ (P = <<>> \/ Head(P) # "0")
                                    THEN <<"0">> \o P ELSE P
             /\ StandardDigits(c) \in Seq(Chars) /\ Len(P) <= Len(StandardDigits(c))
  <1> DEFINE P == StandardPadded(c)
  <1>1. P \in Seq(Chars)
    <2> DEFINE digits == Numeral(Value(c), Base(c), c.conv = "X")
               least  == IF c.precision = <<>> THEN 1 ELSE Head(c.precision)
               zeros  == Times("0", least - Len(digits))
    <2>1. digits \in Seq(Chars)
      <3>1. PICK upper \in BOOLEAN : upper = (c.conv = "X")
        BY FieldsAre
      <3> QED BY <3>1, FieldsAre, DigitsOfNumeral
    <2>2. least \in Int
      <3>1. c.precision # <<>> => Head(c.precision) \in Int
        BY FieldsAre, HeadTailProperties
      <3> QED BY <3>1
    <2> HIDE DEF digits, least
    <2>3. least - Len(digits) \in Int
      <3>1. Len(digits) \in Nat
        BY <2>1
      <3> QED BY <2>2, <3>1
    <2>4. zeros \in Seq(Chars)
      <3>1. "0" \in Chars
        BY SymbolsAreChars
      <3> QED BY <2>3, <3>1, TimesIs
    <2> HIDE DEF zeros
    <2>5. zeros \o digits \in Seq(Chars)
      BY <2>1, <2>4, ConcatProperties
    <2> QED BY <2>5 DEF StandardPadded, digits, least, zeros
  <1>2. Value(c) = IF Argument(c) < 0 THEN -Argument(c) ELSE Argument(c)
    BY ArgumentIs DEF Value
  <1>3. StandardDigits(c) = IF "#" \in c.flags /\ c.conv = "o" /\ (P = <<>> \/ Head(P) # "0")
                            THEN <<"0">> \o P ELSE P
    BY <1>2 DEF StandardDigits, StandardPadded
  <1> HIDE DEF P
  <1>4. <<"0">> \o P \in Seq(Chars) /\ Len(<<"0">> \o P) = 1 + Len(P)
    <2>1. <<"0">> \in Seq(Chars) /\ Len(<<"0">>) = 1
      BY SymbolsAreChars, OneChar
    <2> QED BY <1>1, <2>1, ConcatProperties
  <1>5. StandardDigits(c) \in Seq(Chars) /\ Len(P) <= Len(StandardDigits(c))
    <2>1. StandardDigits(c) = <<"0">> \o P \/ StandardDigits(c) = P
      BY <1>3
    <2>2. Len(P) \in Nat /\ Len(P) <= 1 + Len(P)
      BY <1>1
    <2>3. CASE StandardDigits(c) = <<"0">> \o P
      BY <1>4, <2>2, <2>3
    <2>4. CASE StandardDigits(c) = P
      BY <1>1, <2>2, <2>4
    <2> QED BY <2>1, <2>3, <2>4
  <1> QED BY <1>1, <1>3, <1>5 DEF P

LEMMA StandardPrefixIs ==
  ASSUME NEW c \in Items, c.conv \in Integers_ \ {"b"}
  PROVE  StandardPrefix(c) \in Seq(Chars)
  <1>1. "-" \in Chars /\ "+" \in Chars /\ " " \in Chars /\ "0" \in Chars /\ "x" \in Chars /\ "X" \in Chars
    BY SymbolsAreChars
  <1>2. /\ <<"-">> \in Seq(Chars) /\ <<"+">> \in Seq(Chars) /\ <<" ">> \in Seq(Chars)
        /\ <<>> \in Seq(Chars)
    BY <1>1, OneChar, Nothing
  <1>3. c.conv \in {"x", "X"} => <<"0", c.conv>> \in Seq(Chars)
    <2>1. c.conv \in {"x", "X"} => c.conv \in Chars
      BY <1>1
    <2> QED BY <1>1, <2>1, TwoChars
  <1> QED BY <1>2, <1>3 DEF StandardPrefix

\* The text is never shorter than its parts, or than the width.
LEMMA StandardTextIsLong ==
  ASSUME NEW c, StandardPrefix(c) \in Seq(Chars), StandardDigits(c) \in Seq(Chars),
         Width(c) \in Nat
  PROVE  /\ Len(StandardPrefix(c)) + Len(StandardDigits(c)) <= Len(StandardText(c))
         /\ Width(c) <= Len(StandardText(c))
  <1>1. PICK p \in Seq(Chars), s \in Seq(Chars), w \in Nat :
            p = StandardPrefix(c) /\ s = StandardDigits(c) /\ w = Width(c)
    OBVIOUS
  <1>2. PICK m \in Nat, n \in Nat : m = Len(p) /\ n = Len(s)
    OBVIOUS
  <1>3. PICK body \in Seq(Chars) : body = p \o s /\ Len(body) = m + n
    BY <1>2, ConcatProperties
  <1>4. PICK room \in Int : room = w - Len(body)
    BY <1>3
  <1>5. PICK blanks \in Seq(Chars) : blanks = Times(" ", room) /\ Len(blanks) = NumberOfZeros(room)
    BY SymbolsAreChars, TimesIs DEF NumberOfZeros
  <1>6. PICK zeros \in Seq(Chars) : zeros = Times("0", room) /\ Len(zeros) = NumberOfZeros(room)
    BY SymbolsAreChars, TimesIs DEF NumberOfZeros
  <1>7. NumberOfZeros(room) \in Nat /\ m + n + NumberOfZeros(room) >= w /\ m + n + NumberOfZeros(room) >= m + n
    BY <1>3, <1>4 DEF NumberOfZeros
  <1>8. StandardText(c) = body \o blanks \/ StandardText(c) = p \o zeros \o s
        \/ StandardText(c) = blanks \o body
    BY <1>1, <1>3, <1>4, <1>5, <1>6 DEF StandardText
  <1>9. Len(body \o blanks) = m + n + NumberOfZeros(room) /\ Len(blanks \o body) = m + n + NumberOfZeros(room)
    <2>1. /\ Len(body \o blanks) = Len(body) + Len(blanks)
          /\ Len(blanks \o body) = Len(blanks) + Len(body)
      BY ConcatProperties
    <2>2. PICK z \in Nat : z = NumberOfZeros(room)
      BY <1>7
    <2>3. PICK a, b : a = Len(body \o blanks) /\ b = Len(blanks \o body)
      OBVIOUS
    <2>4. Len(body) = m + n /\ Len(blanks) = z /\ m + n \in Nat
      <3>1. m + n \in Nat
        OBVIOUS
      <3> QED BY <1>3, <1>5, <2>2, <3>1, Zenon
    <2>5. a = Len(body) + Len(blanks) /\ b = Len(blanks) + Len(body)
      BY <2>1, <2>3
    <2>6. a = m + n + z /\ b = m + n + z
      BY <2>4, <2>5
    <2> QED BY <2>2, <2>3, <2>6
  <1>10. Len(p \o zeros \o s) = m + n + NumberOfZeros(room)
    <2>1. p \o zeros \in Seq(Chars) /\ Len(p \o zeros) = Len(p) + Len(zeros)
      BY ConcatProperties
    <2>2. PICK q \in Seq(Chars) : q = p \o zeros
      BY <2>1
    <2>3. Len(q \o s) = Len(q) + Len(s)
      BY ConcatProperties
    <2>4. PICK z \in Nat : z = NumberOfZeros(room)
      BY <1>7
    <2>5. Len(q) = m + z
      BY <1>2, <1>6, <2>1, <2>2, <2>4
    <2>6. Len(q \o s) = m + n + z
      BY <1>2, <2>3, <2>5
    <2> QED BY <2>2, <2>4, <2>6
  <1>11. Len(StandardText(c)) = m + n + NumberOfZeros(room)
    BY <1>8, <1>9, <1>10
  <1> QED BY <1>1, <1>2, <1>7, <1>11

\* What Fits() says of the parts.
LEMMA PartsFit ==
  ASSUME NEW c \in Items, c.conv \in Integers_ \ {"b"}, Fits(c)
  PROVE  /\ Len(StandardPrefix(c)) + Len(StandardDigits(c)) <= PRINTF_INTEGER_BUFFER_SIZE
         /\ "0" \in c.flags /\ c.precision = <<>> /\ "-" \notin c.flags
              => Width(c) <= PRINTF_INTEGER_BUFFER_SIZE
  <1> DEFINE zeros == "0" \in c.flags /\ c.precision = <<>> /\ "-" \notin c.flags
  <1>1. PICK w \in Int : w = (IF zeros THEN c.width ELSE 0)
    <2>1. c.width \in Int
      BY FieldsAre
    <2> HIDE DEF zeros
    <2> QED BY <2>1
  <1>2. PICK d : d = [c EXCEPT !.width = w]
    OBVIOUS
  <1>3. /\ d.conv = c.conv /\ d.arg = c.arg /\ d.flags = c.flags /\ d.precision = c.precision
        /\ d.length = c.length /\ d.width = w
    BY <1>2 DEF Items, Convs, Integers_
  <1>4. Len(StandardText(d)) <= PRINTF_INTEGER_BUFFER_SIZE
    BY <1>1, <1>2 DEF Fits
  <1>5. Signed(d) = Signed(c) /\ Argument(d) = Argument(c) /\ Base(d) = Base(c)
    <2>1. Signed(d) = Signed(c) /\ Base(d) = Base(c)
      BY <1>3 DEF Signed, Base
    <2> QED BY <1>3, <2>1 DEF Argument
  <1>6. StandardPrefix(d) = StandardPrefix(c)
    BY <1>3, <1>5 DEF StandardPrefix
  <1>7. StandardDigits(d) = StandardDigits(c)
    BY <1>3, <1>5 DEF StandardDigits
  <1>8. Width(d) \in Nat /\ (zeros => Width(d) = Width(c))
    BY <1>1, <1>3 DEF Width
  <1>9. StandardPrefix(c) \in Seq(Chars) /\ StandardDigits(c) \in Seq(Chars)
    BY StandardPrefixIs, StandardDigitsAre
  <1>10. /\ Len(StandardPrefix(d)) + Len(StandardDigits(d)) <= Len(StandardText(d))
         /\ Width(d) <= Len(StandardText(d))
    BY <1>6, <1>7, <1>8, <1>9, StandardTextIsLong
  <1> QED BY <1>4, <1>6, <1>7, <1>8, <1>9, <1>10, PrintfAssumption

\* What print_integer() puts in its buffer first.
FirstDigits(c) == IF Value(c) = 0 /\ c.precision = <<>> THEN <<"0">>
                   ELSE Digits(Value(c), Base(c), c.conv = "X")

LEMMA DigitsAgree ==
  ASSUME NEW c \in Items, c.conv \in Integers_ \ {"b"},
         \A i \in DOMAIN c.precision : c.precision[i] >= 0,
         Len(StandardPadded(c)) <= PRINTF_INTEGER_BUFFER_SIZE
  PROVE  /\ FirstDigits(c) \in Seq(Chars) /\ Len(FirstDigits(c)) <= PRINTF_INTEGER_BUFFER_SIZE
         /\ Precision(c) \in Nat /\ Precision(c) <= PRINTF_INTEGER_BUFFER_SIZE
         /\ StandardPadded(c) = Times("0", Precision(c) - Len(FirstDigits(c))) \o Reverse(FirstDigits(c))
         /\ Value(c) = 0 /\ c.precision = <<>> => FirstDigits(c) = <<"0">>
         /\ Value(c) = 0 /\ c.precision # <<>> => FirstDigits(c) = <<>>
         /\ Value(c) # 0 => Len(FirstDigits(c)) > 0 /\ Reverse(FirstDigits(c))[1] # "0"
  <1> DEFINE plain == c.precision = <<>>
  <1>1. PICK v \in Nat, base \in Bases, upper \in BOOLEAN :
            v = Value(c) /\ base = Base(c) /\ upper = (c.conv = "X")
    BY FieldsAre
  <1>2. PICK D, N : D = Digits(v, base, upper) /\ N = Numeral(v, base, upper)
    OBVIOUS
  <1>3. /\ D \in Seq(Chars) /\ Len(D) <= PRINTF_INTEGER_BUFFER_SIZE /\ N \in Seq(Chars)
        /\ v = 0 => D = <<>>
        /\ v # 0 => Len(D) > 0
        /\ Len(N) <= PRINTF_INTEGER_BUFFER_SIZE => N = Reverse(D) /\ (Len(N) > 0 => N[1] # "0")
    BY <1>2, DigitsOfNumeral
  <1>4. PICK p \in Nat : p = Precision(c) /\ (plain => p = 0) /\ (~plain => p = Head(c.precision))
    <2>1. CASE plain
      BY <2>1, FieldsAre
    <2>2. CASE ~plain
      <3>1. c.precision \in Seq(Int) /\ c.precision # <<>>
        BY <2>2, FieldsAre
      <3>2. 1 \in DOMAIN c.precision /\ Head(c.precision) = c.precision[1] /\ Head(c.precision) \in Int
        BY <3>1
      <3>3. Head(c.precision) \in Nat
        BY <3>2
      <3> QED BY <2>2, <3>3 DEF Precision
    <2> QED BY <2>1, <2>2
  <1>5. PICK least \in Nat : least = IF plain THEN 1 ELSE p
    OBVIOUS
  <1>6. StandardPadded(c) = Times("0", least - Len(N)) \o N
    BY <1>1, <1>2, <1>4, <1>5 DEF StandardPadded
  <1>7. PICK zs \in Seq(Chars) : zs = Times("0", least - Len(N)) /\ Len(zs) = NumberOfZeros(least - Len(N))
    <2>1. "0" \in Chars
      BY SymbolsAreChars
    <2>2. least - Len(N) \in Int
      BY <1>3
    <2> QED BY <2>1, <2>2, TimesIs DEF NumberOfZeros
  <1>8. PICK n \in Nat : n = Len(N)
    BY <1>3
  <1>9. Len(zs \o N) = Len(zs) + Len(N)
    BY <1>3, ConcatProperties
  <1>10. NumberOfZeros(least - n) + n <= PRINTF_INTEGER_BUFFER_SIZE
    <2>1. Len(StandardPadded(c)) = Len(zs) + Len(N)
      BY <1>6, <1>7, <1>9
    <2> QED BY <1>7, <1>8, <2>1
  <1>11. n <= PRINTF_INTEGER_BUFFER_SIZE /\ least <= PRINTF_INTEGER_BUFFER_SIZE
    BY <1>10, PrintfAssumption DEF NumberOfZeros
  <1>12. p <= PRINTF_INTEGER_BUFFER_SIZE
    <2> HIDE DEF plain
    <2>1. CASE plain
      BY <1>4, <2>1, PrintfAssumption
    <2>2. CASE ~plain
      BY <1>5, <1>11, <2>2
    <2> QED BY <2>1, <2>2
  <1>13. N = Reverse(D) /\ (n > 0 => N[1] # "0") /\ Len(D) = n
    <2>1. N = Reverse(D) /\ (n > 0 => N[1] # "0")
      BY <1>3, <1>8, <1>11
    <2> QED BY <1>3, <1>8, <2>1, ReverseIs
  <1>14. /\ FirstDigits(c) = IF v = 0 /\ plain THEN <<"0">> ELSE D
    BY <1>1, <1>2 DEF FirstDigits
  <1>15. CASE v = 0 /\ plain
    <2>1. FirstDigits(c) = <<"0">> /\ <<"0">> \in Seq(Chars) /\ Len(<<"0">>) = 1
      BY <1>14, <1>15, SymbolsAreChars, OneChar
    <2>2. n = 0 /\ N = <<>>
      <3>1. D = <<>>
        BY <1>3, <1>15
      <3>2. n = 0
        BY <1>13, <3>1
      <3> QED BY <1>3, <1>8, <3>2, EmptySeq
    <2>3. StandardPadded(c) = Times("0", 1) \o <<>>
      <3>1. least - Len(N) = 1
        BY <1>5, <1>8, <1>15, <2>2
      <3> QED BY <1>6, <2>2, <3>1
    <2>4. Times("0", 1) = <<"0">> /\ Times("0", -1) = <<>>
      <3>0. "0" \in Chars
        BY SymbolsAreChars
      <3>1. PICK i \in Int, j \in Int : i = -1 /\ i <= 0 /\ j = 1
        OBVIOUS
      <3>2. Times("0", i) = <<>>
        BY <3>0, <3>1, TimesIs
      <3>5. /\ Times("0", j) \in Seq(Chars) /\ Len(Times("0", j)) = IF j > 0 THEN j ELSE 0
            /\ \A m \in 1..j : Times("0", j)[m] = "0"
        BY <3>0, TimesIs
      <3>6. PICK t \in Seq(Chars) : t = Times("0", j)
        BY <3>5
      <3>3. Len(t) = 1 /\ t[1] = "0"
        BY <3>1, <3>5, <3>6
      <3>4. t = <<"0">>
        BY <3>3
      <3> QED BY <3>1, <3>2, <3>4, <3>6
    <2>5. StandardPadded(c) = <<"0">>
      BY <2>1, <2>3, <2>4, NothingAdded
    <2>6. Reverse(FirstDigits(c)) = <<"0">>
      BY <2>1, SymbolsAreChars, ReverseOne
    <2>7. Precision(c) - Len(FirstDigits(c)) = -1
      BY <1>4, <1>15, <2>1
    <2>8. Times("0", Precision(c) - Len(FirstDigits(c))) \o Reverse(FirstDigits(c)) = <<"0">>
      BY <2>1, <2>4, <2>6, <2>7, NothingAdded
    <2> QED BY <1>1, <1>4, <1>12, <1>15, <2>1, <2>5, <2>8, PrintfAssumption
  <1>16. CASE ~(v = 0 /\ plain)
    <2>1. FirstDigits(c) = D
      BY <1>14, <1>16
    <2>2. Times("0", least - n) = Times("0", p - n)
      <3>1. CASE plain
        <4>1. n > 0
          BY <1>3, <1>13, <1>16, <3>1
        <4>2. least = 1 /\ p = 0
          BY <1>4, <1>5, <3>1
        <4>3. PICK i \in Int, j \in Int : i = least - n /\ i <= 0 /\ j = p - n /\ j <= 0
          BY <4>1, <4>2
        <4>4. "0" \in Chars
          BY SymbolsAreChars
        <4>5. Times("0", i) = <<>> /\ Times("0", j) = <<>>
          BY <4>3, <4>4, TimesIs
        <4> QED BY <4>3, <4>5
      <3>2. CASE ~plain
        BY <1>5, <3>2
      <3> QED BY <3>1, <3>2
    <2>3. StandardPadded(c) = Times("0", Precision(c) - Len(FirstDigits(c))) \o Reverse(FirstDigits(c))
      BY <1>4, <1>6, <1>8, <1>13, <2>1, <2>2
    <2>4. v = 0 /\ ~plain => D = <<>>
      BY <1>3
    <2>5. v # 0 => Len(D) > 0 /\ Reverse(D)[1] # "0"
      BY <1>3, <1>13
    <2> QED BY <1>1, <1>3, <1>4, <1>12, <1>16, <2>1, <2>3, <2>4, <2>5
  <1> QED BY <1>15, <1>16

\* The flags that print_integer() passes on.
FlagsOf(c) == IF Value(c) = 0 /\ (c.precision = <<>> \/ Base(c) = 16)
              THEN IntegerFlags(c) \ {"#"} ELSE IntegerFlags(c)

LEMMA IntegerTextFinal ==
  ASSUME NEW c \in Items, c.conv \in Integers_ \ {"b"}
  PROVE  IntegerText(c) = Finalization(FirstDigits(c), Argument(c) < 0, Base(c), Precision(c), Width(c),
                                       FlagsOf(c))
  <1> DEFINE F == IntegerFlags(c)
  <1>1. ("precision" \notin F) = (c.precision = <<>>) /\ ("upper" \in F) = (c.conv = "X")
    <2>1. ("precision" \in F <=> c.precision # <<>>) /\ ("upper" \in F <=> c.conv = "X")
      BY FlagsAre
    <2> HIDE DEF F
    <2> QED BY <2>1
  <1>2. IntegerText(c) = PrintInteger(Value(c), Argument(c) < 0, Base(c), Precision(c), Width(c), F)
    BY DEF IntegerText, Value
  <1> HIDE DEF F
  <1> DEFINE digits == IF Value(c) = 0 /\ "precision" \notin F THEN <<"0">>
                       ELSE Digits(Value(c), Base(c), "upper" \in F)
             kept   == IF Value(c) = 0 /\ ("precision" \notin F \/ Base(c) = 16)
                       THEN F \ {"#"} ELSE F
  <1>3. PrintInteger(Value(c), Argument(c) < 0, Base(c), Precision(c), Width(c), F)
          = Finalization(digits, Argument(c) < 0, Base(c), Precision(c), Width(c), kept)
    BY DEF PrintInteger
  <1>4. digits = FirstDigits(c)
    BY <1>1, Zenon DEF FirstDigits
  <1>5. kept = FlagsOf(c)
    BY <1>1 DEF FlagsOf, F
  <1> QED BY <1>2, <1>3, <1>4, <1>5

LEMMA KeptAre ==
  ASSUME NEW c \in Items, c.conv \in Integers_ \ {"b"}, NEW k \in Int
  PROVE  LET K == Kept(Base(c), k, FlagsOf(c))
         IN  /\ "-" \in K <=> ("-" \in c.flags \/ c.width < 0)
             /\ "0" \in K <=> ("0" \in c.flags /\ c.precision = <<>>)
             /\ "+" \in K <=> ("+" \in c.flags /\ Signed(c))
             /\ " " \in K <=> (" " \in c.flags /\ Signed(c))
             /\ "#" \in K <=> /\ "#" \in c.flags /\ Base(c) # 10
                              /\ ~(Value(c) = 0 /\ (c.precision = <<>> \/ Base(c) = 16))
                              /\ ~(Base(c) = 8 /\ k > 0)
             /\ "precision" \in K <=> c.precision # <<>>
             /\ "upper" \in K <=> c.conv = "X"
             /\ "pointer" \notin K
  <1> DEFINE F == IntegerFlags(c)
             all == Value(c) = 0 /\ (c.precision = <<>> \/ Base(c) = 16)
             octal == Base(c) = 8 /\ k > 0
             K == Kept(Base(c), k, FlagsOf(c))
  <1>1. K = F \ ((IF all THEN {"#"} ELSE {}) \cup (IF octal THEN {"#"} ELSE {}))
    BY DEF Kept, FlagsOf
  <1> HIDE DEF F, all, octal, K
  <1>2. /\ \A f \in {"-", "0", "+", " ", "precision", "upper", "pointer"} : f \in K <=> f \in F
        /\ "#" \in K <=> ("#" \in F /\ ~all /\ ~octal)
    BY <1>1
  <1>3. /\ "-" \in F <=> ("-" \in c.flags \/ c.width < 0)
        /\ "0" \in F <=> ("0" \in c.flags /\ c.precision = <<>>)
        /\ "+" \in F <=> ("+" \in c.flags /\ Signed(c))
        /\ " " \in F <=> (" " \in c.flags /\ Signed(c))
        /\ "#" \in F <=> ("#" \in c.flags /\ Base(c) # 10)
        /\ "precision" \in F <=> c.precision # <<>>
        /\ "upper" \in F <=> c.conv = "X"
        /\ "pointer" \notin F
    BY FlagsAre DEF F
  <1>4. /\ "-" \in K <=> ("-" \in c.flags \/ c.width < 0)
        /\ "0" \in K <=> ("0" \in c.flags /\ c.precision = <<>>)
        /\ "+" \in K <=> ("+" \in c.flags /\ Signed(c))
        /\ " " \in K <=> (" " \in c.flags /\ Signed(c))
        /\ "precision" \in K <=> c.precision # <<>>
        /\ "upper" \in K <=> c.conv = "X"
        /\ "pointer" \notin K
    BY <1>2, <1>3
  <1>5. "#" \in K <=> ("#" \in c.flags /\ Base(c) # 10 /\ ~all /\ ~octal)
    BY <1>2, <1>3
  <1> QED BY <1>4, <1>5 DEF K, all, octal

\* The sign or the prefix is the prefix of the standard.
LEMMA SignAgrees ==
  ASSUME NEW c \in Items, c.conv \in Integers_ \ {"b"}, NEW k \in Int
  PROVE  LET K == Kept(Base(c), k, FlagsOf(c))
             sign == Sign(Argument(c) < 0, K)
         IN  /\ Base(c) # 16 \/ "#" \notin K => StandardPrefix(c) = sign
             /\ ~Signed(c) => sign = <<>>
             /\ "#" \in K /\ Base(c) = 16 => StandardPrefix(c) = <<"0", c.conv>>
  <1> DEFINE K == Kept(Base(c), k, FlagsOf(c))
             sign == Sign(Argument(c) < 0, K)
  <1>1. /\ "+" \in K <=> ("+" \in c.flags /\ Signed(c))
        /\ " " \in K <=> (" " \in c.flags /\ Signed(c))
        /\ Base(c) = 16 => ("#" \in K <=> "#" \in c.flags /\ Value(c) # 0)
    <2>1. /\ "+" \in K <=> ("+" \in c.flags /\ Signed(c))
          /\ " " \in K <=> (" " \in c.flags /\ Signed(c))
          /\ "#" \in K <=> /\ "#" \in c.flags /\ Base(c) # 10
                           /\ ~(Value(c) = 0 /\ (c.precision = <<>> \/ Base(c) = 16))
                           /\ ~(Base(c) = 8 /\ k > 0)
      BY KeptAre
    <2>2. Base(c) \in {8, 10, 16}
      BY KindsAre
    <2>3. Base(c) = 16 => Base(c) # 10 /\ Base(c) # 8
      BY <2>2
    <2> HIDE DEF K
    <2> QED BY <2>1, <2>3, Zenon
  <1> HIDE DEF K
  <1>2. Argument(c) \in Int /\ (~Signed(c) => Argument(c) \in Nat) /\ (Value(c) = 0 <=> Argument(c) = 0)
    BY ArgumentIs DEF Value
  <1>3. /\ Base(c) = 16 <=> c.conv \in {"x", "X"}
        /\ Signed(c) => Base(c) = 10
    BY KindsAre
  <1>4. ~Signed(c) => ~(Argument(c) < 0)
    BY <1>2
  <1>5. ~Signed(c) => sign = <<>>
    BY <1>1, <1>4 DEF Sign
  <1>6. ASSUME Signed(c) PROVE StandardPrefix(c) = sign
    <2>1. c.conv \notin {"x", "X"}
      BY <1>3, <1>6
    <2>2. sign = IF Argument(c) < 0 THEN <<"-">> ELSE IF "+" \in c.flags THEN <<"+">>
                 ELSE IF " " \in c.flags THEN <<" ">> ELSE <<>>
      BY <1>1, <1>6 DEF Sign
    <2> HIDE DEF sign
    <2> QED BY <1>6, <2>1, <2>2 DEF StandardPrefix
  <1>7. ASSUME ~Signed(c)
        PROVE  StandardPrefix(c) = IF "#" \in c.flags /\ Base(c) = 16 /\ Value(c) # 0
                                   THEN <<"0", c.conv>> ELSE <<>>
    BY <1>2, <1>3, <1>7 DEF StandardPrefix
  <1>8. "#" \in K /\ Base(c) = 16 => StandardPrefix(c) = <<"0", c.conv>>
    <2>1. Base(c) = 16 => ~Signed(c)
      BY <1>3
    <2> QED BY <1>1, <1>7, <2>1
  <1>9. Base(c) # 16 \/ "#" \notin K => StandardPrefix(c) = sign
    <2> HIDE DEF sign
    <2>1. CASE Signed(c)
      BY <1>6, <2>1
    <2>2. CASE ~Signed(c)
      BY <1>1, <1>5, <1>7, <2>2
    <2> QED BY <2>1, <2>2
  <1> QED BY <1>5, <1>8, <1>9 DEF K

\* The digits of the standard.
LEMMA PaddedHead ==
  ASSUME NEW s \in Seq(Chars), NEW k \in Int
  PROVE  /\ Times("0", k) \o s \in Seq(Chars) /\ Len(Times("0", k) \o s) = NumberOfZeros(k) + Len(s)
         /\ k <= 0 => Times("0", k) \o s = s
         /\ k > 0 => Times("0", k) \o s # <<>> /\ Head(Times("0", k) \o s) = "0"
  <1>1. "0" \in Chars
    BY SymbolsAreChars
  <1>2. PICK z \in Seq(Chars) : /\ z = Times("0", k) /\ Len(z) = NumberOfZeros(k)
                                /\ \A i \in 1..k : z[i] = "0"
                                /\ k <= 0 => z = <<>>
    BY <1>1, TimesIs DEF NumberOfZeros
  <1>3. PICK t \in Seq(Chars) : t = z \o s /\ Len(t) = Len(z) + Len(s)
    BY ConcatProperties
  <1>4. k <= 0 => t = s
    BY <1>2, <1>3, NothingAdded
  <1>5. ASSUME k > 0 PROVE t # <<>> /\ Head(t) = "0"
    <2>1. PICK m \in Nat, n \in Nat : m = Len(z) /\ n = Len(s)
      OBVIOUS
    <2>m. m = k
      BY <1>2, <1>5, <2>1 DEF NumberOfZeros
    <2>2. \A i \in 1..(m + n) : t[i] = IF i <= m THEN z[i] ELSE s[i - m]
      <3>1. \A i \in 1..(m + n) : (z \o s)[i] = IF i <= m THEN z[i] ELSE s[i - m]
        BY <2>1, ConcatIs
      <3> QED BY <1>3, <3>1
    <2>3. 1 \in 1..(m + n) /\ 1 <= m /\ 1 \in 1..k
      BY <1>5, <2>m
    <2>4. t[1] = "0"
      BY <1>2, <2>2, <2>3
    <2>5. Len(t) > 0
      BY <1>3, <1>5, <2>1, <2>m
    <2> QED BY <2>4, <2>5
  <1> QED BY <1>2, <1>3, <1>4, <1>5

LEMMA PaddedFits ==
  ASSUME NEW c \in Items, Comparable(c)
  PROVE  /\ c.conv \in Integers_ \ {"b"}
         /\ \A i \in DOMAIN c.precision : c.precision[i] >= 0
         /\ Len(StandardPadded(c)) <= PRINTF_INTEGER_BUFFER_SIZE
  <1>1. c.conv \in Integers_ \ {"b"} /\ Fits(c)
    BY DEF Comparable
  <1>2. PICK p \in Seq(Chars), s \in Seq(Chars), d \in Seq(Chars) :
            p = StandardPrefix(c) /\ s = StandardDigits(c) /\ d = StandardPadded(c)
    BY <1>1, StandardPrefixIs, StandardDigitsAre
  <1>3. Len(p) + Len(s) <= PRINTF_INTEGER_BUFFER_SIZE
    BY <1>1, <1>2, PartsFit
  <1>4. Len(d) <= Len(s)
    BY <1>1, <1>2, StandardDigitsAre
  <1>5. Len(d) \in Nat /\ Len(s) \in Nat /\ Len(p) \in Nat /\ PRINTF_INTEGER_BUFFER_SIZE \in Nat
    BY PrintfAssumption
  <1>6. Len(d) <= PRINTF_INTEGER_BUFFER_SIZE
    BY <1>3, <1>4, <1>5
  <1> QED BY <1>1, <1>2, <1>6 DEF Comparable

\* When the standard adds a zero to an octal number.
LEMMA OctalDigits ==
  ASSUME NEW c \in Items, Comparable(c)
  PROVE  LET k == Precision(c) - Len(FirstDigits(c))
             alternative == "#" \in c.flags /\ c.conv = "o"
             none == Value(c) = 0 /\ c.precision = <<>>
         IN  /\ k \in Int
             /\ k <= 0 => StandardPadded(c) = Reverse(FirstDigits(c))
             /\ ~alternative \/ none \/ k > 0 => StandardDigits(c) = StandardPadded(c)
             /\ alternative /\ ~none /\ k <= 0 =>
                   StandardDigits(c) = <<"0">> \o StandardPadded(c)
  <1> DEFINE alternative == "#" \in c.flags /\ c.conv = "o"
             none == Value(c) = 0 /\ c.precision = <<>>
             P == StandardPadded(c)
  <1>1. c.conv \in Integers_ \ {"b"}
    BY PaddedFits
  <1>2. /\ FirstDigits(c) \in Seq(Chars) /\ Precision(c) \in Nat
        /\ P = Times("0", Precision(c) - Len(FirstDigits(c))) \o Reverse(FirstDigits(c))
        /\ Value(c) = 0 /\ c.precision = <<>> => FirstDigits(c) = <<"0">>
        /\ Value(c) = 0 /\ c.precision # <<>> => FirstDigits(c) = <<>>
        /\ Value(c) # 0 => Len(FirstDigits(c)) > 0 /\ Reverse(FirstDigits(c))[1] # "0"
    BY PaddedFits, DigitsAgree
  <1>3. PICK k \in Int : k = Precision(c) - Len(FirstDigits(c))
    BY <1>2
  <1>4. PICK r \in Seq(Chars) : r = Reverse(FirstDigits(c)) /\ Len(r) = Len(FirstDigits(c))
    BY <1>2, ReverseIs
  <1>5. /\ P \in Seq(Chars)
        /\ k <= 0 => P = r
        /\ k > 0 => P # <<>> /\ Head(P) = "0"
    <2>1. P = Times("0", k) \o r
      BY <1>2, <1>3, <1>4
    <2>2. /\ Times("0", k) \o r \in Seq(Chars)
          /\ k <= 0 => Times("0", k) \o r = r
          /\ k > 0 => Times("0", k) \o r # <<>> /\ Head(Times("0", k) \o r) = "0"
      BY PaddedHead
    <2> HIDE DEF P
    <2> QED BY <2>1, <2>2
  <1>6. StandardDigits(c) = IF alternative /\ (P = <<>> \/ Head(P) # "0") THEN <<"0">> \o P ELSE P
    BY <1>1, StandardDigitsAre
  <1> HIDE DEF P
  <1>7. ASSUME none PROVE P # <<>> /\ Head(P) = "0"
    <2>1. FirstDigits(c) = <<"0">> /\ Len(FirstDigits(c)) = 1
      BY <1>2, <1>7, SymbolsAreChars, OneChar
    <2>2. r = <<"0">>
      BY <1>4, <2>1, SymbolsAreChars, ReverseOne
    <2>3. k = -1
      <3>1. Precision(c) = 0
        BY <1>1, <1>7, FieldsAre
      <3> QED BY <1>3, <2>1, <3>1
    <2>4. P = <<"0">>
      BY <1>5, <2>2, <2>3
    <2> QED BY <2>4
  <1>8. ASSUME ~none, k <= 0 PROVE P = <<>> \/ Head(P) # "0"
    <2>1. P = r
      BY <1>5, <1>8
    <2>2. CASE Value(c) = 0
      <3>1. FirstDigits(c) = <<>>
        BY <1>2, <1>8, <2>2
      <3>2. Len(r) = 0
        BY <1>4, <3>1
      <3> QED BY <2>1, <3>2, EmptySeq
    <2>3. CASE Value(c) # 0
      <3>1. Len(r) > 0 /\ r[1] # "0"
        BY <1>2, <1>4, <2>3
      <3>2. Head(r) = r[1]
        BY <3>1
      <3> QED BY <2>1, <3>1, <3>2
    <2> QED BY <2>2, <2>3
  <1>9. ~alternative \/ none \/ k > 0 => StandardDigits(c) = P
    <2> HIDE DEF alternative, none
    <2> QED BY <1>5, <1>6, <1>7
  <1>10. alternative /\ ~none /\ k <= 0 => StandardDigits(c) = <<"0">> \o P
    <2> HIDE DEF alternative, none
    <2> QED BY <1>6, <1>8
  <1> QED BY <1>3, <1>4, <1>5, <1>9, <1>10 DEF P

\* Are the zeros of the flag 0 printed?
FilledUp(c) == "0" \in c.flags /\ c.precision = <<>> /\ ~("-" \in c.flags \/ c.width < 0)

LEMMA BlanksText ==
  ASSUME NEW c \in Items, c.conv \in Integers_ \ {"b"}, ~FilledUp(c), NEW K,
         "-" \in K <=> ("-" \in c.flags \/ c.width < 0),
         "0" \in K <=> ("0" \in c.flags /\ c.precision = <<>>)
  PROVE  StandardText(c) = Shown(StandardPrefix(c) \o StandardDigits(c), Width(c), K)
  <1> DEFINE body == StandardPrefix(c) \o StandardDigits(c)
             blanks == Times(" ", Width(c) - Len(body))
  <1>1. StandardText(c) = IF "-" \in c.flags \/ c.width < 0 THEN body \o blanks ELSE blanks \o body
    BY DEF StandardText, FilledUp
  <1>2. Shown(body, Width(c), K) = IF "-" \in K THEN body \o blanks
                                   ELSE IF "0" \in K THEN body ELSE blanks \o body
    BY DEF Shown
  <1> HIDE DEF body, blanks
  <1>3. ("-" \in K) = ("-" \in c.flags \/ c.width < 0) /\ ("-" \notin K => "0" \notin K)
    BY DEF FilledUp
  <1> QED BY <1>1, <1>2, <1>3 DEF body

LEMMA KeptFlags ==
  ASSUME NEW base, NEW k \in Int, NEW flags
  PROVE  LET K == Kept(base, k, flags)
         IN  \A f \in {"-", "0", "+", " "} : f \in K <=> f \in flags
  BY DEF Kept

LEMMA TextWithBlanks ==
  ASSUME NEW c \in Items, Comparable(c), ~FilledUp(c)
  PROVE  IntegerText(c) = StandardText(c)
  <1>1. c.conv \in Integers_ \ {"b"}
    BY PaddedFits
  <1>2. PICK dg \in Seq(Chars), p \in Nat, w \in Nat, neg \in BOOLEAN, base \in {8, 10, 16}, F \in {FlagsOf(c)} :
            /\ dg = FirstDigits(c) /\ p = Precision(c) /\ w = Width(c) /\ neg = (Argument(c) < 0)
            /\ base = Base(c) /\ F = FlagsOf(c)
    <2>1. FirstDigits(c) \in Seq(Chars) /\ Precision(c) \in Nat
      BY PaddedFits, DigitsAgree
    <2>2. Width(c) \in Nat /\ Base(c) \in {8, 10, 16}
      BY <1>1, FieldsAre, KindsAre
    <2>3. (Argument(c) < 0) \in BOOLEAN
      OBVIOUS
    <2> QED BY <2>1, <2>2, <2>3
  <1>3. PICK k \in Int : k = p - Len(dg)
    OBVIOUS
  <1>4. PICK K : K = Kept(base, k, F)
    OBVIOUS
  <1>5. IntegerText(c) = Finalization(dg, neg, base, p, w, F)
    BY <1>1, <1>2, IntegerTextFinal
  <1>6. /\ "-" \in K <=> ("-" \in c.flags \/ c.width < 0)
        /\ "0" \in K <=> ("0" \in c.flags /\ c.precision = <<>>)
        /\ "#" \in K <=> /\ "#" \in c.flags /\ base # 10
                         /\ ~(Value(c) = 0 /\ (c.precision = <<>> \/ base = 16))
                         /\ ~(base = 8 /\ k > 0)
        /\ "precision" \in K <=> c.precision # <<>>
        /\ "upper" \in K <=> c.conv = "X"
        /\ "pointer" \notin K
    BY <1>1, <1>2, <1>4, KeptAre
  <1>7. PICK sign : sign = Sign(neg, K)
    OBVIOUS
  <1>8. /\ base # 16 \/ "#" \notin K => StandardPrefix(c) = sign
        /\ ~Signed(c) => sign = <<>>
        /\ "#" \in K /\ base = 16 => StandardPrefix(c) = <<"0", c.conv>>
    BY <1>1, <1>2, <1>4, <1>7, SignAgrees
  <1>9. sign \in Seq(Chars)
    BY <1>7, SignIs
  <1>10. PICK r \in Seq(Chars) : r = Reverse(dg) /\ Len(r) = Len(dg)
    BY ReverseIs
  <1>11. PICK padded \in Seq(Chars) : /\ padded = StandardPadded(c) /\ padded = Times("0", k) \o r
                                      /\ Len(padded) = NumberOfZeros(k) + Len(dg)
    <2>1. StandardPadded(c) = Times("0", k) \o r
      BY <1>2, <1>3, <1>10, PaddedFits, DigitsAgree
    <2>2. Times("0", k) \o r \in Seq(Chars) /\ Len(Times("0", k) \o r) = NumberOfZeros(k) + Len(r)
      BY PaddedHead
    <2> QED BY <1>10, <2>1, <2>2
  <1>12. PICK prefix \in Seq(Chars), digits \in Seq(Chars) :
            prefix = StandardPrefix(c) /\ digits = StandardDigits(c)
    BY <1>1, StandardPrefixIs, StandardDigitsAre
  <1>13. Len(prefix) + Len(digits) <= PRINTF_INTEGER_BUFFER_SIZE
    BY <1>1, <1>12, PartsFit DEF Comparable
  <1>14. StandardText(c) = Shown(prefix \o digits, w, K)
    BY <1>1, <1>2, <1>6, <1>12, BlanksText
  <1>15. ~Zeros(F)
    <2>1. "-" \in F <=> "-" \in K
      BY <1>4, KeptFlags
    <2>2. "0" \in F <=> "0" \in K
      BY <1>4, KeptFlags
    <2> QED BY <1>6, <2>1, <2>2 DEF FilledUp, Zeros
  <1>16. Padding(dg, neg, p, w, F, k) /\ WidthLeft(neg, w, F) = w
    <2>1. p <= PRINTF_INTEGER_BUFFER_SIZE
      BY <1>2, PaddedFits, DigitsAgree
    <2>2. Lesser(p, PRINTF_INTEGER_BUFFER_SIZE) = p
      BY <2>1, PrintfAssumption DEF Lesser
    <2>3. PadTo(dg, p) = dg \o Times("0", k)
      BY <1>3, <2>2 DEF PadTo
    <2> QED BY <1>15, <2>3 DEF Padding, WidthLeft
  <1>17. /\ k <= 0 => padded = r
         /\ ~("#" \in c.flags /\ c.conv = "o") \/ (Value(c) = 0 /\ c.precision = <<>>) \/ k > 0
              => digits = padded
         /\ "#" \in c.flags /\ c.conv = "o" /\ ~(Value(c) = 0 /\ c.precision = <<>>) /\ k <= 0
              => digits = <<"0">> \o padded
    BY <1>2, <1>3, <1>10, <1>11, <1>12, OctalDigits
  <1>18. (base = 8 <=> c.conv = "o") /\ (base = 16 <=> c.conv \in {"x", "X"})
         /\ (Signed(c) => base = 10)
    BY <1>1, <1>2, KindsAre
  <1>19. NumberOfZeros(k) \in Nat /\ (k <= 0 => NumberOfZeros(k) = 0)
    BY DEF NumberOfZeros
  <1>20. CASE "#" \notin K
    <2>1. prefix = sign /\ digits = padded
      BY <1>6, <1>8, <1>12, <1>17, <1>18, <1>20
    <2>2. Len(dg) + NumberOfZeros(k) + Len(sign) <= PRINTF_INTEGER_BUFFER_SIZE
      <3>1. PICK a \in Nat, b \in Nat, z \in Nat : a = Len(dg) /\ b = Len(sign) /\ z = NumberOfZeros(k)
        BY <1>9, <1>19
      <3> QED BY <1>11, <1>13, <2>1, <3>1
    <2>3. K \cap {"#", "pointer"} = {}
      BY <1>6, <1>20
    <2>4. Finalization(dg, neg, base, p, w, F) = Shown(sign \o (Times("0", k) \o r), w, K)
      BY <1>4, <1>7, <1>10, <1>16, <2>2, <2>3, FinalPlain
    <2> QED BY <1>5, <1>11, <1>14, <2>1, <2>4
  <1>21. ASSUME "#" \in K
         PROVE  /\ base \in {8, 16} /\ ~Signed(c) /\ sign = <<>> /\ "#" \in c.flags
                /\ ~(Value(c) = 0 /\ c.precision = <<>>)
    BY <1>6, <1>8, <1>18, <1>21
  <1>22. ASSUME "#" \in K, NEW px \in Seq(Chars), px = Reverse(Prefix(base, K)),
                0 = TakenBack(Len(dg) + NumberOfZeros(k), NumberOfZeros(k), base, p, w, K),
                Len(dg) + NumberOfZeros(k) + Len(Prefix(base, K)) <= PRINTF_INTEGER_BUFFER_SIZE
         PROVE  IntegerText(c) = Shown(px \o padded, w, K)
    <2>1. PICK taken \in Nat : taken = 0
      OBVIOUS
    <2>2. k - taken = k /\ taken <= NumberOfZeros(k)
      BY <1>19, <2>1
    <2>3. Finalization(dg, neg, base, p, w, F)
            = Shown(Reverse(Prefix(base, K)) \o (Times("0", k - taken) \o Reverse(dg)), w, K)
      <3>1. base \in {8, 16} /\ Sign(neg, K) = <<>>
        BY <1>7, <1>21, <1>22
      <3>2. taken = TakenBack(Len(dg) + NumberOfZeros(k), NumberOfZeros(k), base, p, w, K)
        BY <1>22, <2>1
      <3>3. Len(dg) + NumberOfZeros(k - taken) + Len(Prefix(base, K)) <= PRINTF_INTEGER_BUFFER_SIZE
        BY <1>22, <2>2
      <3> QED BY <1>4, <1>16, <1>22, <2>2, <3>1, <3>2, <3>3, FinalPrefix
    <2> QED BY <1>5, <1>10, <1>11, <1>22, <2>2, <2>3
  <1>23. CASE "#" \in K /\ base = 8
    <2>1. k <= 0 /\ NumberOfZeros(k) = 0 /\ padded = r /\ digits = <<"0">> \o padded
      BY <1>6, <1>17, <1>18, <1>19, <1>21, <1>23
    <2>2. /\ Prefix(base, K) \in Seq(Chars) /\ Len(Prefix(base, K)) = 1
          /\ Reverse(Prefix(base, K)) = <<"0">>
      BY <1>23, PrefixIs
    <2>3. 0 = TakenBack(Len(dg) + NumberOfZeros(k), NumberOfZeros(k), base, p, w, K)
      BY <1>23, <2>1 DEF TakenBack, Lesser
    <2>4. <<"0">> \in Seq(Chars) /\ Len(<<"0">> \o padded) = 1 + Len(padded)
      <3>1. <<"0">> \in Seq(Chars) /\ Len(<<"0">>) = 1
        BY SymbolsAreChars, OneChar
      <3> QED BY <3>1, ConcatProperties
    <2>5. Len(dg) + NumberOfZeros(k) + Len(Prefix(base, K)) <= PRINTF_INTEGER_BUFFER_SIZE
      <3>1. Len(digits) = 1 + Len(dg)
        BY <1>10, <2>1, <2>4
      <3>2. PICK a \in Nat, b \in Nat : a = Len(dg) /\ b = Len(prefix)
        OBVIOUS
      <3>3. b + (1 + a) <= PRINTF_INTEGER_BUFFER_SIZE
        BY <1>13, <3>1, <3>2, Zenon
      <3>4. PRINTF_INTEGER_BUFFER_SIZE \in Nat
        BY PrintfAssumption
      <3>5. a + 0 + 1 <= PRINTF_INTEGER_BUFFER_SIZE
        BY <3>3, <3>4
      <3> QED BY <2>1, <2>2, <3>2, <3>5, Zenon
    <2>6. IntegerText(c) = Shown(<<"0">> \o padded, w, K)
      BY <1>22, <1>23, <2>2, <2>3, <2>4, <2>5
    <2>7. prefix = <<>> /\ prefix \o digits = digits
      <3>1. prefix = <<>>
        BY <1>8, <1>12, <1>21, <1>23
      <3> QED BY <3>1, NothingAdded
    <2> QED BY <1>14, <2>1, <2>6, <2>7
  <1>24. CASE "#" \in K /\ base = 16
    <2>1. digits = padded /\ prefix = <<"0", c.conv>>
      BY <1>8, <1>12, <1>17, <1>18, <1>24
    <2>2. /\ Prefix(base, K) \in Seq(Chars) /\ Len(Prefix(base, K)) = 2
          /\ Reverse(Prefix(base, K)) = <<"0", IF "upper" \in K THEN "X" ELSE "x">>
      BY <1>24, PrefixIs
    <2>3. (IF "upper" \in K THEN "X" ELSE "x") = c.conv
      BY <1>6, <1>18, <1>24
    <2>4. Reverse(Prefix(base, K)) = prefix
      BY <2>1, <2>2, <2>3
    <2>5. 0 = TakenBack(Len(dg) + NumberOfZeros(k), NumberOfZeros(k), base, p, w, K)
      <3>1. CASE "precision" \in K
        BY <3>1 DEF TakenBack
      <3>2. CASE "precision" \notin K
        <4>1. p = 0
          BY <1>1, <1>2, <1>6, <3>2, FieldsAre
        <4>2. k <= 0
          BY <1>3, <4>1
        <4> QED BY <1>19, <1>24, <4>2 DEF TakenBack, Lesser
      <3> QED BY <3>1, <3>2
    <2>6. Len(prefix) = 2
      BY <2>1, <1>12, <2>2, <2>4, ReverseIs
    <2>7. Len(dg) + NumberOfZeros(k) + Len(Prefix(base, K)) <= PRINTF_INTEGER_BUFFER_SIZE
      <3>1. PICK a \in Nat, z \in Nat : a = Len(dg) /\ z = NumberOfZeros(k)
        BY <1>19
      <3> QED BY <1>11, <1>13, <2>1, <2>2, <2>6, <3>1
    <2>8. IntegerText(c) = Shown(prefix \o padded, w, K)
      BY <1>22, <1>24, <2>4, <2>5, <2>7
    <2> QED BY <1>14, <2>1, <2>8
  <1> QED BY <1>20, <1>21, <1>23, <1>24

LEMMA ZerosSame ==
  ASSUME NEW j \in Int, NEW k \in Int, j = k \/ (j <= 0 /\ k <= 0)
  PROVE  Times("0", j) = Times("0", k)
  <1>1. "0" \in Chars
    BY SymbolsAreChars
  <1>2. /\ j <= 0 => Times("0", j) = <<>>
        /\ k <= 0 => Times("0", k) = <<>>
    BY <1>1, TimesIs
  <1> QED BY <1>2

LEMMA ZeroBefore ==
  ASSUME NEW k \in Int, k > 0, NEW s \in Seq(Chars)
  PROVE  Times("0", k) \o s = Times("0", k - 1) \o (<<"0">> \o s)
  <1>1. "0" \in Chars
    BY SymbolsAreChars
  <1>2. PICK m \in Nat, n \in Nat, i \in Int : m = k - 1 /\ n = 1 /\ m + n = k /\ i = m
    OBVIOUS
  <1>3. PICK z \in Seq(Chars) : z = Times("0", m)
    BY <1>1, TimesIs
  <1>4. PICK o \in Seq(Chars) : o = <<"0">>
    BY <1>1, OneChar
  <1>5. Times("0", n) = o
    <2>1. PICK t \in Seq(Chars) : t = Times("0", n) /\ Len(t) = 1 /\ t[1] = "0"
      <3>0. PICK i1 \in Int : i1 = n
        OBVIOUS
      <3>1. /\ Times("0", n) \in Seq(Chars) /\ Len(Times("0", n)) = IF n > 0 THEN n ELSE 0
            /\ \A j \in 1..n : Times("0", n)[j] = "0"
        <4>1. /\ Times("0", i1) \in Seq(Chars) /\ Len(Times("0", i1)) = IF i1 > 0 THEN i1 ELSE 0
              /\ \A j \in 1..i1 : Times("0", i1)[j] = "0"
          BY <1>1, TimesIs
        <4> QED BY <3>0, <4>1
      <3>2. PICK t \in Seq(Chars) : t = Times("0", n)
        BY <3>1
      <3>3. n \in Int /\ n > 0 /\ 1 \in 1..n
        BY <1>2
      <3>4. Len(t) = n /\ t[1] = "0"
        BY <3>1, <3>2, <3>3
      <3> QED BY <1>2, <3>2, <3>4
    <2>2. t = <<"0">>
      BY <2>1
    <2> QED BY <1>4, <2>1, <2>2
  <1>6. Times("0", m) \o Times("0", n) = Times("0", k)
    <2>1. Times("0", m) \o Times("0", n) = Times("0", m + n)
      BY <1>1, TimesJoin
    <2> QED BY <1>2, <2>1
  <1>7. z \o (o \o s) = (z \o o) \o s
    BY Associative
  <1>8. Times("0", k) = z \o o
    BY <1>3, <1>5, <1>6, Zenon
  <1>9. Times("0", k - 1) = z
    BY <1>2, <1>3
  <1> QED BY <1>4, <1>7, <1>8, <1>9, Zenon

LEMMA FilledText ==
  ASSUME NEW c \in Items, c.conv \in Integers_ \ {"b"}, FilledUp(c)
  PROVE  LET room == Width(c) - (Len(StandardPrefix(c)) + Len(StandardDigits(c)))
         IN  StandardText(c) = StandardPrefix(c) \o (Times("0", room) \o StandardDigits(c))
  <1>1. PICK p \in Seq(Chars), s \in Seq(Chars) : p = StandardPrefix(c) /\ s = StandardDigits(c)
    BY StandardPrefixIs, StandardDigitsAre
  <1>2. PICK b : b = p \o s
    OBVIOUS
  <1>3. Len(b) = Len(p) + Len(s)
    BY <1>2, ConcatProperties
  <1>4. PICK room \in Int : room = Width(c) - Len(b)
    <2>1. PICK w \in Nat : w = Width(c)
      BY FieldsAre
    <2>2. Len(b) \in Nat
      <3>1. PICK m \in Nat, n \in Nat : m = Len(p) /\ n = Len(s)
        OBVIOUS
      <3> QED BY <1>3, <3>1
    <2> QED BY <2>1, <2>2
  <1>5. StandardText(c) = p \o Times("0", room) \o s
    BY <1>1, <1>2, <1>4 DEF StandardText, FilledUp
  <1>6. PICK z \in Seq(Chars) : z = Times("0", room)
    <2>1. "0" \in Chars
      BY SymbolsAreChars
    <2> QED BY <2>1, TimesIs
  <1>7. p \o z \o s = p \o (z \o s)
    BY Associative
  <1> QED BY <1>1, <1>3, <1>4, <1>5, <1>6, <1>7

LEMMA FilledWidth ==
  ASSUME NEW dg \in Seq(Chars), NEW neg \in BOOLEAN, NEW base, NEW w \in Nat, NEW F, NEW k \in Int,
         w <= PRINTF_INTEGER_BUFFER_SIZE, Zeros(F), k = WidthLeft(neg, w, F) - Len(dg)
  PROVE  LET left == WidthLeft(neg, w, F)
             sign == Sign(neg, Kept(base, k, F))
         IN  /\ left \in Nat /\ left <= w /\ Padding(dg, neg, 0, w, F, k)
             /\ w > 0 => left = w - Len(sign)
             /\ sign = <<>> => left = w
  <1>0. PICK short \in BOOLEAN : short = (neg \/ F \cap {"+", " "} # {})
    OBVIOUS
  <1>1. PICK left \in Nat : /\ left = WidthLeft(neg, w, F) /\ left <= w
                            /\ left = IF w > 0 /\ short THEN w - 1 ELSE w
    <2>1. WidthLeft(neg, w, F) = IF w > 0 /\ short THEN w - 1 ELSE w
      BY <1>0 DEF WidthLeft
    <2>2. PICK left : left = WidthLeft(neg, w, F)
      OBVIOUS
    <2>3. left \in Nat /\ left <= w
      BY <2>1, <2>2
    <2> QED BY <2>1, <2>2, <2>3
  <1>2. PICK sign \in Seq(Chars) : sign = Sign(neg, Kept(base, k, F))
    BY SignIs
  <1>3. short <=> (neg \/ "+" \in Kept(base, k, F) \/ " " \in Kept(base, k, F))
    <2>1. ("+" \in Kept(base, k, F) <=> "+" \in F) /\ (" " \in Kept(base, k, F) <=> " " \in F)
      BY KeptFlags
    <2> QED BY <1>0, <2>1
  <1>4. Len(sign) = IF short THEN 1 ELSE 0
    <2>1. "-" \in Chars /\ "+" \in Chars /\ " " \in Chars
      BY SymbolsAreChars
    <2>2. Len(<<"-">>) = 1 /\ Len(<<"+">>) = 1 /\ Len(<<" ">>) = 1 /\ Len(<<>>) = 0
      BY <2>1, OneChar, Nothing
    <2>3. CASE short
      <3>1. sign = <<"-">> \/ sign = <<"+">> \/ sign = <<" ">>
        BY <1>2, <1>3, <2>3 DEF Sign
      <3> QED BY <2>2, <2>3, <3>1
    <2>4. CASE ~short
      <3>1. sign = <<>>
        BY <1>2, <1>3, <2>4 DEF Sign
      <3> QED BY <2>2, <2>4, <3>1
    <2> QED BY <2>3, <2>4
  <1>6. w > 0 => left = w - Len(sign)
    <2>1. CASE short
      BY <1>1, <1>4, <2>1
    <2>2. CASE ~short
      BY <1>1, <1>4, <2>2
    <2> QED BY <2>1, <2>2
  <1>7. sign = <<>> => left = w
    <2>1. sign = <<>> => Len(sign) = 0
      BY Nothing
    <2>2. sign = <<>> => ~short
      <3>1. CASE short
        BY <1>4, <2>1, <3>1
      <3> QED BY <3>1
    <2> QED BY <1>1, <2>2
  <1>8. Padding(dg, neg, 0, w, F, k)
    <2>1. Lesser(left, PRINTF_INTEGER_BUFFER_SIZE) = left /\ Lesser(0, PRINTF_INTEGER_BUFFER_SIZE) = 0
      BY <1>1, PrintfAssumption DEF Lesser
    <2>2. PadTo(dg, left) = dg \o Times("0", k)
      BY <1>1, <2>1 DEF PadTo
    <2>3. PICK t \in Seq(Chars) : t = dg \o Times("0", k)
      BY PaddedHead, ZerosAdded
    <2>4. PadTo(t, 0) = t \o Times("0", 0 - Len(t))
      BY <2>1 DEF PadTo
    <2>5. Times("0", 0 - Len(t)) = <<>>
      <3>1. PICK i \in Int : i = 0 - Len(t) /\ i <= 0
        OBVIOUS
      <3>2. "0" \in Chars
        BY SymbolsAreChars
      <3> QED BY <3>1, <3>2, TimesIs
    <2>6. PadTo(t, 0) = t
      BY <2>4, <2>5, NothingAdded
    <2> QED BY <1>1, <2>2, <2>3, <2>6 DEF Padding
  <1> QED BY <1>1, <1>2, <1>6, <1>7, <1>8

LEMMA TextFilledUp ==
  ASSUME NEW c \in Items, Comparable(c), FilledUp(c)
  PROVE  IntegerText(c) = StandardText(c)
  <1>1. c.conv \in Integers_ \ {"b"}
    BY PaddedFits
  <1>p. c.precision = <<>> /\ Precision(c) = 0
    BY <1>1, FieldsAre DEF FilledUp
  <1>2. PICK dg \in Seq(Chars), w \in Nat, neg \in BOOLEAN, base \in {8, 10, 16}, F \in {FlagsOf(c)} :
            /\ dg = FirstDigits(c) /\ w = Width(c) /\ neg = (Argument(c) < 0)
            /\ base = Base(c) /\ F = FlagsOf(c)
    <2>1. FirstDigits(c) \in Seq(Chars)
      BY PaddedFits, DigitsAgree
    <2>2. Width(c) \in Nat /\ Base(c) \in {8, 10, 16}
      BY <1>1, FieldsAre, KindsAre
    <2>3. (Argument(c) < 0) \in BOOLEAN
      OBVIOUS
    <2> QED BY <2>1, <2>2, <2>3
  <1>3. PICK d \in Nat, size \in Nat : d = Len(dg) /\ size = PRINTF_INTEGER_BUFFER_SIZE
    BY PrintfAssumption
  <1>4. d > 0
    <2>1. CASE Value(c) = 0
      <3>1. dg = <<"0">>
        BY <1>2, <1>p, <2>1, PaddedFits, DigitsAgree
      <3>2. Len(<<"0">>) = 1
        BY SymbolsAreChars, OneChar
      <3> QED BY <1>3, <3>1, <3>2
    <2>2. CASE Value(c) # 0
      BY <1>2, <1>3, <2>2, PaddedFits, DigitsAgree
    <2> QED BY <2>1, <2>2
  <1>5. PICK left \in Int : left = WidthLeft(neg, w, F)
    <2>1. WidthLeft(neg, w, F) = w \/ WidthLeft(neg, w, F) = w - 1
      BY DEF WidthLeft
    <2>2. w \in Int /\ w - 1 \in Int
      OBVIOUS
    <2> QED BY <2>1, <2>2, Zenon
  <1>6. PICK k \in Int : k = left - d
    OBVIOUS
  <1>7. PICK K : K = Kept(base, k, F)
    OBVIOUS
  <1>8. IntegerText(c) = Finalization(dg, neg, base, 0, w, F)
    BY <1>1, <1>2, <1>p, IntegerTextFinal
  <1>9. /\ "-" \notin K /\ "0" \in K
        /\ "#" \in K <=> /\ "#" \in c.flags /\ base # 10
                         /\ ~(Value(c) = 0 /\ (c.precision = <<>> \/ base = 16))
                         /\ ~(base = 8 /\ k > 0)
        /\ "precision" \notin K
        /\ "upper" \in K <=> c.conv = "X"
        /\ "pointer" \notin K
    <2>1. /\ "-" \in K <=> ("-" \in c.flags \/ c.width < 0)
          /\ "0" \in K <=> ("0" \in c.flags /\ c.precision = <<>>)
          /\ "#" \in K <=> /\ "#" \in c.flags /\ base # 10
                           /\ ~(Value(c) = 0 /\ (c.precision = <<>> \/ base = 16))
                           /\ ~(base = 8 /\ k > 0)
          /\ "precision" \in K <=> c.precision # <<>>
          /\ "upper" \in K <=> c.conv = "X"
          /\ "pointer" \notin K
      BY <1>1, <1>2, <1>7, KeptAre
    <2> QED BY <1>p, <2>1 DEF FilledUp
  <1>10. PICK sign \in Seq(Chars) : sign = Sign(neg, K)
    BY SignIs
  <1>11. /\ base # 16 \/ "#" \notin K => StandardPrefix(c) = sign
         /\ ~Signed(c) => sign = <<>>
         /\ "#" \in K /\ base = 16 => StandardPrefix(c) = <<"0", c.conv>>
    BY <1>1, <1>2, <1>7, <1>10, SignAgrees
  <1>12. w <= size
    BY <1>1, <1>2, <1>3, PartsFit DEF Comparable, FilledUp
  <1>13. Zeros(F)
    <2>1. ("-" \in F <=> "-" \in K) /\ ("0" \in F <=> "0" \in K)
      BY <1>7, KeptFlags
    <2> QED BY <1>9, <2>1 DEF Zeros
  <1>14. PICK g \in Nat : g = Len(sign)
    OBVIOUS
  <1>15. /\ left \in Nat /\ left <= w /\ Padding(dg, neg, 0, w, F, k)
         /\ w > 0 => left = w - g
         /\ sign = <<>> => left = w
    <2>1. k = WidthLeft(neg, w, F) - Len(dg) /\ w <= PRINTF_INTEGER_BUFFER_SIZE
      BY <1>3, <1>5, <1>6, <1>12
    <2>2. LET l == WidthLeft(neg, w, F)
              s == Sign(neg, Kept(base, k, F))
          IN  /\ l \in Nat /\ l <= w /\ Padding(dg, neg, 0, w, F, k)
              /\ w > 0 => l = w - Len(s)
              /\ s = <<>> => l = w
      BY <1>13, <2>1, FilledWidth, SMTT(30)
    <2> QED BY <1>5, <1>7, <1>10, <1>14, <2>2
  <1>16. PICK r \in Seq(Chars) : r = Reverse(dg) /\ Len(r) = d
    BY <1>3, ReverseIs
  <1>17. PICK prefix \in Seq(Chars), digits \in Seq(Chars) :
            prefix = StandardPrefix(c) /\ digits = StandardDigits(c)
    BY <1>1, StandardPrefixIs, StandardDigitsAre
  <1>18. PICK m \in Nat, n \in Nat : m = Len(prefix) /\ n = Len(digits)
    OBVIOUS
  <1>19. m + n <= size
    BY <1>1, <1>3, <1>17, <1>18, PartsFit DEF Comparable
  <1>20. PICK room \in Int : room = w - (m + n)
    OBVIOUS
  <1>21. StandardText(c) = prefix \o (Times("0", room) \o digits)
    BY <1>1, <1>2, <1>17, <1>18, <1>20, FilledText
  <1>22. /\ ~("#" \in c.flags /\ c.conv = "o") \/ Value(c) = 0 => digits = r
         /\ "#" \in c.flags /\ c.conv = "o" /\ Value(c) # 0 => digits = <<"0">> \o r
    <2>1. Precision(c) - Len(FirstDigits(c)) <= 0
      BY <1>2, <1>3, <1>p
    <2>2. StandardPadded(c) = r
      BY <1>2, <1>16, <2>1, OctalDigits
    <2>3. ~("#" \in c.flags /\ c.conv = "o") \/ Value(c) = 0 => digits = StandardPadded(c)
      BY <1>p, <1>17, OctalDigits
    <2>4. "#" \in c.flags /\ c.conv = "o" /\ Value(c) # 0 => digits = <<"0">> \o StandardPadded(c)
      BY <1>17, <2>1, OctalDigits
    <2> QED BY <2>2, <2>3, <2>4
  <1>23. (base = 8 <=> c.conv = "o") /\ (base = 16 <=> c.conv \in {"x", "X"})
         /\ (Signed(c) => base = 10)
    BY <1>1, <1>2, KindsAre
  <1>24. ASSUME NEW text PROVE Shown(text, left, K) = text
    BY <1>9 DEF Shown
  <1>25. NumberOfZeros(k) \in Nat /\ (k <= 0 => NumberOfZeros(k) = 0) /\ (k > 0 => NumberOfZeros(k) = k)
    BY DEF NumberOfZeros
  <1>26. Len(<<"0">> \o r) = 1 + d /\ <<"0">> \in Seq(Chars)
    <2>1. <<"0">> \in Seq(Chars) /\ Len(<<"0">>) = 1
      BY SymbolsAreChars, OneChar
    <2>2. Len(<<"0">> \o r) = Len(<<"0">>) + Len(r)
      BY <2>1, ConcatProperties
    <2> QED BY <1>16, <2>1, <2>2
  <1>27. CASE "#" \notin K
    <2>1. prefix = sign /\ m = g
      BY <1>11, <1>14, <1>17, <1>18, <1>27
    <2>2. d <= n
      <3>1. n = d \/ n = 1 + d
        BY <1>16, <1>18, <1>22, <1>26
      <3> QED BY <3>1
    <2>3. Len(dg) + NumberOfZeros(k) + Len(sign) <= PRINTF_INTEGER_BUFFER_SIZE
      <3>1. d + NumberOfZeros(k) + g <= size
        <4>1. CASE k > 0
          <5>1. w > 0
            BY <1>6, <1>15, <4>1
          <5> QED BY <1>6, <1>12, <1>15, <1>25, <4>1, <5>1
        <4>2. CASE k <= 0
          BY <1>19, <1>25, <2>1, <2>2, <4>2
        <4> QED BY <4>1, <4>2
      <3> QED BY <1>3, <1>14, <3>1
    <2>4. K \cap {"#", "pointer"} = {}
      BY <1>9, <1>27
    <2>5. Finalization(dg, neg, base, 0, w, F) = Shown(sign \o (Times("0", k) \o r), left, K)
      BY <1>5, <1>7, <1>10, <1>15, <1>16, <2>3, <2>4, FinalPlain
    <2>6. IntegerText(c) = sign \o (Times("0", k) \o r)
      BY <1>8, <1>24, <2>5
    <2>7. CASE digits = r
      <3>1. n = d
        BY <1>16, <1>18, <2>7
      <3>2. room = k \/ (room <= 0 /\ k <= 0)
        BY <1>6, <1>15, <1>20, <2>1, <3>1
      <3>3. Times("0", room) = Times("0", k)
        BY <3>2, ZerosSame
      <3> QED BY <1>21, <2>1, <2>6, <2>7, <3>3
    <2>8. CASE digits # r
      <3>1. "#" \in c.flags /\ c.conv = "o" /\ Value(c) # 0 /\ digits = <<"0">> \o r
        BY <1>22, <2>8
      <3>2. base = 8 /\ k > 0 /\ ~Signed(c)
        BY <1>9, <1>23, <1>27, <3>1
      <3>3. sign = <<>> /\ g = 0 /\ left = w
        BY <1>11, <1>14, <1>15, <3>2, Nothing
      <3>4. n = 1 + d
        BY <1>18, <1>26, <3>1
      <3>5. room = k - 1
        BY <1>6, <1>20, <2>1, <3>3, <3>4
      <3>6. Times("0", k) \o r = Times("0", k - 1) \o (<<"0">> \o r)
        BY <3>2, ZeroBefore
      <3> QED BY <1>21, <2>1, <2>6, <3>1, <3>5, <3>6
    <2> QED BY <2>7, <2>8
  <1>28. ASSUME "#" \in K
         PROVE  /\ base \in {8, 16} /\ sign = <<>> /\ left = w /\ "#" \in c.flags /\ Value(c) # 0
    BY <1>9, <1>11, <1>15, <1>23, <1>28, <1>p
  <1>29. ASSUME "#" \in K, NEW taken \in Nat, taken <= NumberOfZeros(k),
                taken = TakenBack(d + NumberOfZeros(k), NumberOfZeros(k), base, 0, w, K),
                d + NumberOfZeros(k - taken) + Len(Prefix(base, K)) <= size
         PROVE  IntegerText(c) = Reverse(Prefix(base, K)) \o (Times("0", k - taken) \o r)
    <2>1. Finalization(dg, neg, base, 0, w, F)
            = Shown(Reverse(Prefix(base, K)) \o (Times("0", k - taken) \o Reverse(dg)), left, K)
      <3>1. base \in {8, 16} /\ Sign(neg, K) = <<>>
        BY <1>10, <1>28, <1>29
      <3>2. taken = TakenBack(Len(dg) + NumberOfZeros(k), NumberOfZeros(k), base, 0, WidthLeft(neg, w, F), K)
        BY <1>3, <1>5, <1>28, <1>29
      <3>3. Len(dg) + NumberOfZeros(k - taken) + Len(Prefix(base, K)) <= PRINTF_INTEGER_BUFFER_SIZE
        BY <1>3, <1>29
      <3>4. PICK L, M : L = WidthLeft(neg, w, F) /\ M = Kept(base, k, F) /\ L = left /\ M = K
        BY <1>5, <1>7
      <3>5. /\ Padding(dg, neg, 0, w, F, k) /\ "#" \in Kept(base, k, F)
            /\ Sign(neg, Kept(base, k, F)) = <<>> /\ taken <= NumberOfZeros(k)
            /\ taken = TakenBack(Len(dg) + NumberOfZeros(k), NumberOfZeros(k), base, 0,
                                 WidthLeft(neg, w, F), Kept(base, k, F))
            /\ Len(dg) + NumberOfZeros(k - taken) + Len(Prefix(base, Kept(base, k, F)))
                   <= PRINTF_INTEGER_BUFFER_SIZE
        BY <1>7, <1>15, <1>29, <3>1, <3>2, <3>3, Zenon
      <3>6. Finalization(dg, neg, base, 0, w, F)
              = Shown(Reverse(Prefix(base, Kept(base, k, F)))
                        \o (Times("0", k - taken) \o Reverse(dg)),
                      WidthLeft(neg, w, F), Kept(base, k, F))
        BY <3>1, <3>5, FinalPrefix, SMTT(30)
      <3> QED BY <3>4, <3>6, Zenon
    <2> QED BY <1>8, <1>16, <1>24, <2>1
  <1>30. CASE "#" \in K /\ base = 8
    <2>1. k <= 0 /\ NumberOfZeros(k) = 0 /\ digits = <<"0">> \o r
      BY <1>9, <1>22, <1>23, <1>25, <1>28, <1>30
    <2>2. Len(Prefix(base, K)) = 1 /\ Reverse(Prefix(base, K)) = <<"0">>
      BY <1>30, PrefixIs
    <2>3. PICK taken \in Nat : taken = 0 /\ taken <= NumberOfZeros(k) /\ k - taken = k
      BY <2>1
    <2>4. taken = TakenBack(d + NumberOfZeros(k), NumberOfZeros(k), base, 0, w, K)
      BY <1>30, <2>1, <2>3 DEF TakenBack, Lesser
    <2>5. n = 1 + d
      BY <1>18, <1>26, <2>1
    <2>6. d + NumberOfZeros(k - taken) + Len(Prefix(base, K)) <= size
      BY <1>19, <2>1, <2>2, <2>3, <2>5
    <2>7. IntegerText(c) = <<"0">> \o (Times("0", k) \o r)
      BY <1>29, <1>30, <2>2, <2>3, <2>4, <2>6
    <2>8. Times("0", k) \o r = r
      BY <2>1, PaddedHead
    <2>9. prefix = <<>> /\ m = 0
      BY <1>11, <1>17, <1>18, <1>28, <1>30, Nothing
    <2>10. Times("0", room) \o digits = digits
      <3>1. room <= 0
        BY <1>6, <1>20, <1>28, <1>30, <2>1, <2>5, <2>9
      <3> QED BY <3>1, PaddedHead
    <2>11. prefix \o digits = digits
      BY <2>9, NothingAdded
    <2> QED BY <1>21, <2>1, <2>7, <2>8, <2>10, <2>11
  <1>31. CASE "#" \in K /\ base = 16
    <2>1. digits = r /\ n = d /\ prefix = <<"0", c.conv>>
      BY <1>11, <1>16, <1>17, <1>18, <1>22, <1>23, <1>31
    <2>2. /\ Prefix(base, K) \in Seq(Chars) /\ Len(Prefix(base, K)) = 2
          /\ Reverse(Prefix(base, K)) = <<"0", IF "upper" \in K THEN "X" ELSE "x">>
      BY <1>31, PrefixIs
    <2>3. (IF "upper" \in K THEN "X" ELSE "x") = c.conv
      BY <1>9, <1>23, <1>31
    <2>4. Reverse(Prefix(base, K)) = prefix
      BY <2>1, <2>2, <2>3
    <2>5. m = 2
      BY <1>18, <2>2, <2>4, ReverseIs
    <2>6. PICK taken \in Nat : taken = (IF NumberOfZeros(k) < 2 THEN NumberOfZeros(k) ELSE 2) /\ taken <= NumberOfZeros(k)
      BY <1>25
    <2>7. k = w - d
      BY <1>6, <1>28, <1>31
    <2>8. taken = TakenBack(d + NumberOfZeros(k), NumberOfZeros(k), base, 0, w, K)
      <3>1. Lesser(NumberOfZeros(k), IF base \in {16, 2} THEN 2 ELSE 1) = taken
        BY <1>25, <1>31, <2>6 DEF Lesser
      <3>2. CASE k >= 0
        <4>1. d + NumberOfZeros(k) = w
          BY <1>25, <2>7, <3>2
        <4> QED BY <1>9, <3>1, <4>1 DEF TakenBack
      <3>3. CASE k < 0
        <4>1. d + NumberOfZeros(k) = d /\ d # 0 /\ d # w /\ taken = 0
          BY <1>4, <1>25, <2>6, <2>7, <3>3
        <4> QED BY <4>1 DEF TakenBack
      <3> QED BY <3>2, <3>3
    <2>9. PICK j \in Int : j = k - taken /\ (j = room \/ (j <= 0 /\ room <= 0))
      <3>1. room = k - 2
        BY <1>20, <2>1, <2>5, <2>7
      <3>2. CASE k >= 2
        <4>1. taken = 2
          BY <1>25, <2>6, <3>2
        <4> QED BY <3>1, <4>1
      <3>3. CASE k < 2
        <4>1. k - taken <= 0 /\ room <= 0
          BY <1>25, <2>6, <3>1, <3>3
        <4> QED BY <4>1
      <3> QED BY <3>2, <3>3
    <2>10. NumberOfZeros(j) \in Nat /\ d + NumberOfZeros(j) + 2 <= size
      <3>1. CASE k >= 2
        BY <1>12, <1>25, <2>6, <2>7, <2>9, <3>1 DEF NumberOfZeros
      <3>2. CASE k < 2
        <4>1. j <= 0
          BY <1>25, <2>6, <2>9, <3>2
        <4>2. NumberOfZeros(j) = 0
          BY <4>1 DEF NumberOfZeros
        <4> QED BY <1>19, <2>1, <2>5, <4>2
      <3> QED BY <3>1, <3>2
    <2>11. IntegerText(c) = prefix \o (Times("0", j) \o r)
      BY <1>29, <1>31, <2>2, <2>4, <2>6, <2>8, <2>9, <2>10
    <2>12. Times("0", j) = Times("0", room)
      BY <2>9, ZerosSame
    <2> QED BY <1>21, <2>1, <2>11, <2>12
  <1> QED BY <1>27, <1>28, <1>30, <1>31

LEMMA PrintedInit == Init => PrintedOK /\ BufferHolds
  <1> SUFFICES ASSUME Init PROVE PrintedOK /\ BufferHolds
    OBVIOUS
  <1>1. todo \in Seq(Seq(Items)) /\ clock \in Nat
    BY LogTextAssumption DEF Init
  <1>2. printed = <<>> /\ buffer = <<>>
    BY DEF Init
  <1>3. printed \in Seq([timestamp : Nat, format : Seq(Items)])
    BY <1>2, EmptySeq
  <1> QED BY <1>1, <1>2, <1>3 DEF PrintedOK, BufferHolds

LEMMA PrintedAlways == Spec => []PrintedOK
  <1>1. Init => PrintedOK
    BY PrintedInit
  <1>2. RegionsInv /\ PrintedOK /\ [Next]_vars => PrintedOK'
    BY PrintedKept DEF RegionsInv, RegionsOK
  <1> QED BY <1>1, <1>2, RegionsAlways, PTL DEF Spec

LEMMA PrintedIsStandard == PrintedOK => PrintsAsTheStandard
  <1> SUFFICES ASSUME PrintedOK, printed # <<>> PROVE PrintsTheStandard(Last(printed).format)
    BY DEF PrintsAsTheStandard
  <1>1. PICK format \in Seq(Items) : format = Last(printed).format
    <2> DEFINE Lines == [timestamp : Nat, format : Seq(Items)]
    <2>1. printed \in Seq(Lines) /\ Last(printed) = printed[Len(printed)]
      BY DEF PrintedOK, Last
    <2> HIDE DEF Lines
    <2>2. Last(printed) \in Lines
      BY <2>1
    <2> QED BY <2>2 DEF Lines
  <1>2. ASSUME NEW c \in Items, Comparable(c) PROVE Text(c) = StandardText(c)
    <2>1. Text(c) = IntegerText(c)
      <3>1. c.conv \in Integers_
        BY <1>2 DEF Comparable
      <3> QED BY <3>1 DEF Text, Integers_
    <2>2. IntegerText(c) = StandardText(c)
      BY <1>2, TextWithBlanks, TextFilledUp
    <2> QED BY <2>1, <2>2
  <1>3. \A i \in DOMAIN format : format[i] \in Items
    OBVIOUS
  <1>4. PrintsTheStandard(format)
    BY <1>2, <1>3 DEF PrintsTheStandard
  <1> QED BY <1>1, <1>4

(***************************************************************************)
(* The two calls of vsnprintf_() in jm_tracker_fprintf() never write       *)
(* outside its buffer, however long the line is, if the buffer has room    *)
(* for a timestamp and its blank (tracker.c:104-122).                      *)
(***************************************************************************)
THEOREM BufferNeverLeft ==
  ASSUME PRINTF_INTEGER_BUFFER_SIZE + 2 <= MAX_BUFFER_SIZE
  PROVE  Spec => []BufferHolds
  <1>1. Init => BufferHolds
    BY PrintedInit
  <1>2. PrintedOK /\ BufferHolds /\ [Next]_vars => BufferHolds'
    BY BufferKept
  <1> QED BY <1>1, <1>2, PrintedAlways, PTL DEF Spec

(***************************************************************************)
(* printf.c prints every integer conversion as the C standard says, for    *)
(* every argument, all flags, widths and precisions, as long as the result *)
(* without its blanks fits the buffer of print_integer() (printf.c:605).   *)
(***************************************************************************)
THEOREM IntegersAsTheStandard == Spec => []PrintsAsTheStandard
  <1> QED BY PrintedIsStandard, PrintedAlways, PTL
===============================================================================
