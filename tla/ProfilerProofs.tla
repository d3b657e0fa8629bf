---------------------------- MODULE ProfilerProofs ----------------------------
(***************************************************************************)
(* What Profiler says of every log and every table, proved.  The invariant *)
(* Inv relates what jmprof-ip keeps to the records it has read: each entry *)
(* has the position of its 'a' record (Positions), the leaking entry of a  *)
(* block not freed is its latest (LeakInv, ExactInv), and its trace is the *)
(* frames read for that record (Traces).  LogInv is what the library may   *)
(* write, from the steps of HeapTrace; TableOK is the hash table.          *)
(***************************************************************************)
EXTENDS Profiler, FunctionTheorems, SequenceTheorems, FiniteSetTheorems, TLAPS

\* Every set of naturals has a least element.
LEMMA SmallestOf ==
  ASSUME NEW T \in SUBSET Nat, T # {}
  PROVE  \E n \in T : \A m \in T : n <= m
<1>1. IsWellFoundedOn(OpToRel(<, Nat), Nat)
  BY NatLessThanWellFounded
<1>2. PICK n \in T : \A y \in T : ~(<<y, n>> \in OpToRel(<, Nat))
  BY <1>1, WFMin
<1>3. \A y \in T : ~(y < n)
  BY <1>2 DEF OpToRel
<1> QED BY <1>3

(***************************************************************************)
(* The hash table.                                                         *)
(***************************************************************************)
Entry == [key : Keys, is_leaking : BOOLEAN, traces : Seq(Modules \cup {NULL})]

IsTable(tbl) == {"num", "elems"} \subseteq DOMAIN tbl

Element == [key : Keys, id : Nat \ {0}, bkt : Int, rank : Int]

\* An element e of a table that holds the entries.
ElementOK(tbl, ents, e) ==
    /\ e.id \in DOMAIN ents /\ e.key = ents[e.id].key
    /\ e.bkt = ToBkt(e.key, tbl.num)
    /\ e.rank = e.id \/ (e.rank = -e.id /\ tbl.num > HASH_INITIAL_NUM_BUCKETS)

TableOK(tbl, ents) ==
    /\ IsTable(tbl)
    /\ tbl.num \in Nat /\ tbl.num >= HASH_INITIAL_NUM_BUCKETS
    /\ tbl.elems \subseteq Element
    /\ \A e \in tbl.elems : ElementOK(tbl, ents, e)
    /\ \A i \in DOMAIN ents : \E e \in tbl.elems : e.id = i
    /\ \A e, o \in tbl.elems : e.id = o.id => e = o

LEMMA NewTableOK == TableOK(NewTable, <<>>)
  BY UthashAssumption, EmptySeq DEF TableOK, NewTable, IsTable

\* HASH_FIND finds an entry of the key if there is one, and before an expansion
\* the latest.
LEMMA FindEntryOfKey ==
  ASSUME NEW ents \in Seq(Entry), NEW tbl, TableOK(tbl, ents), NEW key \in Keys,
         NEW i \in DOMAIN ents, ents[i].key = key
  PROVE  LET e == HashFind(tbl, key)
         IN  /\ e \in DOMAIN ents /\ ents[e].key = key
             /\ tbl.num = HASH_INITIAL_NUM_BUCKETS => i <= e
<1> DEFINE n == Len(ents)
           found == {e \in Chain(tbl.elems, ToBkt(key, tbl.num)) : e.key = key}
           first == CHOOSE e \in found : \A o \in found : o.rank <= e.rank
<1>1. n \in Nat /\ DOMAIN ents = 1..n
  BY LenProperties
<1>2. \A e \in found : e \in tbl.elems /\ e \in Element /\ ElementOK(tbl, ents, e) /\ e.key = key
  BY DEF Chain, TableOK
<1>3. PICK x \in tbl.elems : x.id = i
  BY DEF TableOK
<1>4. x \in found
  BY <1>3 DEF TableOK, ElementOK, Chain
<1>5. \A e \in found : e.rank \in Int /\ n - e.rank \in Nat
  BY <1>1, <1>2 DEF Element, ElementOK
<1>6. first \in found /\ \A o \in found : o.rank <= first.rank
  <2> DEFINE T == {n - e.rank : e \in found}
  <2>1. T \in SUBSET Nat /\ T # {}
    BY <1>4, <1>5
  <2>2. PICK m \in T : \A k \in T : m <= k
    BY <2>1, SmallestOf
  <2>3. PICK e \in found : m = n - e.rank
    BY <2>2
  <2>4. \A o \in found : n - e.rank <= n - o.rank
    BY <2>2, <2>3
  <2>5. \A o \in found : o.rank <= e.rank
    BY <1>1, <1>5, <2>4
  <2> QED BY <2>5
<1>7. HashFind(tbl, key) = first.id
  BY <1>4 DEF HashFind
<1> HIDE DEF first, found
<1>8. first.id \in DOMAIN ents /\ ents[first.id].key = key
  BY <1>2, <1>6 DEF ElementOK
<1>9. tbl.num = HASH_INITIAL_NUM_BUCKETS => i <= first.id
  BY <1>2, <1>3, <1>4, <1>6, UthashAssumption DEF ElementOK
<1> QED BY <1>7, <1>8, <1>9

LEMMA FindNothing ==
  ASSUME NEW ents \in Seq(Entry), NEW tbl, TableOK(tbl, ents), NEW key \in Keys,
         \A i \in DOMAIN ents : ents[i].key # key
  PROVE  HashFind(tbl, key) = 0
<1>1. \A e \in tbl.elems : e.key # key
  BY DEF TableOK, ElementOK
<1>2. {e \in Chain(tbl.elems, ToBkt(key, tbl.num)) : e.key = key} = {}
  BY <1>1 DEF Chain
<1> QED BY <1>2 DEF HashFind

LEMMA ExpandTableOK ==
  ASSUME NEW ents \in Seq(Entry), NEW tbl, TableOK(tbl, ents)
  PROVE  TableOK(HashExpandBuckets(tbl), ents)
<1> DEFINE new == HashExpandBuckets(tbl)
           num == 2 * tbl.num
           elems == Moved(tbl.elems, num)
           moved(o) == [key |-> o.key, id |-> o.id, bkt |-> ToBkt(o.key, num), rank |-> -o.rank]
<1>1. IsTable(new) /\ new.num = num /\ new.elems = elems
  BY DEF HashExpandBuckets, IsTable
<1>2. num \in Nat /\ num > HASH_INITIAL_NUM_BUCKETS
  BY UthashAssumption DEF TableOK
<1>3. \A key \in Keys : ToBkt(key, num) \in Int
  BY <1>2, UthashAssumption DEF ToBkt
<1>4. ASSUME NEW o \in tbl.elems
      PROVE  /\ moved(o).id = o.id /\ moved(o).key = o.key /\ moved(o).rank = -o.rank
             /\ moved(o).bkt = ToBkt(o.key, num) /\ moved(o) \in Element
             /\ ElementOK(new, ents, moved(o))
  <2>1. o \in Element /\ ElementOK(tbl, ents, o)
    BY DEF TableOK
  <2>2. /\ moved(o).id = o.id /\ moved(o).key = o.key /\ moved(o).rank = -o.rank
        /\ moved(o).bkt = ToBkt(o.key, num) /\ moved(o) \in Element
    BY <2>1, <1>3 DEF Element
  <2> HIDE DEF moved
  <2>4. -o.rank = o.id \/ -o.rank = -o.id
    <3>1. o.id \in Nat /\ (o.rank = o.id \/ o.rank = -o.id)
      BY <2>1 DEF ElementOK, Element
    <3> QED BY <3>1
  <2> HIDE DEF new, num
  <2>5. ElementOK(new, ents, moved(o))
    BY <2>1, <2>2, <2>4, <1>1, <1>2 DEF ElementOK
  <2> QED BY <2>2, <2>5
<1>5. elems = {moved(o) : o \in tbl.elems}
  BY DEF Moved
<1> HIDE DEF new, elems, moved, num
<1>6. elems \subseteq Element /\ \A e \in elems : ElementOK(new, ents, e)
  BY <1>4, <1>5
<1>7. \A i \in DOMAIN ents : \E e \in elems : e.id = i
  BY <1>4, <1>5 DEF TableOK
<1>8. ASSUME NEW e \in elems, NEW o \in elems, e.id = o.id PROVE e = o
  <2>1. PICK d \in tbl.elems : e = moved(d)
    BY <1>5
  <2>2. PICK p \in tbl.elems : o = moved(p)
    BY <1>5
  <2>3. d = p
    BY <1>4, <1>8, <2>1, <2>2 DEF TableOK
  <2> QED BY <2>1, <2>2, <2>3
<1>9. TableOK(new, ents)
  BY UthashAssumption, <1>1, <1>2, <1>6, <1>7, <1>8 DEF TableOK
<1> QED BY <1>9 DEF new

LEMMA AddTableOK ==
  ASSUME NEW ents \in Seq(Entry), NEW tbl, TableOK(tbl, ents), NEW new \in Entry
  PROVE  TableOK(HashAdd(tbl, new.key, Len(ents) + 1), Append(ents, new))
<1> DEFINE n == Len(ents)
           key == new.key
           x == HeadOf(tbl, key, n + 1)
           added == [tbl EXCEPT !.elems = @ \cup {x}]
           more == Append(ents, new)
<1>1. n \in Nat /\ DOMAIN ents = 1..n /\ key \in Keys
  BY LenProperties DEF Entry
<1>2. /\ more \in Seq(Entry) /\ DOMAIN more = 1..(n + 1)
      /\ more[n + 1] = new /\ \A i \in 1..n : more[i] = ents[i]
  BY <1>1, AppendProperties, LenProperties
<1>3. IsTable(added) /\ added.num = tbl.num /\ added.elems = tbl.elems \cup {x}
  BY DEF TableOK, IsTable
<1>4. x \in Element /\ x.id = n + 1 /\ x.key = key /\ x.rank = n + 1 /\ x.bkt = ToBkt(key, tbl.num)
  BY <1>1, UthashAssumption DEF HeadOf, Element, ToBkt, TableOK
<1> HIDE DEF x, added, more
<1>5. TableOK(added, more)
  <2>1. \A e \in added.elems : e \in Element /\ ElementOK(added, more, e)
    BY <1>1, <1>2, <1>3, <1>4 DEF TableOK, ElementOK
  <2>2. \A i \in DOMAIN more : \E e \in added.elems : e.id = i
    BY <1>1, <1>2, <1>3, <1>4 DEF TableOK
  <2>3. \A e, o \in added.elems : e.id = o.id => e = o
    BY <1>1, <1>3, <1>4 DEF TableOK, ElementOK
  <2> QED BY <1>3, <2>1, <2>2, <2>3 DEF TableOK
<1>6. HashAdd(tbl, key, n + 1) = added \/ HashAdd(tbl, key, n + 1) = HashExpandBuckets(added)
  BY DEF HashAdd, added, x
<1> QED BY <1>2, <1>5, <1>6, ExpandTableOK DEF more

\* The elements are as many as the entries.
LEMMA TableSize ==
  ASSUME NEW ents \in Seq(Entry), NEW tbl, TableOK(tbl, ents)
  PROVE  Cardinality(tbl.elems) = Len(ents)
<1> DEFINE n == Len(ents)
           f == [e \in tbl.elems |-> e.id]
<1>1. n \in Nat /\ DOMAIN ents = 1..n
  BY LenProperties
<1>2. f \in Bijection(tbl.elems, 1..n)
  <2>1. f \in [tbl.elems -> 1..n]
    BY <1>1 DEF TableOK, ElementOK
  <2>2. \A a,b \in tbl.elems : f[a] = f[b] => a = b
    BY DEF TableOK
  <2>3. \A i \in 1..n : \E e \in tbl.elems : f[e] = i
    BY <1>1 DEF TableOK
  <2> HIDE DEF f
  <2> QED BY <2>1, <2>2, <2>3, Fun_IsBij
<1> HIDE DEF f
<1>3. Inverse(f, tbl.elems, 1..n) \in Bijection(1..n, tbl.elems)
  BY <1>2, Fun_BijInverse
<1>4. ExistsBijection(1..n, tbl.elems)
  BY <1>3 DEF ExistsBijection
<1>5. IsFiniteSet(1..n) /\ Cardinality(1..n) = n
  BY <1>1, FS_Interval
<1> QED BY <1>4, <1>5, FS_Bijection

(***************************************************************************)
(* The log.                                                                *)
(***************************************************************************)
Records == [op : {"x", "a", "f", "b", "m", "r"}, addr : Addrs \cup Modules \cup {NULL},
            thr : Threads \cup {NULL}]

\* The allocation at position k is not freed among the first p records.
Unfreed(p, k) ==
    /\ log[k].op = "a"
    /\ \A j \in 1..p : j > k => ~(log[j].op = "f" /\ log[j].addr = log[k].addr)

\* The record at position i, given those before it.
RecordOK(i) ==
    /\ log[i].op = "a" =>
           /\ log[i].addr \in Keys /\ (log[i].addr = NULL => MayFail)
           /\ log[i].addr # NULL =>
                  \A k \in 1..(i - 1) : log[k].addr = log[i].addr => ~Unfreed(i - 1, k)
    /\ log[i].op = "f" => log[i].addr \in Addrs
    /\ log[i].op = "b" => log[i].addr \in Modules /\ \E k \in 1..(i - 1) : IsBlock(log[k])
    /\ log[i].op = "m" => log[i].addr \in Modules

LogInv == /\ log \in Seq(Records) /\ heap \subseteq Addrs /\ closed \in BOOLEAN
          /\ \A i \in 1..Len(log) : RecordOK(i)

\* What is in the log stays there.
Grows == /\ log \in Seq(Records) /\ log' \in Seq(Records) /\ Len(log) <= Len(log')
         /\ \A i \in 1..Len(log) : log'[i] = log[i]

LEMMA UnfreedStays ==
  ASSUME Grows, NEW p \in 0..Len(log), NEW k \in 1..p
  PROVE  Unfreed(p, k)' <=> Unfreed(p, k)
<1>1. \A j \in 1..p : log'[j] = log[j]
  BY LenProperties DEF Grows
<1> QED BY <1>1 DEF Unfreed

LEMMA RecordStays ==
  ASSUME Grows, NEW i \in 1..Len(log), RecordOK(i)
  PROVE  RecordOK(i)'
<1>1. \A j \in 1..i : log'[j] = log[j]
  BY LenProperties DEF Grows
<1>2. i - 1 \in 0..Len(log)
  BY LenProperties DEF Grows
<1>3. \A k \in 1..(i - 1) : Unfreed(i - 1, k)' <=> Unfreed(i - 1, k)
  BY <1>2, UnfreedStays
<1>4. i \in 1..i /\ \A k \in 1..(i - 1) : k \in 1..i
  BY LenProperties DEF Grows
<1>5. log'[i] = log[i] /\ \A k \in 1..(i - 1) : log'[k] = log[k]
  BY <1>1, <1>4
<1> QED BY <1>3, <1>5 DEF RecordOK

\* Traced() by the positions of the records.
LEMMA TracedByPosition ==
  ASSUME NEW x, log \in Seq(Records)
  PROVE  x \in Traced(log) <=> \E k \in 1..Len(log) : log[k].addr = x /\ Unfreed(Len(log), k)
<1>1. DOMAIN log = 1..Len(log)
  BY LenProperties
<1> QED BY <1>1 DEF Traced, Unfreed

LEMMA LibTraced == Lib!Traced(log) = Traced(log)
  BY DEF Lib!Traced, Traced

\* A program step leaves the log or adds a record that the library may write next.
NextRecord(r) ==
    /\ closed' = closed /\ heap' = heap
    /\ r.op = "a" => /\ r.addr \in Keys /\ (r.addr = NULL => MayFail)
                     /\ r.addr # NULL => r.addr \notin Traced(log)
    /\ r.op = "f" => r.addr \in Addrs
    /\ r.op = "b" => r.addr \in Modules /\ \E k \in DOMAIN log : IsBlock(log[k])
    /\ r.op = "m" => r.addr \in Modules

LEMMA ProgramSteps ==
  ASSUME LogInv, Program
  PROVE  \/ log' = log /\ heap' \subseteq Addrs /\ closed' \in BOOLEAN /\ (closed => closed')
         \/ ~closed /\ \E r \in Records : log' = Append(log, r) /\ NextRecord(r)
<1> DEFINE rec(op, addr, t) == [op |-> op, addr |-> addr, thr |-> t]
<1>n. log \in Seq(Records) /\ DOMAIN log = 1..Len(log)
  BY LenProperties DEF LogInv
<1>k. Keys = Addrs \cup {NULL}
  BY ProfilerAssumption
<1>1. ASSUME LibOpen, UNCHANGED closed
      PROVE  \E r \in Records : log' = Append(log, r) /\ NextRecord(r)
  <2>1. log' = Append(log, rec("x", NULL, NULL)) /\ heap' = heap
    BY <1>1 DEF LibOpen, Lib!Log
  <2>2. rec("x", NULL, NULL) \in Records
    BY DEF Records
  <2>3. NextRecord(rec("x", NULL, NULL))
    BY <1>1, <2>1 DEF NextRecord
  <2> QED BY <2>1, <2>2, <2>3
<1>2. ASSUME LibWrite, UNCHANGED closed
      PROVE  \/ log' = log /\ heap' \subseteq Addrs /\ closed' = closed
             \/ \E r \in Records : log' = Append(log, r) /\ NextRecord(r)
  <2>1. ASSUME NEW a \in Addrs, Lib!Allocate(a) \/ Lib!Release(a)
        PROVE  log' = log /\ heap' \subseteq Addrs /\ closed' = closed
    BY <1>2, <2>1 DEF Lib!Allocate, Lib!Release, LogInv
  <2>2. ASSUME NEW a \in Addrs, NEW t \in Threads, Lib!LogAlloc(a, t)
        PROVE  \E r \in Records : log' = Append(log, r) /\ NextRecord(r)
    <3>1. log' = Append(log, rec("a", a, t)) /\ heap' = heap /\ a \notin Traced(log)
      BY <2>2, LibTraced DEF Lib!LogAlloc, Lib!Log
    <3>2. rec("a", a, t) \in Records
      BY DEF Records
    <3>3. NextRecord(rec("a", a, t))
      BY <1>2, <1>k, <3>1, ProfilerAssumption DEF NextRecord
    <3> QED BY <3>1, <3>2, <3>3
  <2>3. ASSUME NEW a \in Addrs, NEW t \in Threads, Lib!LogFree(a, t)
        PROVE  \E r \in Records : log' = Append(log, r) /\ NextRecord(r)
    <3>1. log' = Append(log, rec("f", a, t)) /\ heap' = heap
      BY <2>3 DEF Lib!LogFree, Lib!Log
    <3>2. rec("f", a, t) \in Records
      BY DEF Records
    <3>3. NextRecord(rec("f", a, t))
      BY <1>2, <3>1 DEF NextRecord
    <3> QED BY <3>1, <3>2, <3>3
  <2>4. ASSUME NEW m \in Modules, NEW t \in Threads, Lib!LogModule(m, t)
        PROVE  \E r \in Records : log' = Append(log, r) /\ NextRecord(r)
    <3>1. log' = Append(log, rec("m", m, t)) /\ heap' = heap
      BY <2>4 DEF Lib!LogModule, Lib!Log
    <3>2. rec("m", m, t) \in Records
      BY DEF Records
    <3>3. NextRecord(rec("m", m, t))
      BY <1>2, <3>1 DEF NextRecord
    <3> QED BY <3>1, <3>2, <3>3
  <2>5. ASSUME NEW m \in Modules, NEW t \in Threads, Lib!LogFrame(m, t)
        PROVE  \E r \in Records : log' = Append(log, r) /\ NextRecord(r)
    <3>1. log' = Append(log, rec("b", m, t)) /\ heap' = heap
      BY <2>5 DEF Lib!LogFrame, Lib!Log
    <3>2. rec("b", m, t) \in Records
      BY DEF Records
    <3>5. \E k \in DOMAIN log : IsBlock(log[k])
      BY <2>5 DEF Lib!LogFrame, Lib!IsOwnerOf, Lib!IsBlock, IsBlock
    <3>6. NextRecord(rec("b", m, t))
      BY <1>2, <3>1, <3>5 DEF NextRecord
    <3> QED BY <3>1, <3>2, <3>6
  <2>6. ASSUME LibFailed
        PROVE  \E r \in Records : log' = Append(log, r) /\ NextRecord(r)
    <3>1. PICK t \in Threads : log' = Append(log, rec("a", NULL, t))
      BY <2>6 DEF LibFailed, Lib!Log
    <3>2. rec("a", NULL, t) \in Records
      BY DEF Records
    <3>3. NextRecord(rec("a", NULL, t))
      BY <1>2, <1>k, <2>6 DEF NextRecord, LibFailed
    <3> QED BY <3>1, <3>2, <3>3
  <2>7. ASSUME LibFreeAligned
        PROVE  \E r \in Records : log' = Append(log, r) /\ NextRecord(r)
    <3>1. PICK a \in heap, t \in Threads : log' = Append(log, rec("f", a, t)) /\ heap' = heap
      BY <2>7 DEF LibFreeAligned, Lib!Log
    <3>2. rec("f", a, t) \in Records /\ a \in Addrs
      BY DEF Records, LogInv
    <3>3. NextRecord(rec("f", a, t))
      BY <1>2, <3>1, <3>2 DEF NextRecord
    <3> QED BY <3>1, <3>2, <3>3
  <2> QED BY <1>2, <2>1, <2>2, <2>3, <2>4, <2>5, <2>6, <2>7 DEF LibWrite, Lib!Next
<1>3. ASSUME LibRegion, UNCHANGED closed
      PROVE  \E r \in Records : log' = Append(log, r) /\ NextRecord(r)
  <2>1. log' = Append(log, rec("r", NULL, NULL)) /\ heap' = heap
    BY <1>3 DEF LibRegion, Lib!Log
  <2>2. rec("r", NULL, NULL) \in Records
    BY DEF Records
  <2>3. NextRecord(rec("r", NULL, NULL))
    BY <1>3, <2>1 DEF NextRecord
  <2> QED BY <2>1, <2>2, <2>3
<1>4. ASSUME LibExit \/ LibUnlogged, closed' = closed
      PROVE  log' = log /\ heap' \subseteq Addrs
  BY <1>4 DEF LibExit, LibUnlogged, LogInv
<1>5. ASSUME LibClose
      PROVE  log' = log /\ heap' \subseteq Addrs /\ closed' = TRUE
  BY <1>5 DEF LibClose, LogInv
<1>6. closed \in BOOLEAN
  BY DEF LogInv
<1> QED BY <1>1, <1>2, <1>3, <1>4, <1>5, <1>6 DEF Program

LEMMA AppendGrows ==
  ASSUME log \in Seq(Records), NEW r \in Records, log' = Append(log, r)
  PROVE  /\ Grows
         /\ Len(log') = Len(log) + 1 /\ Len(log) \in Nat /\ log'[Len(log) + 1] = r
         /\ DOMAIN log' = 1..(Len(log) + 1) /\ DOMAIN log = 1..Len(log)
  BY AppendProperties, LenProperties DEF Grows

LEMMA FramesFinite ==
  ASSUME log \in Seq(Records), NEW a
  PROVE  IsFiniteSet(FramesOf(a)) /\ FramesOf(a) \subseteq 1..Len(log)
<1>1. FramesOf(a) \subseteq 1..Len(log) /\ Len(log) \in Nat
  BY LenProperties DEF FramesOf
<1>2. IsFiniteSet(1..Len(log))
  BY <1>1, FS_Interval
<1> QED BY <1>1, <1>2, FS_Subset

LEMMA OwnerStays ==
  ASSUME Grows, NEW i \in 1..Len(log), NEW a \in 1..Len(log)
  PROVE  IsOwnerOf(log, i, a)' <=> IsOwnerOf(log, i, a)
<1>1. DOMAIN log = 1..Len(log) /\ DOMAIN log' = 1..Len(log') /\ Len(log) \in Nat /\ Len(log') \in Nat
  BY LenProperties DEF Grows
<1>2. CASE a < i
  BY <1>1, <1>2 DEF IsOwnerOf, IsBlock, Grows
<1>3. CASE ~(a < i)
  BY <1>3 DEF IsOwnerOf
<1> QED BY <1>2, <1>3

LEMMA AppendLogInv ==
  ASSUME LogInv, NEW r \in Records, log' = Append(log, r), NextRecord(r)
  PROVE  LogInv'
<1>0. PICK n \in Nat : n = Len(log)
  BY LenProperties DEF LogInv
<1>1. /\ Grows /\ log \in Seq(Records) /\ n \in Nat
      /\ Len(log') = n + 1 /\ log'[n + 1] = r
      /\ DOMAIN log' = 1..(n + 1) /\ DOMAIN log = 1..n
      /\ \A i \in 1..n : log'[i] = log[i]
  BY <1>0, AppendGrows DEF LogInv, Grows
<1>2. \A i \in 1..n : RecordOK(i)'
  BY <1>0, <1>1, RecordStays DEF LogInv
<1>3. RecordOK(n + 1)'
  <2>1. \A k \in 1..n : /\ log'[k] = log[k]
                        /\ Unfreed(n, k)' <=> Unfreed(n, k)
    BY <1>0, <1>1, UnfreedStays
  <2>2. \A x : x \in Traced(log) <=> \E k \in 1..n : log[k].addr = x /\ Unfreed(n, k)
    BY <1>0, <1>1, TracedByPosition
  <2>3. n + 1 - 1 = n
    BY <1>1
  <2>4. log'[n + 1].op = "a" =>
           /\ r.addr \in Keys /\ (r.addr = NULL => MayFail)
           /\ r.addr # NULL => \A k \in 1..n : log'[k].addr = r.addr => ~Unfreed(n, k)'
    BY <1>1, <2>1, <2>2 DEF NextRecord
  <2>5. log'[n + 1].op = "f" => r.addr \in Addrs
    BY <1>1 DEF NextRecord
  <2>6. log'[n + 1].op = "b" => r.addr \in Modules /\ \E k \in 1..n : IsBlock(log[k])'
    BY <1>1, <2>1 DEF NextRecord, IsBlock
  <2> QED BY <1>1, <2>3, <2>4, <2>5, <2>6 DEF RecordOK, NextRecord
<1>7. \A i \in 1..(n + 1) : i \in 1..n \/ i = n + 1
  BY <1>1
<1>8. \A i \in 1..(n + 1) : RecordOK(i)'
  BY <1>2, <1>3, <1>7
<1> QED BY <1>0, <1>1, <1>8 DEF LogInv, NextRecord, Grows

LEMMA ProgramLogInv ==
  ASSUME LogInv, Program
  PROVE  LogInv' /\ Grows /\ UNCHANGED readerVars /\ (closed => closed' /\ log' = log)
<1>1. log \in Seq(Records) /\ UNCHANGED readerVars
  BY DEF LogInv, Program
<1>2. CASE log' = log /\ heap' \subseteq Addrs /\ closed' \in BOOLEAN /\ (closed => closed')
  <2>1. Grows
    BY <1>1, <1>2, LenProperties DEF Grows
  <2>2. \A i \in 1..Len(log) : RecordOK(i)'
    BY <2>1, RecordStays DEF LogInv
  <2> QED BY <1>1, <1>2, <2>1, <2>2 DEF LogInv
<1>3. CASE ~closed /\ \E r \in Records : log' = Append(log, r) /\ NextRecord(r)
  BY <1>1, <1>3, AppendGrows, AppendLogInv
<1> QED BY <1>1, <1>2, <1>3, ProgramSteps

(***************************************************************************)
(* jmprof-ip.                                                              *)
(***************************************************************************)
Stats == [alloc_count : Int, free_count : Int, total : Int]

ReaderTypes ==
    /\ pos \in 0..Len(log) /\ entries \in Seq(Entry) /\ alloc_ctx \in Keys
    /\ stats \in Stats /\ regions \in Nat /\ reported \subseteq Modules
    /\ status \in {"reading", "done", "assert", "undefined"}

\* HASH_ITER() leaves an empty table.
TableInv == IF status # "done" THEN TableOK(table, entries)
            ELSE /\ table.elems = {} /\ table.num \in Nat /\ table.num >= HASH_INITIAL_NUM_BUCKETS
                 /\ pos = Len(log) /\ closed

\* Some entry of every block that is not freed is leaking.
LeakInv == \A k \in 1..pos : Unfreed(pos, k) =>
               \E i \in DOMAIN entries : entries[i].is_leaking /\ entries[i].key = log[k].addr

\* Before an expansion, only the latest entry of a block that is not freed is.
ExactInv == Unexpanded =>
    \A i \in DOMAIN entries : entries[i].is_leaking /\ entries[i].key # NULL =>
        /\ \E k \in 1..pos : log[k].addr = entries[i].key /\ Unfreed(pos, k)
        /\ \A j \in DOMAIN entries : entries[j].key = entries[i].key => j <= i

\* Each free that was read is of a block that was in the log.
Retracting == \A i \in 1..pos : log[i].op = "f" =>
                  \E k \in 1..(i - 1) : log[k].addr = log[i].addr /\ Unfreed(i - 1, k)

StatsInv == Unexpanded /\ Retracting => /\ stats.alloc_count - stats.free_count = Cardinality(Leaks)
                                        /\ stats.total = stats.alloc_count

\* alloc_ctx is the block of the last 'a' or 'f'.
LastBlock(c) == IsBlock(log[c]) /\ \A j \in 1..pos : j > c => ~IsBlock(log[j])

ContextInv == /\ status = "reading" =>
                     /\ \A c \in 1..pos : LastBlock(c) => alloc_ctx = log[c].addr
                     /\ alloc_ctx # NULL => \E c \in 1..pos : LastBlock(c)
                     /\ \A c \in 1..pos : IsBlock(log[c]) => \E l \in 1..pos : LastBlock(l)
              /\ status # "undefined" => ~UnknownBlock

ModuleInv == /\ \A m : m \in reported <=>
                          m \notin Vdso /\ \E j \in 1..pos : log[j].op = "m" /\ log[j].addr = m
             /\ regions = Cardinality({j \in 1..pos : log[j].op = "r"})

\* at[i] is the position of the 'a' record that entry i was made for.
Positions(at) ==
    /\ at \in [DOMAIN entries -> 1..pos]
    /\ \A i, j \in DOMAIN entries : i < j => at[i] < at[j]
    /\ \A i \in DOMAIN entries : log[at[i]].op = "a" /\ log[at[i]].addr = entries[i].key
    /\ \A p \in 1..pos : log[p].op = "a" => \E i \in DOMAIN entries : at[i] = p

ReadFrames(a) == {i \in 1..pos : log[i].op = "b" /\ IsOwnerOf(log, i, a)}

\* A leaking entry has the frames of its 'a'; another also those of its frees.
LeakTrace(i, a) ==
    /\ Len(entries[i].traces) = Cardinality(ReadFrames(a))
    /\ \A q \in ReadFrames(a) :
           entries[i].traces[Cardinality({j \in ReadFrames(a) : j <= q})] = Resolved(q)

Traces(at) == \A i \in DOMAIN entries : entries[i].is_leaking => LeakTrace(i, at[i])

Counts(at) == \A i \in DOMAIN entries :
    entries[i].key # NULL => Len(entries[i].traces) = Cardinality(FramesAbout(at[i]))

TraceInv == \E at : /\ Positions(at)
                    /\ Unexpanded => Counts(at)
                    /\ Unexpanded /\ status # "assert" => Traces(at)

ReadInv == /\ ReaderTypes /\ TableInv /\ LeakInv /\ ExactInv /\ StatsInv
           /\ ContextInv /\ ModuleInv /\ TraceInv

Inv == LogInv /\ ReadInv

LEMMA InitInv == Init => Inv
<1> SUFFICES ASSUME Init PROVE Inv
  OBVIOUS
<1>1. /\ log = <<>> /\ closed = FALSE /\ heap = {} /\ pos = 0 /\ entries = <<>> /\ table = NewTable
      /\ alloc_ctx = NULL /\ stats = [alloc_count |-> 0, free_count |-> 0, total |-> 0]
      /\ regions = 0 /\ reported = {} /\ status = "reading"
  BY DEF Init, ReaderInit
<1>2. Len(log) = 0 /\ DOMAIN log = {} /\ DOMAIN entries = {} /\ 1..pos = {} /\ 1..Len(log) = {}
  BY <1>1, EmptySeq, LenProperties
<1>3. Cardinality({}) = 0
  BY FS_EmptySet
<1>4. Keys = Addrs \cup {NULL}
  BY ProfilerAssumption
<1>5. LogInv
  <2>3. log \in Seq(Records)
    BY <1>1, EmptySeq
  <2> QED BY <1>1, <1>2, <2>3 DEF LogInv
<1>6. ReaderTypes
  BY <1>1, <1>2, <1>4, EmptySeq DEF ReaderTypes, Stats
<1>7. TableInv
  BY <1>1, NewTableOK DEF TableInv
<1>8. LeakInv /\ ExactInv /\ ContextInv
  BY <1>1, <1>2 DEF LeakInv, ExactInv, ContextInv, UnknownBlock
<1>9. StatsInv
  <2>1. Leaks = {}
    BY <1>2 DEF Leaks
  <2> QED BY <1>1, <1>3, <2>1 DEF StatsInv
<1>10. ModuleInv
  <2>1. {j \in 1..pos : log[j].op = "r"} = {}
    BY <1>2
  <2> QED BY <1>1, <1>2, <1>3, <2>1 DEF ModuleInv
<1>11. TraceInv
  <2> DEFINE at == [i \in {} |-> 0]
  <2>1. Positions(at) /\ Traces(at) /\ Counts(at)
    BY <1>2 DEF Positions, Traces, Counts
  <2> QED BY <2>1 DEF TraceInv
<1> QED BY <1>5, <1>6, <1>7, <1>8, <1>9, <1>10, <1>11 DEF Inv, ReadInv

\* The program does not change what was read.
LEMMA ReadInvStays ==
  ASSUME Inv, Grows, UNCHANGED readerVars, closed => closed' /\ log' = log
  PROVE  ReadInv'
<1>1. /\ pos' = pos /\ entries' = entries /\ table' = table /\ alloc_ctx' = alloc_ctx
      /\ stats' = stats /\ regions' = regions /\ reported' = reported /\ status' = status
  BY DEF readerVars
<1>2. /\ pos \in 0..Len(log) /\ Len(log) \in Nat /\ Len(log') \in Nat /\ Len(log) <= Len(log')
      /\ DOMAIN log = 1..Len(log) /\ DOMAIN log' = 1..Len(log')
  BY LenProperties DEF Grows, Inv, ReadInv, ReaderTypes
<1>3. \A i \in 1..pos : i \in 1..Len(log) /\ log'[i] = log[i]
  BY <1>2 DEF Grows
<1>4. \A k \in 1..pos : Unfreed(pos, k)' <=> Unfreed(pos, k)
  BY <1>1, <1>3 DEF Unfreed
<1>5. ReaderTypes'
  BY <1>1, <1>2 DEF Inv, ReadInv, ReaderTypes
<1>6. TableInv'
  BY <1>1 DEF Inv, ReadInv, TableInv
<1>7. LeakInv'
  BY <1>1, <1>3, <1>4 DEF Inv, ReadInv, LeakInv
<1>8. ExactInv'
  BY <1>1, <1>3, <1>4 DEF Inv, ReadInv, ExactInv, Unexpanded
<1>9. StatsInv'
  <2>1. Retracting' => Retracting
    <3> SUFFICES ASSUME Retracting', NEW i \in 1..pos, log[i].op = "f"
                 PROVE  \E k \in 1..(i - 1) : log[k].addr = log[i].addr /\ Unfreed(i - 1, k)
      BY DEF Retracting
    <3>1. PICK k \in 1..(i - 1) : log'[k].addr = log'[i].addr /\ Unfreed(i - 1, k)'
      BY <1>1, <1>3 DEF Retracting
    <3>2. k \in 1..pos /\ \A j \in 1..(i - 1) : j \in 1..pos
      BY <1>2
    <3>3. Unfreed(i - 1, k)
      BY <1>3, <3>1, <3>2 DEF Unfreed
    <3> QED BY <1>3, <3>1, <3>2, <3>3
  <2> QED BY <1>1, <2>1 DEF Inv, ReadInv, StatsInv, Unexpanded, Leaks
<1>10. ContextInv'
  <2>1. \A c \in 1..pos : (LastBlock(c)' <=> LastBlock(c)) /\ (IsBlock(log[c])' <=> IsBlock(log[c]))
    BY <1>1, <1>3 DEF LastBlock, IsBlock
  <2>2. UnknownBlock' <=> UnknownBlock
    <3>1. \A i \in 1..pos : \A a \in 1..i : a \in 1..pos
      BY <1>2
    <3> QED BY <1>1, <1>3, <3>1 DEF UnknownBlock
  <2> QED BY <1>1, <1>3, <2>1, <2>2 DEF Inv, ReadInv, ContextInv
<1>11. ModuleInv'
  <2>1. {j \in 1..pos : log'[j].op = "r"} = {j \in 1..pos : log[j].op = "r"}
    BY <1>3
  <2>2. ModuleInv
    BY DEF Inv, ReadInv
  <2>3. regions' = Cardinality({j \in 1..pos' : log'[j].op = "r"})
    BY <1>1, <2>1, <2>2 DEF ModuleInv
  <2>4. ASSUME NEW m
        PROVE  m \in reported' <=>
                   m \notin Vdso /\ \E j \in 1..pos' : log'[j].op = "m" /\ log'[j].addr = m
    <3>1. (\E j \in 1..pos : log'[j].op = "m" /\ log'[j].addr = m)
              <=> (\E j \in 1..pos : log[j].op = "m" /\ log[j].addr = m)
      BY <1>3
    <3> QED BY <1>1, <2>2, <3>1 DEF ModuleInv
  <2> QED BY <2>3, <2>4 DEF ModuleInv
<1>12. TraceInv'
  <2>1. PICK at : /\ Positions(at)
                  /\ Unexpanded => Counts(at)
                  /\ Unexpanded /\ status # "assert" => Traces(at)
    BY DEF Inv, ReadInv, TraceInv
  <2>2. Positions(at)'
    <3>1. \A i \in DOMAIN entries : at[i] \in 1..pos
      BY <2>1 DEF Positions
    <3>2. at \in [DOMAIN entries -> 1..pos] /\ \A i, j \in DOMAIN entries : i < j => at[i] < at[j]
      BY <2>1 DEF Positions
    <3>3. \A i \in DOMAIN entries : log'[at[i]].op = "a" /\ log'[at[i]].addr = entries[i].key
      BY <2>1, <3>1, <1>3 DEF Positions
    <3>4. \A p \in 1..pos : log'[p].op = "a" => \E i \in DOMAIN entries : at[i] = p
      BY <2>1, <1>3 DEF Positions
    <3> QED BY <1>1, <3>2, <3>3, <3>4 DEF Positions
  <2>3. ASSUME NEW a \in 1..pos PROVE ReadFrames(a)' = ReadFrames(a)
    <3>1. \A i \in 1..pos : IsOwnerOf(log, i, a)' <=> IsOwnerOf(log, i, a)
      BY <1>3, OwnerStays
    <3> QED BY <1>1, <1>3, <3>1 DEF ReadFrames
  <2>4. \A q \in 1..pos : Resolved(q)' = Resolved(q)
    <3> SUFFICES ASSUME NEW q \in 1..pos PROVE Resolved(q)' = Resolved(q)
      OBVIOUS
    <3>1. \A j \in 1..q : log'[j] = log[j]
      BY <1>2, <1>3
    <3> QED BY <1>3, <3>1 DEF Resolved
  <2>5. ASSUME NEW i \in DOMAIN entries, NEW a \in 1..pos, LeakTrace(i, a) PROVE LeakTrace(i, a)'
    <3>1. \A q \in ReadFrames(a) : q \in 1..pos
      BY DEF ReadFrames
    <3>2. ReadFrames(a)' = ReadFrames(a)
      BY <2>3
    <3> QED BY <1>1, <2>4, <2>5, <3>1, <3>2 DEF LeakTrace
  <2>6. \A i \in DOMAIN entries : at[i] \in 1..pos
    BY <2>1 DEF Positions
  <2>7. Traces(at) => Traces(at)'
    BY <1>1, <2>5, <2>6 DEF Traces
  <2>8. ASSUME NEW a \in 1..pos PROVE FramesAbout(a)' = FramesAbout(a)
    <3>1. \A i, o \in 1..pos : IsOwnerOf(log, i, o)' <=> IsOwnerOf(log, i, o)
      BY <1>3, OwnerStays
    <3>2. \A o \in 1..pos : IsAbout(o, a)' <=> IsAbout(o, a)
      <4> SUFFICES ASSUME NEW o \in 1..pos PROVE IsAbout(o, a)' <=> IsAbout(o, a)
        OBVIOUS
      <4>1. \A k \in (a + 1)..o : k \in 1..pos
        BY <1>2
      <4> QED BY <1>3, <4>1 DEF IsAbout
    <3> QED BY <1>1, <1>3, <3>1, <3>2 DEF FramesAbout
  <2>9. Counts(at) => Counts(at)'
    BY <1>1, <2>6, <2>8 DEF Counts
  <2> QED BY <1>1, <2>1, <2>2, <2>7, <2>9 DEF TraceInv, Unexpanded
<1> QED BY <1>5, <1>6, <1>7, <1>8, <1>9, <1>10, <1>11, <1>12 DEF ReadInv

\* jmprof-ip reads one more record.
Reads == /\ status = "reading" /\ pos < Len(log) /\ pos' = pos + 1
         /\ log' = log /\ closed' = closed /\ heap' = heap

LEMMA ReadsNext ==
  ASSUME Inv, Reads
  PROVE  /\ pos \in Nat /\ Len(log) \in Nat /\ pos + 1 \in 1..Len(log) /\ RecordOK(pos + 1)
         /\ log[pos + 1] \in Records /\ DOMAIN log = 1..Len(log)
         /\ \A i \in 1..pos : i \in 1..(pos + 1) /\ i \in 1..Len(log)
         /\ \A i \in 1..(pos + 1) : i \in 1..pos \/ i = pos + 1
         /\ \A k \in 1..pos : Unfreed(pos, k)' <=>
                Unfreed(pos, k) /\ ~(log[pos + 1].op = "f" /\ log[pos + 1].addr = log[k].addr)
         /\ \A k \in 1..(pos + 1) : k = pos + 1 => (Unfreed(pos, k)' <=> log[k].op = "a")
         /\ LogInv'
<1>1. pos \in Nat /\ Len(log) \in Nat /\ pos + 1 \in 1..Len(log) /\ DOMAIN log = 1..Len(log)
  BY LenProperties DEF Reads, Inv, ReadInv, LogInv, ReaderTypes
<1>2. RecordOK(pos + 1) /\ log[pos + 1] \in Records
  BY <1>1 DEF Inv, LogInv
<1>3. /\ \A i \in 1..pos : i \in 1..(pos + 1) /\ i \in 1..Len(log)
      /\ \A i \in 1..(pos + 1) : i \in 1..pos \/ i = pos + 1
  BY <1>1
<1>4. ASSUME NEW k \in 1..(pos + 1)
      PROVE  Unfreed(pos, k)' <=>
                 /\ log[k].op = "a"
                 /\ \A j \in 1..(pos + 1) : j > k => ~(log[j].op = "f" /\ log[j].addr = log[k].addr)
  BY DEF Unfreed, Reads
<1>5. ASSUME NEW k \in 1..pos
      PROVE  Unfreed(pos, k)' <=>
                Unfreed(pos, k) /\ ~(log[pos + 1].op = "f" /\ log[pos + 1].addr = log[k].addr)
  <2>1. pos + 1 > k /\ pos + 1 \in 1..(pos + 1) /\ k \in 1..(pos + 1)
    BY <1>1
  <2> QED BY <1>3, <1>4, <2>1 DEF Unfreed
<1>6. ASSUME NEW k \in 1..(pos + 1), k = pos + 1 PROVE Unfreed(pos, k)' <=> log[k].op = "a"
  <2>1. \A j \in 1..(pos + 1) : ~(j > k)
    BY <1>1, <1>6
  <2> QED BY <1>4, <2>1
<1>7. LogInv'
  <2>1. \A i \in 1..Len(log) : RecordOK(i)' <=> RecordOK(i)
    BY DEF Reads, RecordOK, Unfreed, IsBlock
  <2> QED BY <2>1 DEF Inv, LogInv, Reads
<1> QED BY <1>1, <1>2, <1>3, <1>5, <1>6, <1>7

\* The frames that were read.
LEMMA FramesNext ==
  ASSUME Inv, Reads
  PROVE  /\ \A a \in 1..pos :
                ReadFrames(a)' = IF log[pos + 1].op = "b" /\ LastBlock(a)
                                 THEN ReadFrames(a) \cup {pos + 1} ELSE ReadFrames(a)
         /\ \A a \in 1..(pos + 1) : a = pos + 1 => ReadFrames(a)' = {}
<1>1. /\ pos \in Nat /\ pos + 1 \in 1..Len(log) /\ DOMAIN log = 1..Len(log)
      /\ \A i \in 1..pos : i \in 1..(pos + 1) /\ i \in 1..Len(log)
      /\ \A i \in 1..(pos + 1) : i \in 1..pos \/ i = pos + 1
  BY ReadsNext
<1>2. \A a : ReadFrames(a)' = {i \in 1..(pos + 1) : log[i].op = "b" /\ IsOwnerOf(log, i, a)}
  BY DEF ReadFrames, Reads, IsOwnerOf, IsBlock
<1>3. ASSUME NEW a \in 1..pos PROVE IsOwnerOf(log, pos + 1, a) <=> LastBlock(a)
  BY <1>1 DEF IsOwnerOf, LastBlock
<1>4. ASSUME NEW a \in 1..pos
      PROVE  ReadFrames(a)' = IF log[pos + 1].op = "b" /\ LastBlock(a)
                              THEN ReadFrames(a) \cup {pos + 1} ELSE ReadFrames(a)
  BY <1>1, <1>2, <1>3 DEF ReadFrames
<1>5. ASSUME NEW a \in 1..(pos + 1), a = pos + 1 PROVE ReadFrames(a)' = {}
  BY <1>1, <1>2, <1>5 DEF IsOwnerOf
<1> QED BY <1>4, <1>5

LEMMA ReadFramesFinite ==
  ASSUME Inv, NEW a \in 1..pos
  PROVE  /\ IsFiniteSet(ReadFrames(a)) /\ ReadFrames(a) \subseteq 1..pos
         /\ Cardinality(ReadFrames(a)) \in Nat
<1>1. pos \in Nat /\ ReadFrames(a) \subseteq 1..pos
  BY LenProperties DEF ReadFrames, Inv, ReadInv, LogInv, ReaderTypes
<1>2. IsFiniteSet(1..pos)
  BY <1>1, FS_Interval
<1>3. IsFiniteSet(ReadFrames(a))
  BY <1>1, <1>2, FS_Subset
<1> QED BY <1>1, <1>3, FS_CardinalityType

\* Those of an entry: a frame is about the block of the last record of a block.
LEMMA AboutNext ==
  ASSUME Inv, Reads
  PROVE  /\ \A a \in 1..pos :
                FramesAbout(a)' = IF /\ log[pos + 1].op = "b"
                                     /\ \E o \in 1..pos : LastBlock(o) /\ IsAbout(o, a)
                                  THEN FramesAbout(a) \cup {pos + 1} ELSE FramesAbout(a)
         /\ \A a \in 1..(pos + 1) : a = pos + 1 => FramesAbout(a)' = {}
         /\ \A a : IsFiniteSet(FramesAbout(a)) /\ pos + 1 \notin FramesAbout(a)
<1>1. /\ pos \in Nat /\ pos + 1 \in 1..Len(log) /\ DOMAIN log = 1..Len(log)
      /\ \A i \in 1..pos : i \in 1..(pos + 1) /\ i \in 1..Len(log)
      /\ \A i \in 1..(pos + 1) : i \in 1..pos \/ i = pos + 1
      /\ pos + 1 \in 1..(pos + 1)
  BY ReadsNext
<1>2. \A a : FramesAbout(a)' =
          {i \in 1..(pos + 1) : /\ log[i].op = "b"
                                /\ \E o \in 1..(pos + 1) : IsOwnerOf(log, i, o) /\ IsAbout(o, a)}
  BY DEF FramesAbout, Reads, IsOwnerOf, IsBlock, IsAbout
<1>3. \A i \in 1..(pos + 1) : ~IsOwnerOf(log, i, pos + 1)
  BY <1>1 DEF IsOwnerOf
<1>4. \A o \in 1..pos : IsOwnerOf(log, pos + 1, o) <=> LastBlock(o)
  BY <1>1 DEF IsOwnerOf, LastBlock
<1>5. ASSUME NEW a \in 1..pos
      PROVE  FramesAbout(a)' = IF /\ log[pos + 1].op = "b"
                                  /\ \E o \in 1..pos : LastBlock(o) /\ IsAbout(o, a)
                               THEN FramesAbout(a) \cup {pos + 1} ELSE FramesAbout(a)
  <2>1. \A i \in 1..pos : i \in FramesAbout(a)' <=> i \in FramesAbout(a)
    BY <1>1, <1>2, <1>3 DEF FramesAbout
  <2>2. pos + 1 \in FramesAbout(a)' <=> /\ log[pos + 1].op = "b"
                                        /\ \E o \in 1..pos : LastBlock(o) /\ IsAbout(o, a)
    BY <1>1, <1>2, <1>3, <1>4
  <2>3. FramesAbout(a)' \subseteq 1..(pos + 1) /\ FramesAbout(a) \subseteq 1..pos
    BY <1>2 DEF FramesAbout
  <2> DEFINE more == /\ log[pos + 1].op = "b"
                     /\ \E o \in 1..pos : LastBlock(o) /\ IsAbout(o, a)
  <2> HIDE DEF more
  <2>4. pos + 1 \in FramesAbout(a)' <=> more
    BY <2>2 DEF more
  <2>5. CASE more
    <3>1. FramesAbout(a)' = FramesAbout(a) \cup {pos + 1}
      BY <1>1, <2>1, <2>3, <2>4, <2>5
    <3> QED BY <2>5, <3>1 DEF more
  <2>6. CASE ~more
    <3>1. FramesAbout(a)' = FramesAbout(a)
      BY <1>1, <2>1, <2>3, <2>4, <2>6
    <3> QED BY <2>6, <3>1 DEF more
  <2> QED BY <2>5, <2>6
<1>6. ASSUME NEW a \in 1..(pos + 1), a = pos + 1 PROVE FramesAbout(a)' = {}
  <2>1. \A o \in 1..pos : ~IsAbout(o, a)
    BY <1>1, <1>6 DEF IsAbout
  <2> QED BY <1>1, <1>2, <1>3, <2>1
<1>7. ASSUME NEW a PROVE IsFiniteSet(FramesAbout(a)) /\ pos + 1 \notin FramesAbout(a)
  <2>1. FramesAbout(a) \subseteq 1..pos /\ pos + 1 \notin 1..pos
    BY <1>1 DEF FramesAbout
  <2>2. IsFiniteSet(1..pos)
    BY <1>1, FS_Interval
  <2> QED BY <2>1, <2>2, FS_Subset
<1> QED BY <1>5, <1>6, <1>7

\* A step that adds no entry leaves the positions.
LEMMA PositionsStay ==
  ASSUME Inv, Reads, log[pos + 1].op # "a", DOMAIN entries' = DOMAIN entries,
         \A i \in DOMAIN entries : entries'[i].key = entries[i].key,
         NEW at, Positions(at)
  PROVE  Positions(at)'
<1>1. /\ pos \in Nat
      /\ \A i \in 1..pos : i \in 1..(pos + 1)
      /\ \A i \in 1..(pos + 1) : i \in 1..pos \/ i = pos + 1
  BY ReadsNext
<1>2. at \in [DOMAIN entries -> 1..pos] /\ at \in [DOMAIN entries' -> 1..pos']
  BY <1>1 DEF Positions, Reads
<1>3. \A i, j \in DOMAIN entries' : i < j => at[i] < at[j]
  BY DEF Positions
<1>4. \A i \in DOMAIN entries' : log'[at[i]].op = "a" /\ log'[at[i]].addr = entries'[i].key
  BY DEF Positions, Reads
<1>5. \A p \in 1..pos' : log'[p].op = "a" => \E i \in DOMAIN entries' : at[i] = p
  BY <1>1 DEF Positions, Reads
<1> QED BY <1>2, <1>3, <1>4, <1>5 DEF Positions

\* Every block that was read has an entry.
LEMMA EntryOfBlock ==
  ASSUME Inv, status = "reading", NEW c \in 1..pos, IsBlock(log[c])
  PROVE  \E i \in DOMAIN entries : entries[i].key = log[c].addr
<1>1. PICK at : Positions(at)
  BY DEF Inv, ReadInv, TraceInv
<1>2. pos \in Nat /\ Len(log) \in Nat /\ pos <= Len(log) /\ RecordOK(c)
  BY LenProperties DEF Inv, ReadInv, ReaderTypes, LogInv
<1>3. CASE log[c].op = "a"
  BY <1>1, <1>3 DEF Positions
<1>4. CASE log[c].op = "f"
  <2>1. PICK k \in 1..c : log[k].addr = log[c].addr /\ log[k].op = "a"
    BY <1>4 DEF Inv, ReadInv, ContextInv, UnknownBlock
  <2>2. k \in 1..pos
    BY <1>2
  <2> QED BY <1>1, <2>1, <2>2 DEF Positions
<1> QED BY <1>3, <1>4 DEF IsBlock

\* A step that changes the keys of no entry leaves the table in order.
LEMMA TableStays ==
  ASSUME Inv, status = "reading", status' # "done", table' = table,
         DOMAIN entries' = DOMAIN entries,
         \A i \in DOMAIN entries : entries'[i].key = entries[i].key
  PROVE  TableInv'
  BY DEF Inv, ReadInv, TableInv, TableOK, ElementOK

LEMMA RetractingBefore ==
  ASSUME Inv, Reads
  PROVE  /\ Retracting' => Retracting
         /\ Retracting' /\ log[pos + 1].op = "f" =>
                \E k \in 1..pos : log[k].addr = log[pos + 1].addr /\ Unfreed(pos, k)
<1>1. /\ pos \in Nat /\ \A i \in 1..pos : i \in 1..(pos + 1)
      /\ pos + 1 \in 1..(pos + 1) /\ pos + 1 - 1 = pos
  BY ReadsNext
<1>2. Retracting' => \A i \in 1..(pos + 1) : log[i].op = "f" =>
                         \E k \in 1..(i - 1) : log[k].addr = log[i].addr /\ Unfreed(i - 1, k)
  <2> SUFFICES ASSUME Retracting', NEW i \in 1..(pos + 1), log[i].op = "f"
               PROVE  \E k \in 1..(i - 1) : log[k].addr = log[i].addr /\ Unfreed(i - 1, k)
    OBVIOUS
  <2>1. PICK k \in 1..(i - 1) : log'[k].addr = log'[i].addr /\ Unfreed(i - 1, k)'
    BY DEF Retracting, Reads
  <2> QED BY <2>1 DEF Unfreed, Reads
<1> QED BY <1>1, <1>2 DEF Retracting

\* A record that is not about a block.
LEMMA NotBlockInv ==
  ASSUME Inv, Reads, ~IsBlock(log[pos + 1]), DOMAIN entries' = DOMAIN entries,
         \A i \in DOMAIN entries : /\ entries'[i].key = entries[i].key
                                   /\ entries'[i].is_leaking = entries[i].is_leaking,
         UNCHANGED <<table, alloc_ctx, stats>>
  PROVE  LeakInv' /\ ExactInv' /\ StatsInv' /\ ContextInv'
<1>1. /\ pos \in Nat /\ pos' = pos + 1 /\ log' = log
      /\ \A i \in 1..pos : i \in 1..(pos + 1)
      /\ \A i \in 1..(pos + 1) : i \in 1..pos \/ i = pos + 1
      /\ \A k \in 1..pos : Unfreed(pos, k)' <=> Unfreed(pos, k)
      /\ \A k \in 1..(pos + 1) : k = pos + 1 => ~Unfreed(pos, k)'
  BY ReadsNext DEF Reads, IsBlock
<1>2. LeakInv'
  BY <1>1 DEF Inv, ReadInv, LeakInv
<1>3. ExactInv'
  BY <1>1 DEF Inv, ReadInv, ExactInv, Unexpanded
<1>4. StatsInv'
  <2>1. Leaks' = Leaks
    BY DEF Leaks
  <2> QED BY <2>1, RetractingBefore DEF Inv, ReadInv, StatsInv, Unexpanded
<1>5. ContextInv'
  <2>1. \A c \in 1..pos : LastBlock(c)' <=> LastBlock(c)
    BY <1>1 DEF LastBlock, IsBlock
  <2>2. \A c \in 1..(pos + 1) : IsBlock(log[c]) => c \in 1..pos
    BY <1>1
  <2>3. \A c \in 1..(pos + 1) : LastBlock(c)' => IsBlock(log[c])
    BY <1>1 DEF LastBlock, IsBlock
  <2>4. \A c : IsBlock(log[c])' <=> IsBlock(log[c])
    BY <1>1 DEF IsBlock
  <2>5. UnknownBlock' => UnknownBlock
    BY <1>1, <2>4 DEF UnknownBlock, IsBlock
  <2> QED BY <1>1, <2>1, <2>2, <2>3, <2>4, <2>5 DEF Inv, ReadInv, ContextInv, Reads
<1> QED BY <1>2, <1>3, <1>4, <1>5

\* Resolved() depends on the log only.
LEMMA TracesStay ==
  ASSUME Inv, Reads, NEW at, Positions(at), NEW i \in DOMAIN entries, entries' = entries,
         log[pos + 1].op # "b"
  PROVE  LeakTrace(i, at[i]) => LeakTrace(i, at[i])'
<1>1. /\ at[i] \in 1..pos /\ pos \in Nat /\ pos' = pos + 1 /\ log' = log
      /\ \A g \in 1..pos : g \in 1..(pos + 1)
  BY ReadsNext DEF Positions, Reads
<1>2. \A a \in 1..pos : ReadFrames(a)' = ReadFrames(a)
  BY FramesNext
<1>3. \A q : Resolved(q)' = Resolved(q)
  BY <1>1 DEF Resolved
<1>4. ReadFrames(at[i])' = ReadFrames(at[i])
  BY <1>1, <1>2
<1> QED BY <1>3, <1>4 DEF LeakTrace

LEMMA CountsStay ==
  ASSUME Inv, Reads, NEW at, Positions(at), Counts(at), log[pos + 1].op # "b",
         DOMAIN entries' = DOMAIN entries,
         \A i \in DOMAIN entries : /\ entries'[i].key = entries[i].key
                                   /\ entries'[i].traces = entries[i].traces
  PROVE  Counts(at)'
<1>1. \A i \in DOMAIN entries : at[i] \in 1..pos
  BY DEF Positions
<1>2. \A a \in 1..pos : FramesAbout(a)' = FramesAbout(a)
  BY AboutNext
<1> QED BY <1>1, <1>2 DEF Counts

\* The cases of jm_symbols_parse_log().
LEMMA OtherReadInv ==
  ASSUME Inv, Reads,
         \/ ParseModule(log[pos + 1])
         \/ ParseRegion(log[pos + 1])
         \/ ParseExecPath(log[pos + 1])
  PROVE  ReadInv'
<1> DEFINE r == log[pos + 1]
<1>1. /\ pos \in Nat /\ Len(log) \in Nat /\ pos + 1 \in 1..Len(log) /\ RecordOK(pos + 1)
      /\ r \in Records /\ pos' = pos + 1 /\ log' = log
      /\ \A i \in 1..pos : i \in 1..(pos + 1)
      /\ \A i \in 1..(pos + 1) : i \in 1..pos \/ i = pos + 1
  BY ReadsNext DEF Reads
<1>2. /\ UNCHANGED <<entries, table, alloc_ctx, stats>> /\ r.op \in {"m", "r", "x"}
      /\ status = "reading" /\ status' \in {"reading", "undefined"}
  BY DEF ParseModule, ParseRegion, ParseExecPath, Reads
<1>3. LeakInv' /\ ExactInv' /\ StatsInv' /\ ContextInv'
  BY <1>2, NotBlockInv DEF IsBlock
<1>4. TableInv'
  BY <1>2, TableStays
<1>5. ReaderTypes' /\ ModuleInv'
  <2> DEFINE R == {j \in 1..pos : log[j].op = "r"}
             S == {j \in 1..(pos + 1) : log[j].op = "r"}
  <2>1. IsFiniteSet(R) /\ regions = Cardinality(R) /\ pos + 1 \notin R
    <3>1. R \subseteq 1..pos
      OBVIOUS
    <3>2. IsFiniteSet(1..pos)
      BY <1>1, FS_Interval
    <3>3. IsFiniteSet(R)
      BY <3>1, <3>2, FS_Subset
    <3> QED BY <1>1, <3>3 DEF Inv, ReadInv, ModuleInv
  <2>2. Cardinality(R \cup {pos + 1}) = Cardinality(R) + 1
    BY <2>1, FS_AddElement
  <2>3. \A m : m \in reported <=>
            m \notin Vdso /\ \E j \in 1..pos : log[j].op = "m" /\ log[j].addr = m
    BY DEF Inv, ReadInv, ModuleInv
  <2>4. ReaderTypes
    BY DEF Inv, ReadInv
  <2>5. CASE ParseModule(r)
    <3>1. S = R
      BY <1>1, <2>5 DEF ParseModule
    <3>2. \A m : m \in reported' <=>
              m \notin Vdso /\ \E j \in 1..(pos + 1) : log[j].op = "m" /\ log[j].addr = m
      <4>1. pos + 1 \in 1..(pos + 1)
        BY <1>1
      <4>2. \A m : m \in reported' <=> m \in reported \/ (m = r.addr /\ m \notin Vdso)
        BY <2>5 DEF ParseModule
      <4> QED BY <1>1, <2>3, <2>5, <4>1, <4>2 DEF ParseModule
    <3>3. r.addr \in Modules
      BY <1>1, <2>5 DEF ParseModule, RecordOK
    <3>4. ReaderTypes'
      BY <1>1, <1>2, <2>4, <2>5, <3>3 DEF ReaderTypes, ParseModule
    <3> QED BY <1>1, <2>1, <2>5, <3>1, <3>2, <3>4 DEF ModuleInv, ParseModule
  <2>6. CASE ParseRegion(r)
    <3>1. S = R \cup {pos + 1}
      BY <1>1, <2>6 DEF ParseRegion
    <3>2. \A m : m \in reported' <=>
              m \notin Vdso /\ \E j \in 1..(pos + 1) : log[j].op = "m" /\ log[j].addr = m
      BY <1>1, <2>3, <2>6 DEF ParseRegion
    <3>3. ReaderTypes'
      BY <1>1, <1>2, <2>4, <2>6 DEF ReaderTypes, ParseRegion
    <3> HIDE DEF R, S
    <3>4. regions' = Cardinality(S)
      BY <2>1, <2>2, <2>6, <3>1 DEF ParseRegion
    <3> QED BY <1>1, <3>2, <3>3, <3>4 DEF ModuleInv, S
  <2>7. CASE ParseExecPath(r)
    <3>1. S = R
      BY <1>1, <2>7 DEF ParseExecPath
    <3>2. \A m : m \in reported' <=>
              m \notin Vdso /\ \E j \in 1..(pos + 1) : log[j].op = "m" /\ log[j].addr = m
      BY <1>1, <2>3, <2>7 DEF ParseExecPath
    <3>3. ReaderTypes'
      BY <1>1, <1>2, <2>4, <2>7 DEF ReaderTypes, ParseExecPath
    <3> QED BY <1>1, <2>1, <2>7, <3>1, <3>2, <3>3 DEF ModuleInv, ParseExecPath
  <2> QED BY <2>5, <2>6, <2>7
<1>6. TraceInv'
  <2>1. PICK at : /\ Positions(at)
                  /\ Unexpanded => Counts(at)
                  /\ Unexpanded /\ status # "assert" => Traces(at)
    BY DEF Inv, ReadInv, TraceInv
  <2>2. Positions(at)'
    BY <1>2, <2>1, PositionsStay
  <2>3. Unexpanded' => Traces(at)'
    <3> SUFFICES ASSUME Unexpanded', NEW i \in DOMAIN entries, entries[i].is_leaking
                 PROVE  LeakTrace(i, at[i])'
      BY <1>2 DEF Traces
    <3>1. Traces(at)
      BY <1>2, <2>1 DEF Unexpanded
    <3> QED BY <1>2, <2>1, <3>1, TracesStay DEF Traces
  <2>4. Unexpanded' => Counts(at)'
    BY <1>2, <2>1, CountsStay DEF Unexpanded
  <2> QED BY <2>2, <2>3, <2>4 DEF TraceInv
<1> QED BY <1>3, <1>4, <1>5, <1>6 DEF ReadInv

\* An entry that is found has the key, and before an expansion it is the latest.
Found(e, key) == /\ e \in DOMAIN entries /\ entries[e].key = key /\ FindEntry(key) = e
                 /\ Unexpanded => \A i \in DOMAIN entries : entries[i].key = key => i <= e

LEMMA FindEntryFinds ==
  ASSUME Inv, status = "reading", NEW key \in Keys \ {NULL},
         \E i \in DOMAIN entries : entries[i].key = key
  PROVE  Found(FindEntry(key), key)
<1>1. TableOK(table, entries) /\ entries \in Seq(Entry)
  BY DEF Inv, ReadInv, TableInv, ReaderTypes
<1>2. FindEntry(key) = HashFind(table, key)
  BY DEF FindEntry
<1> QED BY <1>1, <1>2, FindEntryOfKey DEF Found, Unexpanded

\* A frame belongs to the entry of the last block.
LEMMA FrameReadInv ==
  ASSUME Inv, Reads, ParseBacktrace(log[pos + 1])
  PROVE  ReadInv'
<1> DEFINE r == log[pos + 1]
           x == Resolve(r.addr)
<1>1. /\ pos \in Nat /\ Len(log) \in Nat /\ pos + 1 \in 1..Len(log) /\ RecordOK(pos + 1)
      /\ r \in Records /\ r.op = "b" /\ pos' = pos + 1 /\ log' = log
      /\ \A i \in 1..pos : i \in 1..(pos + 1)
      /\ \A i \in 1..(pos + 1) : i \in 1..pos \/ i = pos + 1
      /\ status = "reading"
  BY ReadsNext DEF Reads, ParseBacktrace
<1>2. PICK at : /\ Positions(at)
                /\ Unexpanded => Counts(at)
                /\ Unexpanded /\ status # "assert" => Traces(at)
  BY DEF Inv, ReadInv, TraceInv
<1>3. \A a \in 1..pos : ReadFrames(a)' = IF LastBlock(a) THEN ReadFrames(a) \cup {pos + 1}
                                                         ELSE ReadFrames(a)
  BY <1>1, FramesNext
<1>4. UNCHANGED <<table, alloc_ctx, stats, regions, reported>>
      /\ status' \in {"reading", "assert", "undefined"}
  BY <1>1 DEF ParseBacktrace, Undefined
<1>5. ModuleInv'
  <2>1. {j \in 1..(pos + 1) : log[j].op = "r"} = {j \in 1..pos : log[j].op = "r"}
    BY <1>1
  <2>2. \A m : m \in reported <=>
            m \notin Vdso /\ \E j \in 1..(pos + 1) : log[j].op = "m" /\ log[j].addr = m
    BY <1>1 DEF Inv, ReadInv, ModuleInv
  <2> QED BY <1>1, <1>4, <2>1, <2>2 DEF Inv, ReadInv, ModuleInv
<1>6. CASE alloc_ctx = NULL
  <2>1. entries' = entries /\ status' = "assert"
    BY <1>6 DEF ParseBacktrace
  <2>2. LeakInv' /\ ExactInv' /\ StatsInv' /\ ContextInv'
    BY <1>1, <1>4, <2>1, NotBlockInv DEF IsBlock
  <2>3. TableInv'
    BY <1>1, <1>4, <2>1, TableStays
  <2>4. ReaderTypes'
    BY <1>1, <1>4, <2>1 DEF Inv, ReadInv, ReaderTypes
  <2>5. Positions(at)'
    BY <1>1, <1>2, <2>1, PositionsStay
  <2>6. Unexpanded' => Counts(at)'
    <3> SUFFICES ASSUME Unexpanded', NEW i \in DOMAIN entries, entries[i].key # NULL
                 PROVE  Len(entries[i].traces) = Cardinality(FramesAbout(at[i])')
      BY <2>1 DEF Counts
    <3>1. at[i] \in 1..pos /\ log[at[i]].addr = entries[i].key
      BY <1>2 DEF Positions
    <3>2. \A o \in 1..pos : LastBlock(o) => ~IsAbout(o, at[i])
      BY <1>1, <1>6, <3>1 DEF Inv, ReadInv, ContextInv, IsAbout
    <3>3. FramesAbout(at[i])' = FramesAbout(at[i])
      BY <3>1, <3>2, AboutNext
    <3> QED BY <1>2, <1>4, <3>3 DEF Counts, Unexpanded
  <2> QED BY <1>5, <2>1, <2>2, <2>3, <2>4, <2>5, <2>6 DEF ReadInv, TraceInv
<1>7. CASE alloc_ctx # NULL
  <2>1. PICK c \in 1..pos : LastBlock(c) /\ alloc_ctx = log[c].addr
    BY <1>1, <1>7 DEF Inv, ReadInv, ContextInv
  <2>2. /\ entries \in Seq(Entry) /\ DOMAIN entries = 1..Len(entries) /\ Len(entries) \in Nat
        /\ alloc_ctx \in Keys /\ reported \subseteq Modules
    BY LenProperties DEF Inv, ReadInv, ReaderTypes
  <2>3. PICK e \in DOMAIN entries : Found(e, alloc_ctx)
    <3>1. Found(FindEntry(alloc_ctx), alloc_ctx)
      BY <1>1, <1>7, <2>1, <2>2, EntryOfBlock, FindEntryFinds DEF LastBlock
    <3> QED BY <3>1 DEF Found
  <2> DEFINE more == Append(entries[e].traces, x)
  <2>4. e \in DOMAIN entries /\ e # 0 /\ entries[e] \in Entry /\ entries[e].key = alloc_ctx
    BY <2>2, <2>3 DEF Found
  <2>5. /\ entries' = [entries EXCEPT ![e].traces = more]
        /\ status' \in {"reading", "undefined"}
    BY <1>1, <1>7, <2>3, <2>4 DEF ParseBacktrace, Found
  <2>6. x \in Modules \cup {NULL} /\ entries[e].traces \in Seq(Modules \cup {NULL})
    BY <2>2, <2>4 DEF Resolve, Entry
  <2>7. /\ more \in Seq(Modules \cup {NULL}) /\ Len(more) = Len(entries[e].traces) + 1
        /\ Len(entries[e].traces) \in Nat
        /\ \A i \in 1..Len(entries[e].traces) : more[i] = entries[e].traces[i]
        /\ more[Len(entries[e].traces) + 1] = x
    BY <2>6, AppendProperties, LenProperties
  <2> HIDE DEF more, x
  <2>8. /\ DOMAIN entries' = DOMAIN entries /\ entries' \in Seq(Entry)
        /\ \A i \in DOMAIN entries : i # e => entries'[i] = entries[i]
        /\ entries'[e] = [entries[e] EXCEPT !.traces = more]
        /\ \A i \in DOMAIN entries : /\ entries'[i].key = entries[i].key
                                     /\ entries'[i].is_leaking = entries[i].is_leaking
    <3>1. [entries[e] EXCEPT !.traces = more] \in Entry
      BY <2>4, <2>7 DEF Entry
    <3>2. entries' = [entries EXCEPT ![e] = [entries[e] EXCEPT !.traces = more]]
      BY <2>5
    <3>3. entries' \in Seq(Entry)
      BY <2>2, <2>4, <3>1, <3>2, ExceptSeq
    <3>4. /\ DOMAIN entries' = DOMAIN entries
          /\ \A i \in DOMAIN entries : i # e => entries'[i] = entries[i]
          /\ entries'[e] = [entries[e] EXCEPT !.traces = more]
      BY <2>2, <2>4, <3>2
    <3>5. entries'[e].key = entries[e].key /\ entries'[e].is_leaking = entries[e].is_leaking
      BY <2>4, <3>4 DEF Entry
    <3> QED BY <3>3, <3>4, <3>5
  <2>9. LeakInv' /\ ExactInv' /\ StatsInv' /\ ContextInv'
    BY <1>1, <1>4, <2>8, NotBlockInv DEF IsBlock
  <2>10. TableInv'
    BY <1>1, <1>4, <2>5, <2>8, TableStays
  <2>11. ReaderTypes'
    BY <1>1, <1>4, <2>5, <2>8 DEF Inv, ReadInv, ReaderTypes
  <2>12. Positions(at)'
    BY <1>1, <1>2, <2>8, PositionsStay
  <2>13. ASSUME Unexpanded' PROVE Traces(at)'
    <3>1. Unexpanded /\ Traces(at)
      BY <1>1, <1>2, <1>4, <2>13 DEF Unexpanded
    <3>2. \A i \in DOMAIN entries : at[i] \in 1..pos /\ log[at[i]].op = "a" /\ log[at[i]].addr = entries[i].key
      BY <1>2 DEF Positions
    <3>3. \A i \in DOMAIN entries : entries[i].key = alloc_ctx => i <= e /\ at[i] <= at[e]
      <4> SUFFICES ASSUME NEW i \in DOMAIN entries, entries[i].key = alloc_ctx
                   PROVE  i <= e /\ at[i] <= at[e]
        OBVIOUS
      <4>1. i <= e
        BY <2>3, <3>1 DEF Found
      <4>2. i < e => at[i] < at[e]
        BY <1>2, <2>4 DEF Positions
      <4> QED BY <2>2, <2>4, <3>2, <4>1, <4>2
    <3>4. \A k \in 1..pos : log[k].op = "a" /\ log[k].addr = alloc_ctx => k <= at[e]
      BY <1>2, <3>3 DEF Positions
    <3>5. \A b \in 1..pos : IsBlock(log[b]) => b <= c
      BY <1>1, <2>1 DEF LastBlock
    <3>6. at[e] <= c
      BY <2>4, <3>2, <3>5 DEF IsBlock
    <3>q. \A q \in 1..(pos + 1) : Resolved(q)' = Resolved(q)
      BY <1>1 DEF Resolved
    <3>7. ASSUME NEW i \in DOMAIN entries, i # e, entries[i].is_leaking
          PROVE  LeakTrace(i, at[i])'
      <4>1. ~LastBlock(at[i])
        <5>1. CASE entries[i].key = alloc_ctx
          <6>1. at[i] < at[e]
            BY <1>2, <2>2, <2>4, <3>3, <3>7, <5>1 DEF Positions
          <6> QED BY <2>4, <3>2, <6>1 DEF LastBlock, IsBlock
        <5>2. CASE entries[i].key # alloc_ctx
          BY <1>1, <3>2, <5>2 DEF Inv, ReadInv, ContextInv
        <5> QED BY <5>1, <5>2
      <4>2. ReadFrames(at[i])' = ReadFrames(at[i])
        BY <1>3, <3>2, <4>1
      <4>3. LeakTrace(i, at[i])
        BY <3>1, <3>7 DEF Traces
      <4>4. \A q \in ReadFrames(at[i]) : Resolved(q)' = Resolved(q)
        BY <3>q, <1>1 DEF ReadFrames
      <4> QED BY <2>8, <3>7, <4>2, <4>3, <4>4 DEF LeakTrace
    <3>9. ASSUME entries[e].is_leaking PROVE LeakTrace(e, at[e])'
      <4> DEFINE a == at[e]
                 F == ReadFrames(a)
                 G == F \cup {pos + 1}
      <4>1. PICK k \in 1..pos : log[k].addr = alloc_ctx /\ Unfreed(pos, k)
        BY <1>7, <2>4, <3>1, <3>9 DEF Inv, ReadInv, ExactInv
      <4>2. k <= at[e] /\ k <= c
        BY <2>4, <3>2, <3>4, <3>6, <4>1 DEF Unfreed
      <4>3. log[c].op = "a"
        BY <2>1, <4>1, <4>2 DEF LastBlock, IsBlock, Unfreed
      <4>4. c = at[e]
        BY <2>1, <2>4, <3>2, <3>4, <3>6, <4>3
      <4>5. a \in 1..pos /\ LastBlock(a)
        BY <2>1, <4>4
      <4>6. ReadFrames(a)' = G
        BY <1>3, <4>5
      <4>7. IsFiniteSet(F) /\ F \subseteq 1..pos /\ Cardinality(F) \in Nat
        BY <4>5, ReadFramesFinite
      <4>8. Cardinality(G) = Cardinality(F) + 1 /\ pos + 1 \notin F
        <5>1. pos + 1 \notin F
          BY <1>1, <4>7
        <5> QED BY <4>7, <5>1, FS_AddElement
      <4>9. /\ Len(entries[e].traces) = Cardinality(F)
            /\ \A q \in F : entries[e].traces[Cardinality({j \in F : j <= q})] = Resolved(q)
        BY <2>4, <3>1, <3>9 DEF Traces, LeakTrace
      <4>10. entries'[e].traces = more
        BY <2>4, <2>8 DEF Entry
      <4>11. x = Resolved(pos + 1)
        <5>1. r.addr \in reported <=>
                  r.addr \notin Vdso /\ \E j \in 1..pos : log[j].op = "m" /\ log[j].addr = r.addr
          BY DEF Inv, ReadInv, ModuleInv
        <5> QED BY <1>1, <5>1 DEF Resolved, Resolve, x
      <4> HIDE DEF a, F, G
      <4>12. ASSUME NEW q \in F
             PROVE  more[Cardinality({j \in G : j <= q})] = Resolved(q)
        <5>1. {j \in G : j <= q} = {j \in F : j <= q}
          BY <1>1, <4>7 DEF G
        <5>2. /\ IsFiniteSet({j \in F : j <= q})
              /\ Cardinality({j \in F : j <= q}) <= Cardinality(F)
          BY <4>7, FS_Subset
        <5>3. Cardinality({j \in F : j <= q}) # 0
          <6>1. q \in {j \in F : j <= q}
            BY <1>1, <4>7
          <6> QED BY <5>2, <6>1, FS_EmptySet
        <5>4. Cardinality({j \in F : j <= q}) \in Nat
          BY <5>2, FS_CardinalityType
        <5>5. Cardinality({j \in F : j <= q}) \in 1..Len(entries[e].traces)
          BY <4>7, <4>9, <5>2, <5>3, <5>4
        <5> QED BY <2>7, <4>9, <5>1, <5>5
      <4>13. more[Cardinality({j \in G : j <= pos + 1})] = Resolved(pos + 1)
        <5>0. \A j \in G : j <= pos + 1
          BY <1>1, <4>7 DEF G
        <5>1. {j \in G : j <= pos + 1} = G
          BY <5>0
        <5> QED BY <2>7, <4>8, <4>9, <4>11, <5>1
      <4>14. \A q \in G : more[Cardinality({j \in G : j <= q})] = Resolved(q) /\ Resolved(q)' = Resolved(q)
        <5>1. \A q \in G : q \in 1..(pos + 1) /\ (q \in F \/ q = pos + 1)
          BY <1>1, <4>7 DEF G
        <5> QED BY <3>q, <4>12, <4>13, <5>1
      <4>15. Len(more) = Cardinality(G)
        BY <2>7, <4>8, <4>9
      <4>16. LeakTrace(e, a)'
        BY <4>6, <4>10, <4>14, <4>15 DEF LeakTrace
      <4> QED BY <4>16 DEF a
    <3> QED BY <2>8, <3>7, <3>9 DEF Traces
  <2>14. ASSUME Unexpanded' PROVE Counts(at)'
    <3>1. Unexpanded /\ Counts(at)
      BY <1>2, <1>4, <2>14 DEF Unexpanded
    <3>2. \A i \in DOMAIN entries : at[i] \in 1..pos /\ log[at[i]].op = "a" /\ log[at[i]].addr = entries[i].key
      BY <1>2 DEF Positions
    <3>3. \A i \in DOMAIN entries : entries[i].key = alloc_ctx => i <= e
      BY <2>3, <3>1 DEF Found
    <3>4. \A i \in DOMAIN entries : i < e => at[i] < at[e]
      BY <1>2, <2>4 DEF Positions
    <3>5. \A b \in 1..pos : LastBlock(b) <=> b = c
      BY <1>1, <2>1 DEF LastBlock
    <3>6. at[e] <= c
      <4>1. at[e] \in 1..pos /\ IsBlock(log[at[e]])
        BY <2>4, <3>2 DEF IsBlock
      <4>2. \A k \in (c + 1)..pos : ~IsBlock(log[k])
        BY <1>1, <2>1 DEF LastBlock
      <4>3. at[e] \notin (c + 1)..pos
        BY <4>1, <4>2
      <4>4. c \in Nat /\ pos \in Nat
        BY <1>1, <2>1
      <4> QED BY <4>1, <4>3, <4>4
    <3>7. IsAbout(c, at[e])
      <4> SUFFICES ASSUME NEW k \in (at[e] + 1)..c, log[k].op = "a", log[k].addr = alloc_ctx
                   PROVE  FALSE
        BY <2>1, <2>4, <3>2, <3>6 DEF IsAbout
      <4>1. k \in 1..pos /\ k > at[e] /\ at[e] \in 1..pos
        BY <1>1, <2>4, <3>2
      <4>2. PICK i \in DOMAIN entries : at[i] = k
        BY <1>2, <4>1 DEF Positions
      <4>3. entries[i].key = alloc_ctx
        BY <3>2, <4>2
      <4>4. i <= e
        BY <3>3, <4>3
      <4>5. i = e \/ i < e
        BY <2>2, <2>4, <4>4
      <4> QED BY <3>4, <4>1, <4>2, <4>5
    <3>8. ASSUME NEW i \in DOMAIN entries, i # e PROVE ~IsAbout(c, at[i])
      <4> SUFFICES ASSUME IsAbout(c, at[i]) PROVE FALSE
        OBVIOUS
      <4>1. entries[i].key = alloc_ctx
        BY <2>1, <3>2 DEF IsAbout
      <4>2. i < e
        BY <2>2, <2>4, <3>3, <3>8, <4>1
      <4>3. at[e] \in (at[i] + 1)..c
        BY <2>4, <3>2, <3>4, <3>6, <4>2
      <4> QED BY <2>1, <2>4, <3>2, <4>3 DEF IsAbout
    <3>9. ASSUME NEW i \in DOMAIN entries, i # e, entries'[i].key # NULL
          PROVE  Len(entries'[i].traces) = Cardinality(FramesAbout(at[i])')
      <4>1. FramesAbout(at[i])' = FramesAbout(at[i])
        BY <3>2, <3>5, <3>8, <3>9, AboutNext
      <4> QED BY <2>8, <3>1, <3>9, <4>1 DEF Counts
    <3>10. Len(entries'[e].traces) = Cardinality(FramesAbout(at[e])')
      <4>1. FramesAbout(at[e])' = FramesAbout(at[e]) \cup {pos + 1}
        BY <1>1, <2>1, <2>4, <3>2, <3>7, AboutNext
      <4>2. Cardinality(FramesAbout(at[e]) \cup {pos + 1}) = Cardinality(FramesAbout(at[e])) + 1
        BY AboutNext, FS_AddElement
      <4>3. Len(entries[e].traces) = Cardinality(FramesAbout(at[e]))
        BY <1>7, <2>4, <3>1 DEF Counts
      <4>4. entries'[e].traces = more
        BY <2>4, <2>8 DEF Entry
      <4> QED BY <2>7, <4>1, <4>2, <4>3, <4>4
    <3> QED BY <2>8, <3>9, <3>10 DEF Counts
  <2> QED BY <1>5, <2>9, <2>10, <2>11, <2>12, <2>13, <2>14 DEF ReadInv, TraceInv
<1> QED BY <1>6, <1>7

\* An 'a' or an 'f' is the block of the frames that follow.
LEMMA BlockContext ==
  ASSUME Inv, Reads, IsBlock(log[pos + 1]), alloc_ctx' = log[pos + 1].addr,
         UNCHANGED <<regions, reported, status>>,
         log[pos + 1].op = "f" =>
             \E k \in 1..pos : log[k].op = "a" /\ log[k].addr = log[pos + 1].addr
  PROVE  ContextInv' /\ ModuleInv'
<1>1. /\ pos \in Nat /\ pos' = pos + 1 /\ log' = log
      /\ \A i \in 1..pos : i \in 1..(pos + 1)
      /\ \A i \in 1..(pos + 1) : i \in 1..pos \/ i = pos + 1
  BY ReadsNext DEF Reads
<1>2. pos + 1 \in 1..(pos + 1) /\ \A i \in 1..pos : pos + 1 > i
  BY <1>1
<1>3. \A c : LastBlock(c)' <=> /\ IsBlock(log[c])
                               /\ \A j \in 1..(pos + 1) : j > c => ~IsBlock(log[j])
  BY <1>1 DEF LastBlock, IsBlock
<1>4. \A c \in 1..(pos + 1) : LastBlock(c)' <=> c = pos + 1
  BY <1>1, <1>2, <1>3
<1>5. ContextInv'
  <2>1. ~UnknownBlock
    BY DEF Inv, ReadInv, ContextInv, Reads
  <2>2. ~UnknownBlock'
    BY <1>1, <1>2, <2>1 DEF UnknownBlock
  <2> QED BY <1>1, <1>2, <1>4, <2>2 DEF ContextInv
<1>6. {j \in 1..(pos + 1) : log[j].op = "r"} = {j \in 1..pos : log[j].op = "r"}
  BY <1>1 DEF IsBlock
<1>7. \A m : m \in reported <=>
          m \notin Vdso /\ \E j \in 1..(pos + 1) : log[j].op = "m" /\ log[j].addr = m
  BY <1>1 DEF Inv, ReadInv, ModuleInv, IsBlock
<1>8. ModuleInv'
  BY <1>1, <1>6, <1>7 DEF Inv, ReadInv, ModuleInv
<1> QED BY <1>5, <1>8

LEMMA LeaksFinite ==
  ASSUME entries \in Seq(Entry)
  PROVE  IsFiniteSet(Leaks) /\ Cardinality(Leaks) \in Nat /\ Leaks \subseteq DOMAIN entries
<1>1. Leaks \subseteq 1..Len(entries) /\ Len(entries) \in Nat /\ DOMAIN entries = 1..Len(entries)
  BY LenProperties DEF Leaks
<1>2. IsFiniteSet(1..Len(entries))
  BY <1>1, FS_Interval
<1>3. IsFiniteSet(Leaks)
  BY <1>1, <1>2, FS_Subset
<1> QED BY <1>1, <1>3, FS_CardinalityType

\* A free of a block that has no entry ends the process.
LEMMA UnknownReadInv ==
  ASSUME Inv, Reads, ParseFree(log[pos + 1]), FindEntry(log[pos + 1].addr) = 0,
         log[pos + 1].addr \in Keys \ {NULL}
  PROVE  ReadInv'
<1> DEFINE r == log[pos + 1]
<1>1. /\ pos \in Nat /\ r.op = "f" /\ pos' = pos + 1 /\ log' = log
      /\ \A i \in 1..pos : i \in 1..(pos + 1)
      /\ \A i \in 1..(pos + 1) : i \in 1..pos \/ i = pos + 1
      /\ \A k \in 1..pos : Unfreed(pos, k)' <=> Unfreed(pos, k) /\ ~(log[k].addr = r.addr)
      /\ \A k \in 1..(pos + 1) : k = pos + 1 => ~Unfreed(pos, k)'
      /\ status = "reading" /\ pos + 1 \in 1..Len(log) /\ Len(log) \in Nat
  BY ReadsNext DEF Reads, ParseFree
<1>2. /\ UNCHANGED <<entries, table, alloc_ctx, stats, regions, reported>>
      /\ status' = "undefined"
  BY DEF ParseFree, Undefined
<1>3. PICK at : /\ Positions(at)
                /\ Unexpanded => Counts(at)
                /\ Unexpanded /\ status # "assert" => Traces(at)
  BY DEF Inv, ReadInv, TraceInv
<1>4. \A i \in DOMAIN entries : entries[i].key # r.addr
  BY <1>1, FindEntryFinds, LenProperties DEF Found, Inv, ReadInv, ReaderTypes
<1>5. ReaderTypes' /\ TableInv'
  BY <1>1, <1>2, TableStays DEF Inv, ReadInv, ReaderTypes
<1>6. LeakInv'
  BY <1>1, <1>2 DEF Inv, ReadInv, LeakInv
<1>7. ExactInv'
  BY <1>1, <1>2, <1>4 DEF Inv, ReadInv, ExactInv, Unexpanded
<1>8. StatsInv'
  <2> SUFFICES ASSUME Retracting' PROVE FALSE
    BY DEF StatsInv
  <2>1. PICK k \in 1..pos : log[k].addr = r.addr /\ Unfreed(pos, k)
    BY <1>1, RetractingBefore
  <2> QED BY <1>3, <1>4, <2>1 DEF Unfreed, Positions
<1>9. ContextInv'
  BY <1>2 DEF ContextInv
<1>10. ModuleInv'
  <2>1. {j \in 1..(pos + 1) : log[j].op = "r"} = {j \in 1..pos : log[j].op = "r"}
    BY <1>1
  <2>2. \A m : m \in reported <=>
            m \notin Vdso /\ \E j \in 1..(pos + 1) : log[j].op = "m" /\ log[j].addr = m
    BY <1>1 DEF Inv, ReadInv, ModuleInv
  <2> QED BY <1>1, <1>2, <2>1, <2>2 DEF Inv, ReadInv, ModuleInv
<1>11. TraceInv'
  <2>1. Positions(at)'
    BY <1>1, <1>2, <1>3, PositionsStay
  <2>2. Unexpanded' => Traces(at)'
    <3> SUFFICES ASSUME Unexpanded', NEW i \in DOMAIN entries, entries[i].is_leaking
                 PROVE  LeakTrace(i, at[i])'
      BY <1>2 DEF Traces
    <3>1. Traces(at)
      BY <1>1, <1>2, <1>3 DEF Unexpanded
    <3> QED BY <1>1, <1>2, <1>3, <3>1, TracesStay DEF Traces
  <2>3. Unexpanded' => Counts(at)'
    BY <1>1, <1>2, <1>3, CountsStay DEF Unexpanded
  <2> QED BY <2>1, <2>2, <2>3 DEF TraceInv
<1> QED BY <1>5, <1>6, <1>7, <1>8, <1>9, <1>10, <1>11 DEF ReadInv

\* A free marks the latest entry of the block.
LEMMA FreeReadInv ==
  ASSUME Inv, Reads, ParseFree(log[pos + 1])
  PROVE  ReadInv'
<1> DEFINE r == log[pos + 1]
<1>1. /\ pos \in Nat /\ RecordOK(pos + 1) /\ r.op = "f" /\ pos' = pos + 1 /\ log' = log
      /\ \A i \in 1..pos : i \in 1..(pos + 1)
      /\ \A i \in 1..(pos + 1) : i \in 1..pos \/ i = pos + 1
      /\ pos + 1 \in 1..(pos + 1)
      /\ \A k \in 1..pos : Unfreed(pos, k)' <=> Unfreed(pos, k) /\ ~(log[k].addr = r.addr)
      /\ \A k \in 1..(pos + 1) : k = pos + 1 => ~Unfreed(pos, k)'
      /\ status = "reading" /\ pos + 1 \in 1..Len(log) /\ Len(log) \in Nat
  BY ReadsNext DEF Reads, ParseFree
<1>2. r.addr \in Keys \ {NULL}
  BY <1>1, ProfilerAssumption DEF RecordOK
<1>4. /\ entries \in Seq(Entry) /\ DOMAIN entries = 1..Len(entries) /\ Len(entries) \in Nat
      /\ ReaderTypes
  BY LenProperties DEF Inv, ReadInv, ReaderTypes
<1>3. PICK at : /\ Positions(at)
                /\ Unexpanded => Counts(at)
                /\ Unexpanded /\ status # "assert" => Traces(at)
  BY DEF Inv, ReadInv, TraceInv
<1>u. CASE FindEntry(r.addr) = 0
  BY <1>1, <1>2, <1>u, UnknownReadInv
<1> SUFFICES ASSUME FindEntry(r.addr) # 0 PROVE ReadInv'
  BY <1>u
<1>5. PICK e \in DOMAIN entries : Found(e, r.addr)
  <2>1. \E i \in DOMAIN entries : entries[i].key = r.addr
    BY <1>1, <1>2, <1>4, FindNothing DEF FindEntry, Inv, ReadInv, TableInv
  <2>2. Found(FindEntry(r.addr), r.addr)
    BY <1>1, <1>2, <2>1, FindEntryFinds
  <2> QED BY <2>2 DEF Found
<1>6. e # 0 /\ entries[e] \in Entry /\ entries[e].key = r.addr /\ FindEntry(r.addr) = e
  BY <1>4, <1>5 DEF Found
<1>7. /\ stats' = [stats EXCEPT !.free_count = @ + 1, !.total = @ - 0]
      /\ alloc_ctx' = r.addr
      /\ entries' = [entries EXCEPT ![e].is_leaking = FALSE]
      /\ UNCHANGED <<table, regions, reported, status>>
  BY <1>1, <1>6 DEF ParseFree, AllocSize
<1>8. /\ DOMAIN entries' = DOMAIN entries /\ entries' \in Seq(Entry)
      /\ \A i \in DOMAIN entries : i # e => entries'[i] = entries[i]
      /\ ~entries'[e].is_leaking /\ entries'[e].traces = entries[e].traces
      /\ \A i \in DOMAIN entries : entries'[i].key = entries[i].key
  <2>1. entries' = [entries EXCEPT ![e] = [entries[e] EXCEPT !.is_leaking = FALSE]]
    BY <1>7
  <2>2. [entries[e] EXCEPT !.is_leaking = FALSE] \in Entry
    BY <1>6 DEF Entry
  <2>3. entries' \in Seq(Entry)
    BY <1>4, <2>1, <2>2, ExceptSeq
  <2>4. /\ DOMAIN entries' = DOMAIN entries
        /\ \A i \in DOMAIN entries : i # e => entries'[i] = entries[i]
        /\ entries'[e] = [entries[e] EXCEPT !.is_leaking = FALSE]
    BY <1>4, <2>1
  <2>5. ~entries'[e].is_leaking /\ entries'[e].traces = entries[e].traces /\ entries'[e].key = entries[e].key
    BY <1>6, <2>4 DEF Entry
  <2> QED BY <2>3, <2>4, <2>5
<1>9. \A i \in DOMAIN entries : entries'[i].is_leaking <=> i # e /\ entries[i].is_leaking
  BY <1>8
<1>10. Unexpanded /\ Retracting' => entries[e].is_leaking
  <2> SUFFICES ASSUME Unexpanded, Retracting' PROVE entries[e].is_leaking
    OBVIOUS
  <2>0. PICK k \in 1..pos : log[k].addr = r.addr /\ Unfreed(pos, k)
    BY <1>1, RetractingBefore
  <2>1. PICK i \in DOMAIN entries : entries[i].is_leaking /\ entries[i].key = r.addr
    BY <2>0 DEF Inv, ReadInv, LeakInv
  <2>2. e <= i
    BY <1>2, <1>6, <2>1 DEF Inv, ReadInv, ExactInv
  <2>3. i <= e
    BY <1>5, <2>1 DEF Found
  <2> QED BY <1>4, <2>1, <2>2, <2>3
<1>11. ReaderTypes'
  <2>1. stats' \in Stats
    <3>1. stats \in Stats /\ stats.free_count + 1 \in Int /\ stats.total - 0 \in Int
      BY <1>4 DEF ReaderTypes, Stats
    <3>2. ASSUME NEW f \in Int, NEW t \in Int
          PROVE  [stats EXCEPT !.free_count = f, !.total = t] \in Stats
      BY <3>1 DEF Stats
    <3> QED BY <1>7, <3>1, <3>2
  <2> QED BY <1>1, <1>2, <1>4, <1>7, <1>8, <2>1 DEF ReaderTypes
<1>12. TableInv'
  BY <1>1, <1>7, <1>8, TableStays
<1>13. LeakInv'
  <2> SUFFICES ASSUME NEW q \in 1..(pos + 1), Unfreed(pos, q)'
               PROVE  \E i \in DOMAIN entries' : entries'[i].is_leaking /\ entries'[i].key = log'[q].addr
    BY <1>1 DEF LeakInv
  <2>1. q \in 1..pos /\ Unfreed(pos, q) /\ log[q].addr # r.addr
    BY <1>1
  <2>2. PICK i \in DOMAIN entries : entries[i].is_leaking /\ entries[i].key = log[q].addr
    BY <2>1 DEF Inv, ReadInv, LeakInv
  <2> QED BY <1>1, <1>6, <1>8, <1>9, <2>1, <2>2
<1>14. ExactInv'
  <2> SUFFICES ASSUME Unexpanded, NEW i \in DOMAIN entries, i # e,
                      entries[i].is_leaking, entries[i].key # NULL
               PROVE  /\ \E q \in 1..(pos + 1) : log[q].addr = entries[i].key /\ Unfreed(pos, q)'
                      /\ \A j \in DOMAIN entries : entries[j].key = entries[i].key => j <= i
    BY <1>1, <1>7, <1>8, <1>9 DEF ExactInv, Unexpanded
  <2>1. /\ \E q \in 1..pos : log[q].addr = entries[i].key /\ Unfreed(pos, q)
        /\ \A j \in DOMAIN entries : entries[j].key = entries[i].key => j <= i
    BY DEF Inv, ReadInv, ExactInv
  <2>2. entries[i].key # r.addr
    <3> SUFFICES ASSUME entries[i].key = r.addr PROVE FALSE
      OBVIOUS
    <3>1. e <= i
      BY <1>6, <2>1
    <3>2. i <= e
      BY <1>5 DEF Found
    <3> QED BY <1>4, <3>1, <3>2
  <2> QED BY <1>1, <2>1, <2>2
<1>15. StatsInv'
  <2> SUFFICES ASSUME Unexpanded, Retracting'
               PROVE  /\ stats'.alloc_count - stats'.free_count = Cardinality(Leaks')
                      /\ stats'.total = stats'.alloc_count
    BY <1>7 DEF StatsInv, Unexpanded
  <2>1. Leaks' = Leaks \ {e} /\ e \in Leaks
    BY <1>8, <1>9, <1>10 DEF Leaks
  <2>2. IsFiniteSet(Leaks) /\ Cardinality(Leaks) \in Nat
    BY <1>4, LeaksFinite
  <2>3. Cardinality(Leaks \ {e}) = Cardinality(Leaks) - 1
    BY <2>1, <2>2, FS_RemoveElement
  <2>4. stats \in Stats /\ /\ stats.alloc_count - stats.free_count = Cardinality(Leaks)
                           /\ stats.total = stats.alloc_count
    BY <1>4, RetractingBefore DEF ReaderTypes, Inv, ReadInv, StatsInv
  <2>5. /\ stats'.alloc_count = stats.alloc_count /\ stats'.free_count = stats.free_count + 1
        /\ stats'.total = stats.total
    BY <1>7, <2>4 DEF Stats
  <2>6. stats.alloc_count \in Int /\ stats.free_count \in Int
    BY <2>4 DEF Stats
  <2> HIDE DEF Leaks
  <2> QED BY <2>1, <2>2, <2>3, <2>4, <2>5, <2>6
<1>16. ContextInv' /\ ModuleInv'
  <2>1. at[e] \in 1..pos /\ log[at[e]].op = "a" /\ log[at[e]].addr = r.addr
    BY <1>3, <1>6 DEF Positions
  <2> QED BY <1>1, <1>7, <2>1, BlockContext DEF IsBlock
<1>17. TraceInv'
  <2>2. Positions(at)'
    BY <1>1, <1>3, <1>8, PositionsStay
  <2>3. ASSUME Unexpanded' PROVE Traces(at)'
    <3>1. Unexpanded /\ Traces(at)
      BY <1>1, <1>3, <1>7, <2>3 DEF Unexpanded
    <3>2. \A i \in DOMAIN entries : at[i] \in 1..pos
      BY <1>3 DEF Positions
    <3>3. \A a \in 1..pos : ReadFrames(a)' = ReadFrames(a)
      BY <1>1, FramesNext
    <3>4. \A q : Resolved(q)' = Resolved(q)
      BY <1>1 DEF Resolved
    <3>5. ASSUME NEW i \in DOMAIN entries, i # e, entries[i].is_leaking
          PROVE  LeakTrace(i, at[i])'
      <4>1. ReadFrames(at[i])' = ReadFrames(at[i])
        BY <3>2, <3>3
      <4>2. LeakTrace(i, at[i])
        BY <3>1, <3>5 DEF Traces
      <4> QED BY <1>8, <3>4, <3>5, <4>1, <4>2 DEF LeakTrace
    <3> QED BY <1>8, <1>9, <3>5 DEF Traces
  <2>4. Unexpanded' => Counts(at)'
    <3>1. \A i \in DOMAIN entries : entries'[i].traces = entries[i].traces
      BY <1>8
    <3> QED BY <1>1, <1>3, <1>7, <1>8, <3>1, CountsStay DEF Unexpanded
  <2> QED BY <2>2, <2>3, <2>4 DEF TraceInv
<1> QED BY <1>11, <1>12, <1>13, <1>14, <1>15, <1>16, <1>17 DEF ReadInv

\* An addition at most doubles the buckets.
LEMMA AddNum ==
  ASSUME NEW ents, NEW tbl, TableOK(tbl, ents), NEW key, NEW id,
         HashAdd(tbl, key, id).num = HASH_INITIAL_NUM_BUCKETS
  PROVE  tbl.num = HASH_INITIAL_NUM_BUCKETS
<1> DEFINE added == [tbl EXCEPT !.elems = @ \cup {HeadOf(tbl, key, id)}]
<1>1. added.num = tbl.num
  BY DEF TableOK, IsTable
<1> HIDE DEF added
<1>2. HashExpandBuckets(added).num = 2 * added.num
  BY DEF HashExpandBuckets
<1>3. HashAdd(tbl, key, id).num \in {tbl.num, 2 * tbl.num}
  BY <1>1, <1>2 DEF HashAdd, added
<1>4. tbl.num \in Nat /\ tbl.num >= HASH_INITIAL_NUM_BUCKETS /\ HASH_INITIAL_NUM_BUCKETS \in Nat \ {0}
  BY UthashAssumption DEF TableOK
<1> QED BY <1>3, <1>4

\* An allocation adds an entry, in front of older ones of its address.
LEMMA AllocReadInv ==
  ASSUME Inv, Reads, ParseAlloc(log[pos + 1])
  PROVE  ReadInv'
<1> DEFINE r == log[pos + 1]
           new == [key |-> r.addr, is_leaking |-> TRUE, traces |-> <<>>]
<1>0. PICK n \in Nat : n = Len(entries)
  BY LenProperties DEF Inv, ReadInv, ReaderTypes
<1>1. /\ pos \in Nat /\ RecordOK(pos + 1) /\ r.op = "a" /\ pos' = pos + 1 /\ log' = log
      /\ \A i \in 1..pos : i \in 1..(pos + 1) /\ i < pos + 1
      /\ \A i \in 1..(pos + 1) : i \in 1..pos \/ i = pos + 1
      /\ pos + 1 \in 1..(pos + 1)
      /\ \A k \in 1..pos : Unfreed(pos, k)' <=> Unfreed(pos, k)
      /\ \A k \in 1..(pos + 1) : k = pos + 1 => Unfreed(pos, k)'
      /\ status = "reading" /\ pos + 1 \in 1..Len(log) /\ Len(log) \in Nat
  BY ReadsNext DEF Reads, ParseAlloc
<1>2. r.addr \in Keys
  BY <1>1 DEF RecordOK
<1>3. r.addr # NULL => \A k \in 1..pos : log[k].addr = r.addr => ~Unfreed(pos, k)
  BY <1>1 DEF RecordOK
<1>4. /\ entries \in Seq(Entry) /\ DOMAIN entries = 1..n /\ ReaderTypes
      /\ TableOK(table, entries)
  BY <1>0, <1>1, LenProperties DEF Inv, ReadInv, ReaderTypes, TableInv
<1>5. new \in Entry /\ new.key = r.addr /\ new.is_leaking /\ new.traces = <<>>
  BY <1>2, EmptySeq DEF Entry
<1>6. /\ stats' = [stats EXCEPT !.alloc_count = @ + 1, !.total = @ + 1]
      /\ alloc_ctx' = r.addr
      /\ entries' = Append(entries, new)
      /\ table' = HashAdd(table, r.addr, n + 1)
      /\ UNCHANGED <<regions, reported, status>>
  BY <1>0, <1>1 DEF ParseAlloc, AllocSize, AddEntry
<1> HIDE DEF new
<1>7. /\ entries' \in Seq(Entry) /\ DOMAIN entries' = 1..(n + 1) /\ Len(entries') = n + 1
      /\ entries'[n + 1] = new /\ \A i \in 1..n : entries'[i] = entries[i]
  BY <1>0, <1>4, <1>5, <1>6, AppendProperties, LenProperties
<1>8. /\ \A i \in 1..n : i \in 1..(n + 1) /\ i < n + 1 /\ i # n + 1
      /\ \A i \in 1..(n + 1) : (i \in 1..n \/ i = n + 1) /\ i <= n + 1
      /\ n + 1 \in 1..(n + 1)
  OBVIOUS
<1>9. Unexpanded' => Unexpanded
  BY <1>4, <1>6, AddNum DEF Unexpanded
<1>10. ReaderTypes'
  <2>1. stats' \in Stats
    <3>1. stats \in Stats /\ stats.alloc_count + 1 \in Int /\ stats.total + 1 \in Int
      BY <1>4 DEF ReaderTypes, Stats
    <3>2. ASSUME NEW a \in Int, NEW t \in Int
          PROVE  [stats EXCEPT !.alloc_count = a, !.total = t] \in Stats
      BY <3>1 DEF Stats
    <3> QED BY <1>6, <3>1, <3>2
  <2> QED BY <1>1, <1>2, <1>4, <1>6, <1>7, <2>1 DEF ReaderTypes
<1>11. TableInv'
  <2>1. TableOK(HashAdd(table, new.key, Len(entries) + 1), Append(entries, new))
    BY <1>4, <1>5, AddTableOK
  <2> QED BY <1>0, <1>1, <1>5, <1>6, <2>1 DEF TableInv
<1>12. LeakInv'
  <2> SUFFICES ASSUME NEW q \in 1..(pos + 1), Unfreed(pos, q)'
               PROVE  \E i \in DOMAIN entries' : entries'[i].is_leaking /\ entries'[i].key = log[q].addr
    BY <1>1 DEF LeakInv
  <2>1. CASE q \in 1..pos
    <3>1. PICK i \in 1..n : entries[i].is_leaking /\ entries[i].key = log[q].addr
      BY <1>1, <1>4, <2>1 DEF Inv, ReadInv, LeakInv
    <3> QED BY <1>7, <1>8, <3>1
  <2>2. CASE q = pos + 1
    BY <1>5, <1>7, <1>8, <2>2
  <2> QED BY <1>1, <2>1, <2>2
<1>13. ExactInv'
  <2> SUFFICES ASSUME Unexpanded, NEW i \in 1..(n + 1),
                      entries'[i].is_leaking, entries'[i].key # NULL
               PROVE  /\ \E q \in 1..(pos + 1) : log[q].addr = entries'[i].key /\ Unfreed(pos, q)'
                      /\ \A j \in 1..(n + 1) : entries'[j].key = entries'[i].key => j <= i
    BY <1>1, <1>7, <1>9 DEF ExactInv
  <2>1. CASE i = n + 1
    BY <1>1, <1>5, <1>7, <1>8, <2>1
  <2>2. CASE i \in 1..n
    <3>1. /\ \E q \in 1..pos : log[q].addr = entries[i].key /\ Unfreed(pos, q)
          /\ \A j \in 1..n : entries[j].key = entries[i].key => j <= i
      BY <1>4, <1>7, <2>2 DEF Inv, ReadInv, ExactInv
    <3>2. entries[i].key # r.addr
      BY <1>3, <1>7, <2>2, <3>1
    <3> QED BY <1>1, <1>5, <1>7, <1>8, <2>2, <3>1, <3>2
  <2> QED BY <1>8, <2>1, <2>2
<1>14. StatsInv'
  <2> SUFFICES ASSUME Unexpanded, Retracting
               PROVE  /\ stats'.alloc_count - stats'.free_count = Cardinality(Leaks')
                      /\ stats'.total = stats'.alloc_count
    BY <1>9, RetractingBefore DEF StatsInv
  <2>1. Leaks' = Leaks \cup {n + 1} /\ n + 1 \notin Leaks
    BY <1>4, <1>5, <1>7, <1>8 DEF Leaks
  <2>2. IsFiniteSet(Leaks) /\ Cardinality(Leaks) \in Nat
    BY <1>4, LeaksFinite
  <2>3. Cardinality(Leaks \cup {n + 1}) = Cardinality(Leaks) + 1
    BY <2>1, <2>2, FS_AddElement
  <2>4. stats \in Stats /\ /\ stats.alloc_count - stats.free_count = Cardinality(Leaks)
                           /\ stats.total = stats.alloc_count
    BY <1>4 DEF ReaderTypes, Inv, ReadInv, StatsInv
  <2>5. /\ stats'.alloc_count = stats.alloc_count + 1 /\ stats'.free_count = stats.free_count
        /\ stats'.total = stats.total + 1
    BY <1>6, <2>4 DEF Stats
  <2>6. stats.alloc_count \in Int /\ stats.free_count \in Int
    BY <2>4 DEF Stats
  <2> HIDE DEF Leaks
  <2> QED BY <2>1, <2>2, <2>3, <2>4, <2>5, <2>6
<1>15. ContextInv' /\ ModuleInv'
  BY <1>1, <1>6, BlockContext DEF IsBlock
<1>16. TraceInv'
  <2>1. PICK at : /\ Positions(at)
                  /\ Unexpanded => Counts(at)
                  /\ Unexpanded /\ status # "assert" => Traces(at)
    BY DEF Inv, ReadInv, TraceInv
  <2>2. PICK to \in [1..(n + 1) -> 1..(pos + 1)] :
             /\ \A i \in 1..n : at[i] \in 1..pos /\ to[i] = at[i] /\ to[i] < pos + 1
             /\ to[n + 1] = pos + 1
    <3> DEFINE f == [i \in 1..(n + 1) |-> IF i = n + 1 THEN pos + 1 ELSE at[i]]
    <3>1. /\ \A i \in 1..n : at[i] \in 1..pos /\ f[i] = at[i] /\ f[i] < pos + 1
          /\ f[n + 1] = pos + 1
          /\ f \in [1..(n + 1) -> 1..(pos + 1)]
      BY <1>1, <1>4, <1>8, <2>1 DEF Positions
    <3> QED BY <3>1
  <2>3. Positions(to)'
    <3>1. to \in [DOMAIN entries' -> 1..pos']
      BY <1>1, <1>7, <2>2
    <3>2. \A i, j \in 1..(n + 1) : i < j => to[i] < to[j]
      <4> SUFFICES ASSUME NEW i \in 1..(n + 1), NEW j \in 1..(n + 1), i < j PROVE to[i] < to[j]
        OBVIOUS
      <4>1. i \in 1..n
        OBVIOUS
      <4>2. CASE j \in 1..n
        BY <1>4, <2>1, <2>2, <4>1, <4>2 DEF Positions
      <4>3. CASE j = n + 1
        BY <2>2, <4>1, <4>3
      <4> QED BY <1>8, <4>2, <4>3
    <3>3. \A i \in 1..(n + 1) : log[to[i]].op = "a" /\ log[to[i]].addr = entries'[i].key
      <4>1. \A i \in 1..n : log[at[i]].op = "a" /\ log[at[i]].addr = entries[i].key
        BY <1>4, <2>1 DEF Positions
      <4> QED BY <1>1, <1>5, <1>7, <1>8, <2>2, <4>1
    <3>4. \A p \in 1..(pos + 1) : log[p].op = "a" => \E i \in 1..(n + 1) : to[i] = p
      <4> SUFFICES ASSUME NEW p \in 1..(pos + 1), log[p].op = "a" PROVE \E i \in 1..(n + 1) : to[i] = p
        OBVIOUS
      <4>1. CASE p \in 1..pos
        <5>1. PICK i \in 1..n : at[i] = p
          BY <1>4, <2>1, <4>1 DEF Positions
        <5> QED BY <1>8, <2>2, <5>1
      <4>2. CASE p = pos + 1
        BY <1>8, <2>2, <4>2
      <4> QED BY <1>1, <4>1, <4>2
    <3> QED BY <1>1, <1>7, <3>1, <3>2, <3>3, <3>4 DEF Positions
  <2>4. ASSUME Unexpanded' PROVE Traces(to)'
    <3>1. Unexpanded /\ Traces(at)
      BY <1>1, <1>9, <2>1, <2>4
    <3>3. \A a \in 1..pos : ReadFrames(a)' = ReadFrames(a)
      BY <1>1, FramesNext
    <3>4. \A q : Resolved(q)' = Resolved(q)
      BY <1>1 DEF Resolved
    <3>5. ASSUME NEW i \in 1..n, entries[i].is_leaking
          PROVE  LeakTrace(i, at[i])'
      <4>1. ReadFrames(at[i])' = ReadFrames(at[i])
        BY <2>2, <3>3
      <4>2. LeakTrace(i, at[i])
        BY <1>4, <3>1, <3>5 DEF Traces
      <4> QED BY <1>7, <3>4, <4>1, <4>2 DEF LeakTrace
    <3>7. ASSUME NEW i \in 1..(n + 1), NEW a \in 1..(pos + 1), i = n + 1, a = pos + 1
          PROVE  LeakTrace(i, a)'
      <4>1. ReadFrames(a)' = {}
        BY <3>7, FramesNext
      <4>2. Cardinality({}) = 0 /\ Len(<<>>) = 0
        BY FS_EmptySet, EmptySeq
      <4> QED BY <1>5, <1>7, <3>7, <4>1, <4>2 DEF LeakTrace
    <3>8. ASSUME NEW i \in 1..(n + 1), entries'[i].is_leaking
          PROVE  LeakTrace(i, to[i])'
      <4>1. PICK a \in 1..(pos + 1) : a = to[i]
        BY <2>2
      <4>2. LeakTrace(i, a)'
        <5>1. CASE i \in 1..n
          BY <1>7, <2>2, <3>5, <3>8, <4>1, <5>1
        <5>2. CASE i = n + 1
          BY <1>5, <1>7, <2>2, <3>7, <4>1, <5>2
        <5> QED BY <1>8, <5>1, <5>2
      <4> QED BY <4>1, <4>2
    <3> QED BY <1>7, <3>8 DEF Traces
  <2>5. ASSUME Unexpanded' PROVE Counts(to)'
    <3>1. Unexpanded /\ Counts(at)
      BY <1>9, <2>1, <2>5
    <3>2. ASSUME NEW i \in 1..n, entries'[i].key # NULL
          PROVE  Len(entries'[i].traces) = Cardinality(FramesAbout(at[i])')
      <4>1. FramesAbout(at[i])' = FramesAbout(at[i])
        BY <1>1, <2>2, AboutNext
      <4> QED BY <1>4, <1>7, <3>1, <3>2, <4>1 DEF Counts
    <3>3. ASSUME NEW a \in 1..(pos + 1), a = pos + 1
          PROVE  Len(entries'[n + 1].traces) = Cardinality(FramesAbout(a)')
      <4>1. FramesAbout(a)' = {}
        BY <3>3, AboutNext
      <4> QED BY <1>5, <1>7, <4>1, FS_EmptySet, EmptySeq
    <3>4. ASSUME NEW i \in 1..(n + 1), entries'[i].key # NULL
          PROVE  Len(entries'[i].traces) = Cardinality(FramesAbout(to[i])')
      <4>1. PICK a \in 1..(pos + 1) : a = to[i]
        BY <2>2
      <4>2. Len(entries'[i].traces) = Cardinality(FramesAbout(a)')
        BY <1>8, <2>2, <3>2, <3>3, <3>4, <4>1
      <4> QED BY <4>1, <4>2
    <3> QED BY <1>7, <3>4 DEF Counts
  <2> QED BY <2>3, <2>4, <2>5 DEF TraceInv
<1> QED BY <1>10, <1>11, <1>12, <1>13, <1>14, <1>15, <1>16 DEF ReadInv

\* A step that reads nothing and adds no entry.
LEMMA NothingRead ==
  ASSUME Inv, UNCHANGED <<log, closed, heap, pos, entries, alloc_ctx, stats, regions, reported>>,
         table'.num = table.num, status' = status \/ status = "reading",
         ReaderTypes', TableInv'
  PROVE  Inv'
<1>1. LogInv'
  <2>1. \A i : RecordOK(i)' <=> RecordOK(i)
    BY DEF RecordOK, Unfreed, IsBlock
  <2> QED BY <2>1 DEF Inv, LogInv
<1>2. \A k : Unfreed(pos, k)' <=> Unfreed(pos, k)
  BY DEF Unfreed
<1>3. LeakInv' /\ ExactInv'
  BY <1>2 DEF Inv, ReadInv, LeakInv, ExactInv, Unexpanded
<1>4. StatsInv'
  <2>1. Retracting' <=> Retracting
    BY DEF Retracting, Unfreed
  <2> QED BY <2>1 DEF Inv, ReadInv, StatsInv, Unexpanded, Leaks
<1>5. ContextInv' /\ ModuleInv'
  <2>1. \A c : (LastBlock(c)' <=> LastBlock(c)) /\ (IsBlock(log[c])' <=> IsBlock(log[c]))
    BY DEF LastBlock, IsBlock
  <2>2. UnknownBlock' <=> UnknownBlock
    BY DEF UnknownBlock
  <2> QED BY <2>1, <2>2 DEF Inv, ReadInv, ContextInv, ModuleInv
<1>6. TraceInv'
  <2>1. PICK at : /\ Positions(at)
                  /\ Unexpanded => Counts(at)
                  /\ Unexpanded /\ status # "assert" => Traces(at)
    BY DEF Inv, ReadInv, TraceInv
  <2>2. Positions(at)'
    BY <2>1 DEF Positions
  <2>3. \A a : ReadFrames(a)' = ReadFrames(a)
    BY DEF ReadFrames, IsOwnerOf, IsBlock
  <2>4. \A q : Resolved(q)' = Resolved(q)
    BY DEF Resolved
  <2>5. \A i, a : LeakTrace(i, a)' <=> LeakTrace(i, a)
    BY <2>3, <2>4 DEF LeakTrace
  <2>6. Unexpanded' /\ status' # "assert" => Traces(at)'
    BY <2>1, <2>5 DEF Traces, Unexpanded
  <2>7. \A a : FramesAbout(a)' = FramesAbout(a)
    BY DEF FramesAbout, IsOwnerOf, IsBlock, IsAbout
  <2>8. Unexpanded' => Counts(at)'
    BY <2>1, <2>7 DEF Counts, Unexpanded
  <2> QED BY <2>2, <2>6, <2>8 DEF TraceInv
<1> QED BY <1>1, <1>3, <1>4, <1>5, <1>6 DEF Inv, ReadInv

LEMMA ReportInv == Inv /\ Report /\ UNCHANGED heap => Inv'
<1> SUFFICES ASSUME Inv, Report, UNCHANGED heap PROVE Inv'
  OBVIOUS
<1>1. /\ UNCHANGED <<log, closed, heap, pos, entries, alloc_ctx, stats, regions, reported>>
      /\ status = "reading" /\ status' = "done" /\ pos = Len(log) /\ closed
      /\ table' = HashDelete(table, DOMAIN entries)
  BY DEF Report
<1>2. TableOK(table, entries)
  BY <1>1 DEF Inv, ReadInv, TableInv
<1>3. table'.num = table.num /\ table'.elems = {e \in table.elems : e.id \notin DOMAIN entries}
  BY <1>1, <1>2 DEF HashDelete, TableOK, IsTable
<1>4. table'.elems = {}
  BY <1>2, <1>3 DEF TableOK, ElementOK
<1>5. ReaderTypes'
  BY <1>1 DEF Inv, ReadInv, ReaderTypes
<1>6. TableInv'
  BY <1>1, <1>2, <1>3, <1>4 DEF TableInv, TableOK
<1> QED BY <1>1, <1>3, <1>5, <1>6, NothingRead

LEMMA StutterInv == Inv /\ UNCHANGED vars => Inv'
<1> SUFFICES ASSUME Inv, UNCHANGED vars PROVE Inv'
  OBVIOUS
<1>1. /\ UNCHANGED <<log, closed, heap, pos, entries, alloc_ctx, stats, regions, reported>>
      /\ table' = table /\ status' = status
  BY DEF vars, readerVars
<1>2. ReaderTypes'
  BY <1>1 DEF Inv, ReadInv, ReaderTypes
<1>3. TableInv'
  BY <1>1 DEF Inv, ReadInv, TableInv
<1> QED BY <1>1, <1>2, <1>3, NothingRead

LEMMA ParseLogInv == Inv /\ ParseLog /\ UNCHANGED heap => Inv'
<1> SUFFICES ASSUME Inv, ParseLog, UNCHANGED heap PROVE Inv'
  OBVIOUS
<1>1. Reads
  BY DEF ParseLog, Reads
<1>2. LogInv'
  BY <1>1, ReadsNext
<1>3. ReadInv'
  BY <1>1, AllocReadInv, FrameReadInv, FreeReadInv, OtherReadInv DEF ParseLog
<1> QED BY <1>2, <1>3 DEF Inv

LEMMA NextInv == Inv /\ [Next]_vars => Inv'
<1>1. ASSUME Inv, Program PROVE Inv'
  <2>1. LogInv' /\ Grows /\ UNCHANGED readerVars /\ (closed => closed' /\ log' = log)
    BY <1>1, ProgramLogInv DEF Inv
  <2> QED BY <1>1, <2>1, ReadInvStays DEF Inv
<1>2. ASSUME Inv, Reader PROVE Inv'
  BY <1>2, ParseLogInv, ReportInv DEF Reader
<1>3. ASSUME Inv, Finished PROVE Inv'
  BY <1>3, StutterInv DEF Finished
<1> QED BY <1>1, <1>2, <1>3, StutterInv DEF Next

LEMMA Invariant == Spec => []Inv
  BY InitInv, NextInv, PTL DEF Spec

(***************************************************************************)
(* The properties of Profiler.                                             *)
(***************************************************************************)
\* What jmprof-ip keeps has its types: each entry a block of the log, the context
\* of a backtrace NULL or a block (interpret.c:292-358).
THEOREM ReaderTypesHold == Spec => []ReaderTypeOK
<1>1. Inv => ReaderTypeOK
  <2> SUFFICES ASSUME Inv PROVE ReaderTypeOK
    OBVIOUS
  <2>1. ReaderTypes /\ table.num >= HASH_INITIAL_NUM_BUCKETS
    BY DEF Inv, ReadInv, TableInv, TableOK
  <2>2. \A i \in DOMAIN entries : entries[i] \in Entry
    BY <2>1, LenProperties DEF ReaderTypes
  <2> QED BY <2>1, <2>2 DEF ReaderTypeOK, ReaderTypes, Entry
<1> QED BY <1>1, Invariant, PTL

LEMMA ReadPrefix ==
  ASSUME NEW records \in Seq(Records), NEW p \in 0..Len(records)
  PROVE  /\ SubSeq(records, 1, p) \in Seq(Records) /\ DOMAIN SubSeq(records, 1, p) = 1..p
         /\ \A i \in 1..p : SubSeq(records, 1, p)[i] = records[i]
<1>1. p \in Nat /\ Len(records) \in Nat /\ \A i \in 1..p : records[i] \in Records
  BY LenProperties
<1>2. /\ SubSeq(records, 1, p) \in Seq(Records)
      /\ Len(SubSeq(records, 1, p)) = (IF 1 <= p THEN p - 1 + 1 ELSE 0)
      /\ \A i \in 1..(p - 1 + 1) : SubSeq(records, 1, p)[i] = records[1 + i - 1]
  BY <1>1, SubSeqProperties
<1> QED BY <1>1, <1>2, LenProperties

\* The blocks not freed among the records that were read, by their positions.
LEMMA TracedRead ==
  ASSUME Inv, NEW x
  PROVE  x \in Traced(Read) <=> \E k \in 1..pos : log[k].addr = x /\ Unfreed(pos, k)
<1>1. pos \in Nat /\ pos \in 0..Len(log) /\ \A i \in 1..pos : log[i] \in Records
  BY LenProperties DEF Inv, LogInv, ReadInv, ReaderTypes
<1>2. Read \in Seq(Records) /\ Len(Read) = pos /\ \A i \in 1..pos : Read[i] = log[i]
  <2>1. /\ Read \in Seq(Records) /\ Len(Read) = (IF 1 <= pos THEN pos - 1 + 1 ELSE 0)
        /\ \A i \in 1..(pos - 1 + 1) : Read[i] = log[1 + i - 1]
    BY <1>1, SubSeqProperties DEF Read
  <2> QED BY <1>1, <2>1
<1>3. DOMAIN Read = 1..pos
  BY <1>2, LenProperties
<1> QED BY <1>2, <1>3 DEF Traced, Unfreed

\* No block that was allocated and not freed is missing among the leaking entries,
\* however often the table was expanded and whatever order its chains are in
\* (interpret.c:343-349).
THEOREM NoneMissed == Spec => []NoLeakMissed
<1>1. Inv => NoLeakMissed
  BY TracedRead DEF Inv, ReadInv, LeakInv, NoLeakMissed, Leaks
<1> QED BY <1>1, Invariant, PTL

\* Without a failed allocation no entry has the address NULL.
LEMMA KeysAreAddrs ==
  ASSUME Inv, ~MayFail, NEW i \in DOMAIN entries
  PROVE  entries[i].key # NULL
<1>1. PICK at : Positions(at)
  BY DEF Inv, ReadInv, TraceInv
<1>2. at[i] \in 1..Len(log) /\ log[at[i]].op = "a" /\ log[at[i]].addr = entries[i].key
  BY <1>1, LenProperties DEF Positions, Inv, LogInv, ReadInv, ReaderTypes
<1> QED BY <1>2 DEF Inv, LogInv, RecordOK

\* While HASH_FIND meets the latest entry of an address first, the leaking entries
\* are exactly the blocks not freed, each by its latest allocation, although
\* every 'a' adds an entry and an 'f' marks only one (interpret.c:324, 343-349).
THEOREM LeaksReported ==
  ASSUME ~MayFail
  PROVE  Spec => []LeaksAreTheBlocksNotFreed
<1>1. Inv => LeaksAreTheBlocksNotFreed
  <2> SUFFICES ASSUME Inv, Unexpanded
               PROVE  /\ {entries[i].key : i \in Leaks} = Traced(Read)
                      /\ \A i, j \in DOMAIN entries :
                             i < j /\ entries[i].key = entries[j].key => i \notin Leaks
    BY DEF LeaksAreTheBlocksNotFreed
  <2>1. \A i \in Leaks : /\ \E k \in 1..pos : log[k].addr = entries[i].key /\ Unfreed(pos, k)
                         /\ \A j \in DOMAIN entries : entries[j].key = entries[i].key => j <= i
    BY KeysAreAddrs DEF Inv, ReadInv, ExactInv, Leaks
  <2>2. {entries[i].key : i \in Leaks} \subseteq Traced(Read)
    BY <2>1, TracedRead
  <2>3. Traced(Read) \subseteq {entries[i].key : i \in Leaks}
    BY TracedRead DEF Inv, ReadInv, LeakInv, Leaks
  <2>4. \A i, j \in DOMAIN entries : i < j => ~(j <= i)
    BY LenProperties DEF Inv, ReadInv, ReaderTypes
  <2> QED BY <2>1, <2>2, <2>3, <2>4
<1> QED BY <1>1, Invariant, PTL

\* The counts of allocations and frees differ by the leaks of the report
\* (interpret.c:302, 318-349).
THEOREM SummaryFits == Spec => []SummaryAgrees
<1>1. Inv => SummaryAgrees
  <2> SUFFICES ASSUME Inv, FreesRetract PROVE Retracting
    BY DEF Inv, ReadInv, StatsInv, SummaryAgrees
  <2>1. pos \in Nat /\ pos \in 0..Len(log) /\ Len(log) \in Nat /\ log \in Seq(Records)
    BY LenProperties DEF Inv, LogInv, ReadInv, ReaderTypes
  <2>2. ASSUME NEW p \in 0..pos
        PROVE  /\ SubSeq(log, 1, p) \in Seq(Records) /\ DOMAIN SubSeq(log, 1, p) = 1..p
               /\ \A i \in 1..p : SubSeq(log, 1, p)[i] = log[i]
    BY <2>1, ReadPrefix
  <2>3. /\ DOMAIN Read = 1..pos /\ \A i \in 1..pos : Read[i] = log[i]
        /\ Read \in Seq(Records)
    BY <2>1, <2>2 DEF Read
  <2> SUFFICES ASSUME NEW i \in 1..pos, log[i].op = "f"
               PROVE  \E k \in 1..(i - 1) : log[k].addr = log[i].addr /\ Unfreed(i - 1, k)
    BY DEF Retracting
  <2>4. log[i].addr \in Traced(SubSeq(Read, 1, i - 1))
    BY <2>3 DEF FreesRetract
  <2>5. i - 1 \in 0..Len(Read) /\ i - 1 <= pos /\ \A k \in 1..(i - 1) : k \in 1..pos
    BY <2>1, <2>3, LenProperties
  <2>6. /\ DOMAIN SubSeq(Read, 1, i - 1) = 1..(i - 1)
        /\ \A k \in 1..(i - 1) : SubSeq(Read, 1, i - 1)[k] = Read[k]
    BY <2>3, <2>5, ReadPrefix
  <2>7. \A k \in 1..(i - 1) : SubSeq(Read, 1, i - 1)[k] = log[k]
    BY <2>3, <2>5, <2>6
  <2> DEFINE early == SubSeq(Read, 1, i - 1)
  <2>9. PICK k \in DOMAIN early :
            /\ early[k].addr = log[i].addr /\ early[k].op = "a"
            /\ \A j \in DOMAIN early : j > k => ~(early[j].op = "f" /\ early[j].addr = early[k].addr)
    BY <2>4 DEF Traced
  <2>10. k \in 1..(i - 1) /\ early[k] = log[k]
    BY <2>6, <2>7
  <2>8. /\ k \in 1..(i - 1) /\ log[k].addr = log[i].addr /\ log[k].op = "a"
        /\ \A j \in 1..(i - 1) : j > k => ~(log[j].op = "f" /\ log[j].addr = log[k].addr)
    <3>1. log[k].addr = log[i].addr /\ log[k].op = "a"
      BY <2>9, <2>10
    <3>2. ASSUME NEW j \in 1..(i - 1), j > k
          PROVE  ~(log[j].op = "f" /\ log[j].addr = log[k].addr)
      <4>1. j \in DOMAIN early /\ early[j] = log[j]
        BY <2>6, <2>7
      <4> QED BY <2>9, <2>10, <3>2, <4>1
    <3> QED BY <2>10, <3>1, <3>2
  <2> QED BY <2>8 DEF Unfreed
<1> QED BY <1>1, Invariant, PTL

\* Through every addition and expansion the table holds each entry once and
\* HASH_FIND finds a key exactly if an entry has it (uthash.h:519-566, 836-886).
THEOREM TableFits == Spec => []TableHoldsEntries
<1>1. Inv => TableHoldsEntries
  <2> SUFFICES ASSUME Inv PROVE TableHoldsEntries
    OBVIOUS
  <2>0. entries \in Seq(Entry)
    BY DEF Inv, ReadInv, ReaderTypes
  <2>1. CASE status = "done"
    <3>1. table.elems = {}
      BY <2>1 DEF Inv, ReadInv, TableInv
    <3> QED BY <2>1, <3>1 DEF TableHoldsEntries
  <2>2. CASE status # "done"
    <3>1. TableOK(table, entries)
      BY <2>2 DEF Inv, ReadInv, TableInv
    <3>2. {<<e.key, e.id>> : e \in table.elems} = {<<entries[i].key, i>> : i \in DOMAIN entries}
      BY <3>1 DEF TableOK, ElementOK
    <3>3. Cardinality(table.elems) = Len(entries)
      BY <2>0, <3>1, TableSize
    <3>4. ASSUME NEW k \in Keys
          PROVE  HashFind(table, k) # 0 <=> \E i \in DOMAIN entries : entries[i].key = k
      <4>1. 0 \notin DOMAIN entries
        BY <2>0, LenProperties
      <4> QED BY <2>0, <3>1, <4>1, FindEntryOfKey, FindNothing
    <3> QED BY <2>2, <3>2, <3>3, <3>4 DEF TableHoldsEntries
  <2> QED BY <2>1, <2>2
<1> QED BY <1>1, Invariant, PTL

(***************************************************************************)
(* Frames of a failed allocation end the process.                          *)
(***************************************************************************)
NoFrames == status \in {"reading", "done"} =>
    \A c \in 1..pos : log[c].op = "a" /\ log[c].addr = NULL => ReadFrames(c) = {}

\* The assertion fails at the first of them (interpret.c:329).
LEMMA NoFramesOfNull == Spec => []NoFrames
<1>1. Init => NoFrames
  BY DEF Init, ReaderInit, NoFrames
<1>2. ASSUME Inv, NoFrames, [Next]_vars PROVE NoFrames'
  <2>1. CASE Program
    <3>1. Grows /\ UNCHANGED readerVars
      BY <1>2, <2>1, ProgramLogInv DEF Inv
    <3>2. pos \in 0..Len(log) /\ pos' = pos /\ status' = status
      BY <1>2, <3>1 DEF Inv, ReadInv, ReaderTypes, readerVars
    <3>3. \A i \in 1..pos : i \in 1..Len(log) /\ log'[i] = log[i]
      BY <3>1, <3>2, LenProperties DEF Grows
    <3>4. \A a \in 1..pos : ReadFrames(a)' = ReadFrames(a)
      BY <3>1, <3>2, <3>3, OwnerStays DEF ReadFrames
    <3> QED BY <1>2, <3>2, <3>3, <3>4 DEF NoFrames
  <2>2. CASE ParseLog /\ UNCHANGED heap
    <3>1. Reads
      BY <2>2 DEF ParseLog, Reads
    <3> SUFFICES ASSUME status' \in {"reading", "done"}, NEW c \in 1..(pos + 1),
                        log[c].op = "a", log[c].addr = NULL
                 PROVE  ReadFrames(c)' = {}
      BY <3>1 DEF NoFrames, Reads
    <3>2. \A i \in 1..(pos + 1) : i \in 1..pos \/ i = pos + 1
      BY <1>2, <3>1, ReadsNext
    <3>3. CASE c = pos + 1
      BY <1>2, <3>1, <3>3, FramesNext
    <3>4. CASE c \in 1..pos
      <4>1. ReadFrames(c) = {}
        BY <1>2, <3>1, <3>4 DEF NoFrames, Reads
      <4>2. log[pos + 1].op = "b" => ~LastBlock(c)
        <5> SUFFICES ASSUME log[pos + 1].op = "b", LastBlock(c) PROVE FALSE
          OBVIOUS
        <5>1. alloc_ctx = NULL
          BY <1>2, <3>1, <3>4 DEF Inv, ReadInv, ContextInv, Reads
        <5> QED BY <2>2, <5>1 DEF ParseLog, ParseAlloc, ParseFree, ParseBacktrace,
                                   ParseModule, ParseRegion, ParseExecPath
      <4> QED BY <1>2, <3>1, <3>4, <4>1, <4>2, FramesNext
    <3> QED BY <3>2, <3>3, <3>4
  <2>3. CASE Report \/ UNCHANGED vars
    <3>1. pos' = pos /\ log' = log /\ (status' \in {"reading", "done"} => status \in {"reading", "done"})
      BY <2>3 DEF Report, vars, readerVars
    <3>2. \A a : ReadFrames(a)' = ReadFrames(a)
      BY <3>1 DEF ReadFrames, IsOwnerOf, IsBlock
    <3> QED BY <1>2, <3>1, <3>2 DEF NoFrames
  <2> QED BY <1>2, <2>1, <2>2, <2>3 DEF Next, Reader, Finished
<1> QED BY <1>1, <1>2, Invariant, PTL DEF Spec

\* The trace printed for a leak is the backtrace that the log has for the latest
\* allocation of its address: all its frames, in their order, each resolved in
\* the modules reported before it, and no frame of another record
\* (interpret.c:328-336).
THEOREM LeakTraces == Spec => []LeakTraceIsItsBacktrace
<1>1. Inv /\ NoFrames => LeakTraceIsItsBacktrace
  <2> SUFFICES ASSUME Inv, NoFrames, status = "done", Unexpanded, NEW k \in Leaks
               PROVE  LET frames == FramesOf(AllocOf(entries[k].key))
                      IN  /\ Len(entries[k].traces) = Cardinality(frames)
                          /\ \A i \in frames :
                                 entries[k].traces[Cardinality({j \in frames : j <= i})] = Resolved(i)
    BY DEF LeakTraceIsItsBacktrace
  <2> DEFINE key == entries[k].key
             a == AllocOf(key)
             IsAlloc(i) == /\ log[i].op = "a" /\ log[i].addr = key
                           /\ \A j \in DOMAIN log : log[j].op = "a" /\ log[j].addr = key => j <= i
  <2>1. PICK at : Positions(at) /\ Traces(at)
    BY DEF Inv, ReadInv, TraceInv
  <2>2. /\ pos = Len(log) /\ pos \in Nat /\ DOMAIN log = 1..pos /\ DOMAIN entries = 1..Len(entries)
        /\ Len(entries) \in Nat
    BY LenProperties DEF Inv, ReadInv, TableInv, ReaderTypes, LogInv
  <2>3. k \in DOMAIN entries /\ entries[k].is_leaking
    BY DEF Leaks
  <2>4. \A i \in 1..pos : FramesOf(i) = ReadFrames(i)
    BY <2>2 DEF FramesOf, ReadFrames
  <2>5. LeakTrace(k, at[k]) /\ at[k] \in 1..pos /\ log[at[k]].op = "a" /\ log[at[k]].addr = key
    BY <2>1, <2>3 DEF Traces, Positions
  <2>6. \E b \in DOMAIN entries : /\ entries[b].key = key
                                  /\ \A i \in DOMAIN entries : entries[i].key = key => at[i] <= at[b]
    <3> DEFINE S == {i \in DOMAIN entries : entries[i].key = key}
               T == {pos - at[i] : i \in S}
    <3>1. \A i \in DOMAIN entries : at[i] \in 1..pos
      BY <2>1 DEF Positions
    <3>2. T \in SUBSET Nat /\ T # {}
      BY <2>2, <2>3, <3>1
    <3>3. PICK m \in T : \A t \in T : m <= t
      BY <3>2, SmallestOf
    <3>4. PICK b \in DOMAIN entries : entries[b].key = key /\ m = pos - at[b]
      BY <3>3
    <3>5. \A i \in DOMAIN entries : entries[i].key = key => at[i] <= at[b]
      <4> SUFFICES ASSUME NEW i \in DOMAIN entries, entries[i].key = key PROVE at[i] <= at[b]
        OBVIOUS
      <4>1. pos - at[i] \in T
        OBVIOUS
      <4>2. pos - at[b] <= pos - at[i]
        BY <3>3, <3>4, <4>1
      <4> HIDE DEF S, T
      <4> QED BY <2>2, <3>1, <3>4, <4>2
    <3> QED BY <3>4, <3>5
  <2>7. PICK b \in DOMAIN entries : /\ entries[b].key = key
                                    /\ \A i \in DOMAIN entries : entries[i].key = key => at[i] <= at[b]
    BY <2>6
  <2>8. at[b] \in 1..pos /\ log[at[b]].op = "a" /\ log[at[b]].addr = key
    BY <2>1, <2>7 DEF Positions
  <2>9. \A j \in DOMAIN log : log[j].op = "a" /\ log[j].addr = key => j <= at[b]
    BY <2>1, <2>2, <2>7 DEF Positions
  <2>10. a \in DOMAIN log /\ IsAlloc(a)
    BY <2>2, <2>8, <2>9 DEF AllocOf
  <2> HIDE DEF a
  <2>11. a = at[b]
    BY <2>2, <2>8, <2>9, <2>10
  <2>12. FramesOf(a) = ReadFrames(at[k])
    <3>1. CASE key = NULL
      BY <2>2, <2>4, <2>5, <2>8, <2>11, <3>1 DEF NoFrames
    <3>2. CASE key # NULL
      <4>1. b <= k
        BY <2>3, <2>7, <3>2 DEF Inv, ReadInv, ExactInv
      <4>2. at[k] <= at[b] /\ (b < k => at[b] < at[k])
        BY <2>1, <2>3, <2>7 DEF Positions
      <4>3. k = b
        BY <2>2, <2>3, <2>5, <2>8, <4>1, <4>2
      <4> QED BY <2>4, <2>8, <2>11, <4>3
    <3> QED BY <3>1, <3>2
  <2>13. /\ Len(entries[k].traces) = Cardinality(FramesOf(a))
         /\ \A i \in FramesOf(a) :
                entries[k].traces[Cardinality({j \in FramesOf(a) : j <= i})] = Resolved(i)
    BY <2>5, <2>12 DEF LeakTrace
  <2> QED BY <2>13 DEF a
<1> QED BY <1>1, Invariant, NoFramesOfNull, PTL

(***************************************************************************)
(* What may end jmprof-ip early.                                           *)
(***************************************************************************)
\* An entry of a block is too long.
LongEntry == \E i \in DOMAIN entries :
    entries[i].key # NULL /\ Len(entries[i].traces) > MAX_BACKTRACE_COUNT

FailInv == /\ status = "undefined" => UnknownBlock \/ LongEntry \/ regions > MAX_REGION_COUNT
           /\ LongEntry \/ regions > MAX_REGION_COUNT => status = "undefined"

\* The program does not change what was read.
LEMMA ProgramFailInv == Inv /\ FailInv /\ Program => FailInv'
<1> SUFFICES ASSUME Inv, FailInv, Program PROVE FailInv'
  OBVIOUS
<1>1. Grows /\ UNCHANGED readerVars
  BY ProgramLogInv DEF Inv
<1>2. /\ pos \in 0..Len(log) /\ Len(log) \in Nat /\ pos' = pos /\ status' = status
      /\ entries' = entries /\ regions' = regions
  BY <1>1, LenProperties DEF Inv, ReadInv, ReaderTypes, readerVars, Grows
<1>3. \A i \in 1..pos : log'[i] = log[i] /\ \A a \in 1..i : log'[a] = log[a]
  BY <1>1, <1>2 DEF Grows
<1>4. UnknownBlock' <=> UnknownBlock
  BY <1>2, <1>3 DEF UnknownBlock
<1> QED BY <1>2, <1>4 DEF FailInv, LongEntry

LEMMA ReadFailInv ==
  ASSUME Inv, FailInv, ParseLog, UNCHANGED heap
  PROVE  FailInv'
<1> DEFINE r == log[pos + 1]
<1>0. Reads /\ status = "reading" /\ pos' = pos + 1 /\ log' = log
  BY DEF ParseLog, Reads
<1>1. /\ pos \in Nat /\ r \in Records /\ pos + 1 \in 1..(pos + 1) /\ RecordOK(pos + 1)
      /\ \A i \in 1..(pos + 1) : i \in 1..pos \/ i = pos + 1
  BY <1>0, ReadsNext
<1>2. ~LongEntry /\ ~(regions > MAX_REGION_COUNT)
  BY <1>0 DEF FailInv
<1>3. /\ MAX_BACKTRACE_COUNT \in Nat /\ MAX_REGION_COUNT \in Nat /\ regions \in Nat
      /\ entries \in Seq(Entry) /\ DOMAIN entries = 1..Len(entries) /\ Len(entries) \in Nat
      /\ alloc_ctx \in Keys /\ reported \subseteq Modules
  BY ProfilerAssumption, LenProperties DEF Inv, ReadInv, ReaderTypes
<1>4. CASE ParseModule(r) \/ ParseExecPath(r)
  BY <1>0, <1>2, <1>4 DEF ParseModule, ParseExecPath, FailInv, LongEntry
<1>5. CASE ParseRegion(r)
  <2>1. entries' = entries /\ regions' = regions + 1
        /\ status' = IF regions < MAX_REGION_COUNT THEN status ELSE "undefined"
    BY <1>5 DEF ParseRegion
  <2>2. LongEntry' <=> LongEntry
    BY <2>1 DEF LongEntry
  <2> QED BY <1>0, <1>2, <1>3, <2>1, <2>2 DEF FailInv
<1>6. CASE ParseAlloc(r)
  <2> DEFINE new == [key |-> r.addr, is_leaking |-> TRUE, traces |-> <<>>]
  <2>1. entries' = Append(entries, new) /\ regions' = regions /\ status' = status
    BY <1>6 DEF ParseAlloc, AddEntry
  <2>2. new \in Entry /\ Len(new.traces) = 0
    BY <1>1, <1>6, EmptySeq, LenProperties DEF Entry, RecordOK, ParseAlloc
  <2> HIDE DEF new
  <2>3. \A i \in DOMAIN entries' :
            (i \in DOMAIN entries /\ entries'[i] = entries[i]) \/ entries'[i] = new
    BY <1>3, <2>1, <2>2, AppendProperties, LenProperties
  <2>4. ~LongEntry'
    BY <1>2, <1>3, <2>2, <2>3 DEF LongEntry
  <2> QED BY <1>0, <1>2, <2>1, <2>4 DEF FailInv
<1>7. CASE ParseFree(r)
  <2>1. r.op = "f" /\ r.addr \in Keys \ {NULL}
    BY <1>1, <1>7, ProfilerAssumption DEF ParseFree, RecordOK
  <2>2. CASE FindEntry(r.addr) = 0
    <3>1. PICK at : Positions(at)
      BY DEF Inv, ReadInv, TraceInv
    <3>2. \A i \in DOMAIN entries : entries[i].key # r.addr
      BY <1>0, <1>3, <2>1, <2>2, FindEntryFinds DEF Found
    <3>3. \A a \in 1..pos : ~(log[a].op = "a" /\ log[a].addr = r.addr)
      BY <3>1, <3>2 DEF Positions
    <3>4. UnknownBlock'
      BY <1>0, <1>1, <2>1, <3>3 DEF UnknownBlock
    <3>5. entries' = entries /\ regions' = regions /\ status' = "undefined"
      BY <1>7, <2>2 DEF ParseFree, Undefined
    <3> QED BY <1>2, <3>4, <3>5 DEF FailInv
  <2>3. CASE FindEntry(r.addr) # 0
    <3>1. PICK e : entries' = [entries EXCEPT ![e].is_leaking = FALSE]
                   /\ regions' = regions /\ status' = status
      BY <1>7, <2>3 DEF ParseFree
    <3>2. /\ DOMAIN entries' = DOMAIN entries
          /\ \A i \in DOMAIN entries : /\ entries'[i].key = entries[i].key
                                       /\ entries'[i].traces = entries[i].traces
      <4>1. \A i \in DOMAIN entries : entries[i] \in Entry
        BY <1>3
      <4> QED BY <3>1, <4>1 DEF Entry
    <3>3. LongEntry' <=> LongEntry
      BY <3>2 DEF LongEntry
    <3> QED BY <1>0, <1>2, <3>1, <3>3 DEF FailInv
  <2> QED BY <2>2, <2>3
<1>8. CASE ParseBacktrace(r)
  <2>1. CASE alloc_ctx = NULL
    <3>1. entries' = entries /\ regions' = regions /\ status' = "assert"
      BY <1>8, <2>1 DEF ParseBacktrace
    <3> QED BY <1>2, <3>1 DEF FailInv, LongEntry
  <2>2. CASE alloc_ctx # NULL
    <3>1. PICK e \in DOMAIN entries : Found(e, alloc_ctx)
      <4>1. PICK c \in 1..pos : IsBlock(log[c]) /\ alloc_ctx = log[c].addr
        BY <1>0, <2>2 DEF Inv, ReadInv, ContextInv, LastBlock
      <4>2. Found(FindEntry(alloc_ctx), alloc_ctx)
        BY <1>0, <1>3, <2>2, <4>1, EntryOfBlock, FindEntryFinds
      <4> QED BY <4>2 DEF Found
    <3>2. e # 0 /\ e = FindEntry(alloc_ctx) /\ entries[e] \in Entry /\ entries[e].key # NULL
      BY <1>3, <2>2, <3>1 DEF Found
    <3>3. /\ entries' = [entries EXCEPT ![e].traces = Append(@, Resolve(r.addr))]
          /\ status' = IF Len(entries[e].traces) < MAX_BACKTRACE_COUNT THEN status ELSE "undefined"
          /\ regions' = regions
      BY <1>8, <2>2, <3>2 DEF ParseBacktrace
    <3>4. /\ entries[e].traces \in Seq(Modules \cup {NULL})
          /\ Resolve(r.addr) \in Modules \cup {NULL}
      BY <1>3, <3>2 DEF Entry, Resolve
    <3>5. /\ Len(Append(entries[e].traces, Resolve(r.addr))) = Len(entries[e].traces) + 1
          /\ Len(entries[e].traces) \in Nat
      BY <3>4, AppendProperties, LenProperties
    <3>6. /\ DOMAIN entries' = DOMAIN entries
          /\ \A i \in DOMAIN entries : i # e => entries'[i] = entries[i]
          /\ entries'[e].traces = Append(entries[e].traces, Resolve(r.addr))
          /\ entries'[e].key = entries[e].key
      BY <3>1, <3>2, <3>3 DEF Entry
    <3>7. LongEntry' <=> Len(entries[e].traces) + 1 > MAX_BACKTRACE_COUNT
      BY <1>2, <3>1, <3>2, <3>5, <3>6 DEF LongEntry
    <3> QED BY <1>0, <1>2, <1>3, <3>3, <3>5, <3>7 DEF FailInv
  <2> QED BY <2>1, <2>2
<1> QED BY <1>4, <1>5, <1>6, <1>7, <1>8 DEF ParseLog

\* jmprof-ip leaves an object or follows a NULL entry exactly when it reads the free
\* of a block that was never announced, more frames about a block than an entry has
\* room for, or more regions than the summary has, whatever the three sizes are
\* (interpret.c:229, 349, 375).
THEOREM FailuresOfReader == Spec => []FailsOnlyByOverflow
<1>1. Init => FailInv
  <2> SUFFICES ASSUME Init PROVE FailInv
    OBVIOUS
  <2>1. entries = <<>> /\ regions = 0 /\ status = "reading" /\ MAX_REGION_COUNT \in Nat
    BY ProfilerAssumption DEF Init, ReaderInit
  <2>2. DOMAIN entries = {}
    BY <2>1, EmptySeq
  <2> QED BY <2>1, <2>2 DEF FailInv, LongEntry
<1>2. ASSUME Inv, FailInv, [Next]_vars PROVE FailInv'
  <2>1. CASE Program
    BY <1>2, <2>1, ProgramFailInv
  <2>2. CASE ParseLog /\ UNCHANGED heap
    BY <1>2, <2>2, ReadFailInv
  <2>3. CASE Report \/ UNCHANGED vars
    <3>1. /\ UNCHANGED <<log, pos, entries, regions>>
          /\ status' = status \/ (status = "reading" /\ status' = "done")
      BY <2>3 DEF Report, vars, readerVars
    <3>2. (UnknownBlock' <=> UnknownBlock) /\ (LongEntry' <=> LongEntry)
      BY <3>1 DEF UnknownBlock, LongEntry
    <3> QED BY <1>2, <3>1, <3>2 DEF FailInv
  <2> QED BY <1>2, <2>1, <2>2, <2>3 DEF Next, Reader, Finished
<1>3. Inv /\ FailInv => FailsOnlyByOverflow
  <2> SUFFICES ASSUME Inv, FailInv, Unexpanded
               PROVE  status = "undefined" <=> UnknownBlock \/ LongTrace \/ ManyRegions
    BY DEF FailsOnlyByOverflow
  <2>1. PICK at : Positions(at) /\ Counts(at)
    BY DEF Inv, ReadInv, TraceInv
  <2>2. LongEntry <=> LongTrace
    BY <2>1 DEF LongEntry, LongTrace, Positions, Counts
  <2>3. regions > MAX_REGION_COUNT <=> ManyRegions
    BY DEF Inv, ReadInv, ModuleInv, ManyRegions
  <2>4. UnknownBlock => status = "undefined"
    BY DEF Inv, ReadInv, ContextInv
  <2> QED BY <2>2, <2>3, <2>4 DEF FailInv
<1> QED BY <1>1, <1>2, <1>3, Invariant, PTL DEF Spec

\* assert(alloc_ctx != NULL) holds as long as no allocation of the program fails
\* (interpret.c:329).
THEOREM ContextHeld ==
  ASSUME ~MayFail
  PROVE  Spec => []BacktraceHasContext
<1>1. Init => BacktraceHasContext
  BY DEF Init, ReaderInit, BacktraceHasContext
<1>2. ASSUME Inv, BacktraceHasContext, [Next]_vars PROVE BacktraceHasContext'
  <2>1. CASE Program \/ Report \/ UNCHANGED vars
    BY <1>2, <2>1 DEF Program, Report, vars, readerVars, BacktraceHasContext
  <2>2. CASE ParseLog /\ UNCHANGED heap
    <3> DEFINE r == log[pos + 1]
    <3>1. Reads /\ status = "reading"
      BY <2>2 DEF ParseLog, Reads
    <3>2. CASE ~ParseBacktrace(r)
      BY <2>2, <3>1, <3>2 DEF ParseLog, ParseAlloc, ParseFree, ParseModule, ParseRegion,
                               ParseExecPath, Undefined, BacktraceHasContext
    <3>3. CASE ParseBacktrace(r)
      <4>1. PICK k \in 1..pos : IsBlock(log[k])
        BY <1>2, <3>1, <3>3, ReadsNext DEF ParseBacktrace, RecordOK
      <4>2. PICK l \in 1..pos : LastBlock(l) /\ alloc_ctx = log[l].addr
        BY <1>2, <3>1, <4>1 DEF Inv, ReadInv, ContextInv
      <4>3. RecordOK(l)
        BY <1>2, <3>1, <4>2, ReadsNext DEF Inv, LogInv
      <4>4. alloc_ctx # NULL
        BY <4>2, <4>3, ProfilerAssumption DEF LastBlock, IsBlock, RecordOK
      <4> QED BY <3>1, <3>3, <4>4 DEF ParseBacktrace, Undefined, BacktraceHasContext
    <3> QED BY <3>2, <3>3
  <2> QED BY <1>2, <2>1, <2>2 DEF Next, Reader, Finished
<1> QED BY <1>1, <1>2, Invariant, PTL DEF Spec

==============================================================================
