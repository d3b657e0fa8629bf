------------------------------- MODULE Uthash --------------------------------
(***************************************************************************)
(* The hash table of src/external/uthash.h as jmprof-ip uses it: elements  *)
(* are added and never replaced, so several may have the same key.  ids    *)
(* are given in the order of the additions, which is also the application  *)
(* order of the table (hh.prev, hh.next).                                  *)
(*                                                                         *)
(* An element is [key, id, bkt, rank]: it lies in the bucket bkt, whose    *)
(* chain is in descending order of the ranks, hh_head first.  So an        *)
(* element that becomes the head has a rank above those of its bucket, and *)
(* chains that are turned around have their ranks negated.                 *)
(***************************************************************************)
EXTENDS Integers, FiniteSets

CONSTANTS Keys,
          Hash,     \* the hash value of each key
          HASH_INITIAL_NUM_BUCKETS,
          HASH_BKT_CAPACITY_THRESH

ASSUME UthashAssumption == /\ Hash \in [Keys -> Nat]
                           /\ HASH_INITIAL_NUM_BUCKETS \in Nat \ {0}
                           /\ HASH_BKT_CAPACITY_THRESH \in Nat \ {0}

\* hashv & (num_bkts - 1), where num_bkts is a power of two.
ToBkt(key, num) == Hash[key] % num

\* mult is expand_mult of each bucket.
NewTable == [num |-> HASH_INITIAL_NUM_BUCKETS, elems |-> {},
             mult |-> [b \in 0..(HASH_INITIAL_NUM_BUCKETS - 1) |-> 0],
             ineff |-> 0, noexpand |-> FALSE]

Chain(elems, b) == {e \in elems : e.bkt = b}

\* The first element of the chain with the key, or id 0.
HashFind(tbl, key) ==
    LET found == {e \in Chain(tbl.elems, ToBkt(key, tbl.num)) : e.key = key}
    IN  IF found = {} THEN 0
        ELSE (CHOOSE e \in found : \A o \in found : o.rank <= e.rank).id

\* Each old bucket empties, from its head, into the heads of two new ones.
Moved(elems, num) ==
    {[key |-> e.key, id |-> e.id, bkt |-> ToBkt(e.key, num), rank |-> -e.rank] : e \in elems}

Ideal(items, num) == (items \div num) + (IF items % num # 0 THEN 1 ELSE 0)

\* A chain over the ideal length raises the threshold of its bucket.
Multiplier(ideal, len) ==
    LET mult[n \in Nat] ==
            IF n = 0 THEN 0
            ELSE mult[n-1] + (IF n > ideal /\ n > mult[n-1] * ideal THEN 1 ELSE 0)
    IN  mult[len]

\* The elements that met a bucket of the ideal length.
Nonideal(elems, ideal) ==
    {e \in elems : Cardinality({o \in Chain(elems, e.bkt) : o.rank <= e.rank}) > ideal}

\* Twice the buckets.  If most elements are not ideal twice in a row, the table
\* is never expanded again.
HashExpandBuckets(tbl) ==
    LET num   == 2 * tbl.num
        elems == Moved(tbl.elems, num)
        items == Cardinality(elems)
        ideal == Ideal(items, num)
        ineff == IF Cardinality(Nonideal(elems, ideal)) > items \div 2 THEN tbl.ineff + 1 ELSE 0
    IN  [num |-> num, elems |-> elems,
         mult |-> [b \in 0..(num - 1) |-> Multiplier(ideal, Cardinality(Chain(elems, b)))],
         ineff |-> ineff, noexpand |-> tbl.noexpand \/ ineff > 1]

Crowded(tbl, b) ==
    /\ Cardinality(Chain(tbl.elems, b)) >= (tbl.mult[b] + 1) * HASH_BKT_CAPACITY_THRESH
    /\ ~tbl.noexpand

\* The id is larger than every rank: the element becomes the head of its bucket.
HeadOf(tbl, key, id) == [key |-> key, id |-> id, bkt |-> ToBkt(key, tbl.num), rank |-> id]

HashAdd_ForgetRehash(tbl, key, id) ==
    LET added == [tbl EXCEPT !.elems = @ \cup {HeadOf(tbl, key, id)}]
    IN  IF Crowded(added, ToBkt(key, tbl.num))
        THEN [HashExpandBuckets(added) EXCEPT !.elems = added.elems] ELSE added

HashAdd_AtTail(tbl, key, id) ==
    [tbl EXCEPT !.elems = @ \cup {[HeadOf(tbl, key, id) EXCEPT !.rank = -id]}]

\* HASH_ADD_PTR().
HashAdd(tbl, key, id) ==
    LET added == [tbl EXCEPT !.elems = @ \cup {HeadOf(tbl, key, id)}]
    IN  IF Crowded(added, ToBkt(key, tbl.num)) THEN HashExpandBuckets(added) ELSE added

\* HASH_DEL() of the elements with these ids.
HashDelete(tbl, ids) == [tbl EXCEPT !.elems = {e \in @ : e.id \notin ids}]
==============================================================================
