------------------------------- MODULE DictOps -------------------------------
(***************************************************************************)
(* The data structure of redis_dict/dict.c as a value, and what each of    *)
(* its internal functions computes from it.  A dict value `d` has the two  *)
(* hash tables of `dict.ht[0..1]`, the rehash position and the number of   *)
(* safe iterators that are running.  A chain is the set of the keys in it: *)
(* the order inside a bucket matters to iterators only (DictIter).         *)
(* `h & sizemask` is written `h % size`; sizes are powers of two.          *)
(* Operators named Wrong... are faulty variants of the operator that       *)
(* follows them: no definition uses them (see README, "Mutants").          *)
(***************************************************************************)
EXTENDS Integers, FiniteSets

CONSTANTS Keys,         \* the keys callers use
          Hash,         \* dictHashKey, a function from Keys to Nat
          InitSize,     \* DICT_HT_INITIAL_SIZE
          Sizes,        \* the values _dictNextPower can return, up to a bound
          MaxRequest,   \* bound: the largest size anybody asks _dictNextPower for
          EmptyVisits,  \* empty buckets dictRehash may skip per step (10)
          ForceRatio    \* dict_force_resize_ratio

ASSUME DictAssumption ==
  /\ IsFiniteSet(Keys)
  /\ Hash \in [Keys -> Nat]
  /\ InitSize \in Sizes
  /\ Sizes \subseteq Nat \ {0}
  /\ \A s \in Sizes : s # InitSize => s % 2 = 0 /\ s \div 2 \in Sizes
  /\ MaxRequest \in Nat
  /\ 2 * Cardinality(Keys) <= MaxRequest
  /\ InitSize <= MaxRequest
  /\ \E s \in Sizes : s >= MaxRequest
  /\ EmptyVisits \in Nat \ {0}
  /\ ForceRatio \in Nat

-----------------------------------------------------------------------------
(* One hash table *)

NoTable == [size |-> 0, used |-> 0, table |-> [i \in {} |-> {}]]

NewTable(size) ==
  [size |-> size, used |-> 0, table |-> [i \in 0 .. size - 1 |-> {}]]

Bucket(h, k) == Hash[k] % h.size

Entries(h) == UNION {h.table[i] : i \in 0 .. h.size - 1}

InChain(h, k) == h.size > 0 /\ k \in h.table[Bucket(h, k)]

Insert(h, k) ==
  [size |-> h.size, used |-> h.used + 1,
   table |-> [h.table EXCEPT ![Bucket(h, k)] = @ \cup {k}]]

Unlink(h, k) ==
  [size |-> h.size, used |-> h.used - 1,
   table |-> [h.table EXCEPT ![Bucket(h, k)] = @ \ {k}]]

-----------------------------------------------------------------------------
(* The dict: two tables and an incremental rehash from ht0 to ht1 *)

NewDict == [ht0 |-> NoTable, ht1 |-> NoTable, rehashidx |-> -1, iterators |-> 0]

IsRehashing(d) == d.rehashidx # -1

DictKeys(d) == Entries(d.ht0) \cup Entries(d.ht1)

Used(d) == d.ht0.used + d.ht1.used

WrongHas(d, k) == InChain(d.ht0, k)

(* The lookup loop: ht0, then ht1 while a rehash is under way. *)
Has(d, k) == InChain(d.ht0, k) \/ (IsRehashing(d) /\ InChain(d.ht1, k))

NextPower(size) ==
  CHOOSE s \in Sizes : s >= size /\ \A t \in Sizes : t >= size => s <= t

(* dictExpand refuses while rehashing, when the entries would not fit, and *)
(* when the size would not change.                                         *)
CanExpand(d, size) ==
  /\ ~IsRehashing(d)
  /\ d.ht0.used <= size
  /\ NextPower(size) # d.ht0.size

Expand(d, size) ==
  IF ~CanExpand(d, size) THEN d
  ELSE IF d.ht0.size = 0 THEN [d EXCEPT !.ht0 = NewTable(NextPower(size))]
  ELSE [d EXCEPT !.ht1 = NewTable(NextPower(size)), !.rehashidx = 0]

WrongWantsExpand(d, canResize) ==
  /\ ~IsRehashing(d)
  /\ d.ht0.size = 0 \/ d.ht0.used > d.ht0.size

WantsExpand(d, canResize) ==
  /\ ~IsRehashing(d)
  /\ \/ d.ht0.size = 0
     \/ /\ d.ht0.used >= d.ht0.size
        /\ canResize \/ d.ht0.used \div d.ht0.size > ForceRatio

ExpandRequest(d) == IF d.ht0.size = 0 THEN InitSize ELSE 2 * d.ht0.used

ExpandIfNeeded(d, canResize) ==
  IF WantsExpand(d, canResize) THEN Expand(d, ExpandRequest(d)) ELSE d

(***************************************************************************)
(* dictRehash(d, n).  The loops stop in front of the first bucket at which *)
(* n chains have been moved, n * EmptyVisits empty buckets have been       *)
(* skipped, or nothing is left in ht0.                                     *)
(***************************************************************************)
Passed(d, p) == d.rehashidx .. p - 1

MovedKeys(d, p) == UNION {d.ht0.table[i] : i \in Passed(d, p)}

StopsAt(d, n, p) ==
  \/ Cardinality({i \in Passed(d, p) : d.ht0.table[i] # {}}) = n
  \/ Cardinality({i \in Passed(d, p) : d.ht0.table[i] = {}}) = n * EmptyVisits
  \/ d.ht0.used = Cardinality(MovedKeys(d, p))

StopBucket(d, n) ==
  CHOOSE p \in d.rehashidx .. d.ht0.size :
    /\ StopsAt(d, n, p)
    /\ \A q \in d.rehashidx .. p - 1 : ~StopsAt(d, n, q)

Drained(h, d, p) ==
  [size  |-> h.size,
   used  |-> h.used - Cardinality(MovedKeys(d, p)),
   table |-> [i \in 0 .. h.size - 1 |->
                IF i \in Passed(d, p) THEN {} ELSE h.table[i]]]

WrongFilled(h, moved) ==
  [size  |-> h.size,
   used  |-> h.used + Cardinality(moved),
   table |-> [i \in 0 .. h.size - 1 |->
                h.table[i] \cup {k \in moved : Hash[k] % InitSize = i}]]

Filled(h, moved) ==
  [size  |-> h.size,
   used  |-> h.used + Cardinality(moved),
   table |-> [i \in 0 .. h.size - 1 |->
                h.table[i] \cup {k \in moved : Bucket(h, k) = i}]]

MoveTo(d, p) ==
  LET old == Drained(d.ht0, d, p)
      new == Filled(d.ht1, MovedKeys(d, p))
  IN IF old.used = 0
     THEN [d EXCEPT !.ht0 = new, !.ht1 = NoTable, !.rehashidx = -1]
     ELSE [d EXCEPT !.ht0 = old, !.ht1 = new, !.rehashidx = p]

Rehash(d, n) == IF IsRehashing(d) THEN MoveTo(d, StopBucket(d, n)) ELSE d

WrongRehashStep(d) == Rehash(d, 1)

(* _dictRehashStep: a running safe iterator freezes the two tables. *)
RehashStep(d) == IF d.iterators = 0 THEN Rehash(d, 1) ELSE d

-----------------------------------------------------------------------------
(* The entry points that change the structure *)

(* dictAddRaw up to _dictKeyIndex's answer, and the insertion itself. *)
Prepare(d, canResize) == ExpandIfNeeded(RehashStep(d), canResize)

(* -1 from _dictKeyIndex: the expansion failed, or the key is there. *)
NoIndex(d, k, canResize) ==
  LET s == RehashStep(d)
  IN \/ WantsExpand(s, canResize) /\ ~CanExpand(s, ExpandRequest(s))
     \/ Has(Prepare(d, canResize), k)

AddRaw(d, k, canResize) ==
  LET p == Prepare(d, canResize)
  IN IF NoIndex(d, k, canResize) THEN p
     ELSE IF IsRehashing(p) THEN [p EXCEPT !.ht1 = Insert(@, k)]
     ELSE [p EXCEPT !.ht0 = Insert(@, k)]

WrongLooked(d) == d

(* dictFind takes its rehash step only when the dict is not empty. *)
Looked(d) == IF Used(d) = 0 THEN d ELSE RehashStep(d)

Found(d, k) == Used(d) # 0 /\ Has(RehashStep(d), k)

WrongRemove(d, k) ==
  LET s == RehashStep(d)
  IN IF d.ht0.size = 0 \/ ~Has(s, k) THEN s ELSE [s EXCEPT !.ht0 = Unlink(@, k)]

Remove(d, k) ==
  LET s == RehashStep(d)
  IN IF d.ht0.size = 0 THEN d
     ELSE IF InChain(s.ht0, k) THEN [s EXCEPT !.ht0 = Unlink(@, k)]
     ELSE IF IsRehashing(s) /\ InChain(s.ht1, k) THEN [s EXCEPT !.ht1 = Unlink(@, k)]
     ELSE s

Removes(d, k) == d.ht0.size # 0 /\ Has(RehashStep(d), k)

(* dictResize asks for the smallest table that holds the entries. *)
ResizeRequest(d) == IF d.ht0.used < InitSize THEN InitSize ELSE d.ht0.used

WrongSampled(d) ==
  IF IsRehashing(d)
  THEN Entries(d.ht1)
         \cup (UNION {d.ht0.table[i] : i \in d.rehashidx + 1 .. d.ht0.size - 1})
  ELSE Entries(d.ht0)

(* Chains dictGetRandomKey can hit: all of ht0, or, during a rehash, the   *)
(* buckets of ht0 from rehashidx on and all of ht1.                        *)
Sampled(d) ==
  IF IsRehashing(d)
  THEN Entries(d.ht1)
         \cup (UNION {d.ht0.table[i] : i \in d.rehashidx .. d.ht0.size - 1})
  ELSE Entries(d.ht0)

-----------------------------------------------------------------------------
(* Well-formed tables and dicts *)

TableOK(h) ==
  /\ h = [size |-> h.size, used |-> h.used, table |-> h.table]
  /\ h.size \in Nat
  /\ h.used \in Nat
  /\ h.table \in [0 .. h.size - 1 -> SUBSET Keys]

DictOK(d) ==
  /\ d = [ht0 |-> d.ht0, ht1 |-> d.ht1,
          rehashidx |-> d.rehashidx, iterators |-> d.iterators]
  /\ TableOK(d.ht0)
  /\ TableOK(d.ht1)
  /\ d.rehashidx \in Int
  /\ d.iterators \in Int

(* Every entry is in the chain its hash selects. *)
Placed(h) == \A i \in 0 .. h.size - 1 : \A k \in h.table[i] : Bucket(h, k) = i

Counted(h) == h.used = Cardinality(Entries(h))

(* The buckets of ht0 the rehash has passed are empty. *)
Front(d) ==
  /\ d.rehashidx \in 0 .. d.ht0.size
  /\ d.ht0.size > 0 /\ d.ht1.size > 0
  /\ \A i \in 0 .. d.rehashidx - 1 : d.ht0.table[i] = {}
=============================================================================
