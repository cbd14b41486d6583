--------------------------- MODULE DictOpsProofs ---------------------------
(***************************************************************************)
(* What each operator of DictOps preserves: a good dict stays good, and    *)
(* only insertions, removals and dictEmpty change which keys it holds.     *)
(***************************************************************************)
EXTENDS DictOps, FiniteSetTheorems, WellFoundedInduction, TLAPS

GoodTable(h) == TableOK(h) /\ Placed(h) /\ Counted(h)

Good(d) ==
  /\ DictOK(d)
  /\ GoodTable(d.ht0)
  /\ GoodTable(d.ht1)
  /\ Entries(d.ht0) \cap Entries(d.ht1) = {}
  /\ IF IsRehashing(d) THEN Front(d) ELSE d.ht1 = NoTable

-----------------------------------------------------------------------------
(* A nonempty set of naturals has a least element. *)
LEMMA LeastNatural ==
  ASSUME NEW T, T \subseteq Nat, T # {}
  PROVE  \E x \in T : \A y \in T : x <= y
<1> DEFINE Below == {0 .. n : n \in T}
           R == StrictSubsetOrdering(Nat)
           F == FiniteSubsetsOf(Nat)
<1>1. IsWellFoundedOn(R, F)
  BY FS_StrictSubsetOrderingWellFounded
<1>2. Below \subseteq F
  <2>1. \A n \in Nat : IsFiniteSet(0 .. n)
    BY FS_Interval
  <2> QED
    BY <2>1 DEF FiniteSubsetsOf
<1>3. Below # {}
  OBVIOUS
<1>4. \E b \in Below : \A c \in Below : ~(<<c, b>> \in R)
  <2> HIDE DEF Below, R, F
  <2> QED
    BY <1>1, <1>2, <1>3, WFMin
<1>5. PICK x \in T : \A y \in T : ~(<<0 .. y, 0 .. x>> \in R)
  BY <1>4
<1>6. \A y \in T : ~(y < x)
  <2> SUFFICES ASSUME NEW y \in T, y < x
               PROVE  <<0 .. y, 0 .. x>> \in R
    BY <1>5
  <2>1. 0 .. y \subseteq 0 .. x /\ x \notin 0 .. y /\ x \in 0 .. x
    OBVIOUS
  <2> QED
    BY <2>1 DEF StrictSubsetOrdering
<1> QED
  BY <1>6

-----------------------------------------------------------------------------
(* One hash table *)

LEMMA EntriesFinite ==
  ASSUME NEW h, TableOK(h)
  PROVE  /\ Entries(h) \subseteq Keys
         /\ IsFiniteSet(Entries(h))
         /\ Cardinality(Entries(h)) \in Nat
         /\ Cardinality(Entries(h)) <= Cardinality(Keys)
<1>1. Entries(h) \subseteq Keys
  BY DEF Entries, TableOK
<1> QED
  BY <1>1, FS_Subset, FS_CardinalityType, DictAssumption

LEMMA BucketRange ==
  ASSUME NEW h, TableOK(h), h.size > 0, NEW k \in Keys
  PROVE  Bucket(h, k) \in 0 .. h.size - 1
BY DictAssumption DEF Bucket, TableOK

(* A well-placed key is found by looking at its bucket alone. *)
LEMMA ChainLookup ==
  ASSUME NEW h, TableOK(h), Placed(h), NEW k \in Keys
  PROVE  InChain(h, k) <=> k \in Entries(h)
<1>1. CASE h.size = 0
  BY <1>1 DEF InChain, Entries
<1>2. CASE h.size > 0
  BY <1>2, BucketRange DEF InChain, Entries, Placed
<1> QED
  BY <1>1, <1>2 DEF TableOK

LEMMA NoTableGood == GoodTable(NoTable) /\ Entries(NoTable) = {}
<1>1. Entries(NoTable) = {}
  BY DEF Entries, NoTable
<1> QED
  BY <1>1, FS_EmptySet DEF GoodTable, TableOK, Placed, Counted, NoTable

LEMMA NewTableGood ==
  ASSUME NEW size \in Nat
  PROVE  GoodTable(NewTable(size)) /\ Entries(NewTable(size)) = {}
<1>1. Entries(NewTable(size)) = {}
  BY DEF Entries, NewTable
<1> QED
  BY <1>1, FS_EmptySet DEF GoodTable, TableOK, Placed, Counted, NewTable

LEMMA InsertGood ==
  ASSUME NEW h, GoodTable(h), h.size > 0, NEW k \in Keys, k \notin Entries(h)
  PROVE  /\ GoodTable(Insert(h, k))
         /\ Entries(Insert(h, k)) = Entries(h) \cup {k}
         /\ Insert(h, k).size = h.size
<1> DEFINE g == Insert(h, k)
           b == Bucket(h, k)
<1>1. TableOK(h) /\ b \in 0 .. h.size - 1
  BY BucketRange DEF GoodTable
<1>2. /\ g = [size |-> h.size, used |-> h.used + 1,
             table |-> [h.table EXCEPT ![b] = @ \cup {k}]]
      /\ g.table = [h.table EXCEPT ![b] = @ \cup {k}]
      /\ g.size = h.size /\ g.used = h.used + 1
  BY <1>1 DEF Insert, TableOK
<1>3. TableOK(g)
  BY <1>1, <1>2 DEF TableOK
<1>4. \A i \in 0 .. h.size - 1 :
        g.table[i] = IF i = b THEN h.table[i] \cup {k} ELSE h.table[i]
  BY <1>1, <1>2 DEF TableOK
<1>5. Entries(g) = Entries(h) \cup {k}
  BY <1>1, <1>2, <1>4 DEF Entries
<1>6. Placed(g)
  BY <1>1, <1>2, <1>4 DEF Placed, Bucket, GoodTable
<1>7. Counted(g)
  <2>1. IsFiniteSet(Entries(h)) /\ Cardinality(Entries(h)) = h.used
    BY <1>1, EntriesFinite DEF Counted, GoodTable
  <2> DEFINE entries == Entries(h)
  <2>2. Cardinality(entries \cup {k}) = h.used + 1
    <3> HIDE DEF entries
    <3> QED
      BY <2>1, FS_AddElement DEF entries
  <2> HIDE DEF g
  <2> QED
    BY <1>2, <1>5, <2>2 DEF Counted
<1> HIDE DEF g
<1> QED
  BY <1>2, <1>3, <1>5, <1>6, <1>7 DEF GoodTable, g

LEMMA UnlinkGood ==
  ASSUME NEW h, GoodTable(h), NEW k \in Keys, k \in Entries(h)
  PROVE  /\ GoodTable(Unlink(h, k))
         /\ Entries(Unlink(h, k)) = Entries(h) \ {k}
         /\ Unlink(h, k).size = h.size
         /\ \A i \in 0 .. h.size - 1 : Unlink(h, k).table[i] \subseteq h.table[i]
<1> DEFINE g == Unlink(h, k)
           b == Bucket(h, k)
<1>1. TableOK(h) /\ h.size > 0
  BY DEF GoodTable, TableOK, Entries
<1>2. b \in 0 .. h.size - 1 /\ k \in h.table[b]
  BY <1>1, BucketRange, ChainLookup DEF GoodTable, InChain
<1>3. /\ g = [size |-> h.size, used |-> h.used - 1,
             table |-> [h.table EXCEPT ![b] = @ \ {k}]]
      /\ g.table = [h.table EXCEPT ![b] = @ \ {k}]
      /\ g.size = h.size /\ g.used = h.used - 1
  BY <1>1 DEF Unlink, TableOK
<1>4. \A i \in 0 .. h.size - 1 : k \in h.table[i] => i = b
  BY DEF GoodTable, Placed
<1>5. \A i \in 0 .. h.size - 1 : g.table[i] = h.table[i] \ {k}
  BY <1>1, <1>2, <1>3, <1>4 DEF TableOK
<1>6. Entries(g) = Entries(h) \ {k}
  <2> HIDE DEF g
  <2> QED
    BY <1>3, <1>5 DEF Entries
<1>7. Placed(g)
  BY <1>3, <1>5 DEF Placed, Bucket, GoodTable
<1>8. Counted(g) /\ g.used \in Nat
  <2>1. Cardinality(Entries(g)) = Cardinality(Entries(h)) - 1
    BY <1>1, <1>6, EntriesFinite, FS_RemoveElement
  <2>2. Cardinality(Entries(g)) \in Nat
    BY <1>1, <1>6, EntriesFinite, FS_RemoveElement, FS_CardinalityType
  <2> QED
    BY <1>3, <2>1, <2>2 DEF Counted, GoodTable
<1>9. TableOK(g)
  BY <1>1, <1>2, <1>3, <1>8 DEF TableOK
<1> HIDE DEF g
<1> QED
  BY <1>3, <1>5, <1>6, <1>7, <1>8, <1>9 DEF GoodTable, g

-----------------------------------------------------------------------------
(* The incremental rehash *)

LEMMA MoveGood ==
  ASSUME NEW d, Good(d), IsRehashing(d),
         NEW p \in d.rehashidx .. d.ht0.size
  PROVE  /\ Good(MoveTo(d, p))
         /\ DictKeys(MoveTo(d, p)) = DictKeys(d)
         /\ MoveTo(d, p).iterators = d.iterators
<1> DEFINE moved == MovedKeys(d, p)
           old == Drained(d.ht0, d, p)
           new == Filled(d.ht1, moved)
<1>1. /\ TableOK(d.ht0) /\ Placed(d.ht0) /\ Counted(d.ht0)
      /\ TableOK(d.ht1) /\ Placed(d.ht1) /\ Counted(d.ht1)
      /\ Front(d) /\ d.rehashidx \in Nat /\ d.ht0.size \in Nat
      /\ p \in Nat /\ p <= d.ht0.size
  BY DEF Good, GoodTable, DictOK, TableOK, Front
<1>2. moved \subseteq Entries(d.ht0) /\ moved \subseteq Keys
  <2>1. Passed(d, p) \subseteq 0 .. d.ht0.size - 1
    BY <1>1, SMT DEF Passed
  <2>2. \A i \in 0 .. d.ht0.size - 1 : d.ht0.table[i] \subseteq Keys
    <3>1. d.ht0.table \in [0 .. d.ht0.size - 1 -> SUBSET Keys]
      BY <1>1 DEF TableOK
    <3> QED
      BY <3>1
  <2> DEFINE buckets == 0 .. d.ht0.size - 1
             passed == Passed(d, p)
  <2> HIDE DEF buckets, passed
  <2>3. moved = UNION {d.ht0.table[i] : i \in passed}
    BY DEF MovedKeys, passed
  <2>4. Entries(d.ht0) = UNION {d.ht0.table[i] : i \in buckets}
    BY DEF Entries, buckets
  <2>5. passed \subseteq buckets /\ \A i \in buckets : d.ht0.table[i] \subseteq Keys
    BY <2>1, <2>2 DEF passed, buckets
  <2> HIDE DEF moved
  <2> QED
    BY <2>3, <2>4, <2>5
<1>3. IsFiniteSet(moved) /\ Cardinality(moved) \in Nat
  BY <1>2, DictAssumption, FS_Subset, FS_CardinalityType
<1>4. /\ old.size = d.ht0.size
      /\ old.used = d.ht0.used - Cardinality(moved)
      /\ \A i \in 0 .. d.ht0.size - 1 :
           old.table[i] = IF i \in Passed(d, p) THEN {} ELSE d.ht0.table[i]
  BY DEF Drained
<1>5. Entries(old) = Entries(d.ht0) \ moved
  <2>1. \A i, j \in 0 .. d.ht0.size - 1 : \A k :
          k \in d.ht0.table[i] /\ k \in d.ht0.table[j] => i = j
    BY <1>1 DEF Placed
  <2>2. Passed(d, p) \subseteq 0 .. d.ht0.size - 1
    BY <1>1, SMT DEF Passed
  <2> HIDE DEF old
  <2> QED
    BY <1>4, <2>1, <2>2 DEF Entries, MovedKeys
<1>6. Cardinality(Entries(old)) = old.used /\ old.used \in Nat
  <2>1. Entries(d.ht0) \cap moved = moved
    BY <1>2
  <2>2. Cardinality(Entries(old)) = Cardinality(Entries(d.ht0)) - Cardinality(moved)
    BY <1>1, <1>5, <2>1, EntriesFinite, FS_Difference
  <2>3. Cardinality(Entries(old)) \in Nat
    BY <1>1, <1>5, EntriesFinite, FS_Difference, FS_CardinalityType
  <2> QED
    BY <1>1, <1>4, <2>2, <2>3 DEF Counted
<1>7. GoodTable(old)
  <2>1. TableOK(old)
    BY <1>1, <1>6 DEF TableOK, Drained
  <2>2. Placed(old)
    BY <1>1, <1>4 DEF Placed, Bucket
  <2> QED
    BY <1>6, <2>1, <2>2 DEF GoodTable, Counted
<1>8. /\ new.size = d.ht1.size
      /\ new.used = d.ht1.used + Cardinality(moved)
      /\ \A i \in 0 .. d.ht1.size - 1 :
           new.table[i] = d.ht1.table[i] \cup {k \in moved : Bucket(d.ht1, k) = i}
  BY DEF Filled
<1>9. Entries(new) = Entries(d.ht1) \cup moved
  <2>1. \A k \in moved : Bucket(d.ht1, k) \in 0 .. d.ht1.size - 1
    BY <1>1, <1>2, BucketRange DEF Front
  <2> HIDE DEF new, moved
  <2> QED
    BY <1>8, <2>1 DEF Entries
<1>10. GoodTable(new)
  <2>1. Entries(d.ht1) \cap moved = {}
    BY <1>2 DEF Good
  <2>2. Cardinality(Entries(new)) = Cardinality(Entries(d.ht1)) + Cardinality(moved)
    <3>1. Cardinality(Entries(d.ht1) \cup moved)
            = Cardinality(Entries(d.ht1)) + Cardinality(moved) - Cardinality({})
      BY <1>1, <1>3, <2>1, EntriesFinite, FS_Union
    <3> QED
      BY <3>1, <1>1, <1>3, <1>9, EntriesFinite, FS_EmptySet
  <2>3. TableOK(new)
    BY <1>1, <1>2, <1>3 DEF TableOK, Filled
  <2>4. Placed(new)
    BY <1>1, <1>8 DEF Placed, Bucket
  <2> QED
    BY <1>1, <1>8, <2>2, <2>3, <2>4 DEF GoodTable, Counted
<1>11. CASE old.used = 0
  <2>1. MoveTo(d, p) = [d EXCEPT !.ht0 = new, !.ht1 = NoTable, !.rehashidx = -1]
    BY <1>11 DEF MoveTo
  <2>2. MoveTo(d, p) = [ht0 |-> new, ht1 |-> NoTable,
                        rehashidx |-> -1, iterators |-> d.iterators]
    <3> HIDE DEF new
    <3> QED
      BY <2>1 DEF Good, DictOK
  <2>3. Entries(old) = {}
    BY <1>11, <1>6, <1>7, EntriesFinite, FS_EmptySet DEF GoodTable
  <2>4. Entries(new) = DictKeys(d)
    BY <1>2, <1>5, <1>9, <2>3 DEF DictKeys
  <2> HIDE DEF new, old
  <2> QED
    BY <2>2, <2>4, <1>10, NoTableGood
    DEF Good, DictOK, IsRehashing, DictKeys, GoodTable
<1>12. CASE old.used # 0
  <2>1. MoveTo(d, p) = [d EXCEPT !.ht0 = old, !.ht1 = new, !.rehashidx = p]
    BY <1>12 DEF MoveTo
  <2>2. MoveTo(d, p) = [ht0 |-> old, ht1 |-> new,
                        rehashidx |-> p, iterators |-> d.iterators]
    <3> HIDE DEF new, old
    <3> QED
      BY <2>1 DEF Good, DictOK
  <2>3. Front(MoveTo(d, p))
    <3>1. \A i \in 0 .. p - 1 : old.table[i] = {}
      <4> TAKE i \in 0 .. p - 1
      <4>1. i \in 0 .. d.ht0.size - 1
        BY <1>1
      <4>2. old.table[i] = IF i \in Passed(d, p) THEN {} ELSE d.ht0.table[i]
        BY <1>4, <4>1
      <4>3. i \notin Passed(d, p) => d.ht0.table[i] = {}
        BY <1>1 DEF Front, Passed
      <4> HIDE DEF old
      <4> QED
        BY <4>2, <4>3
    <3> HIDE DEF new, old
    <3> QED
      BY <2>2, <3>1, <1>1, <1>4, <1>8 DEF Front
  <2>4. Entries(old) \cap Entries(new) = {}
    BY <1>2, <1>5, <1>9 DEF Good
  <2>5. Entries(old) \cup Entries(new) = DictKeys(d)
    BY <1>2, <1>5, <1>9 DEF DictKeys
  <2> HIDE DEF new, old
  <2> QED
    BY <2>2, <2>3, <2>4, <2>5, <1>1, <1>7, <1>10
    DEF Good, DictOK, IsRehashing, DictKeys, GoodTable
<1> QED
  BY <1>11, <1>12

(* The two loops of dictRehash stop inside the old table (dict.c:254).     *)
LEMMA StopBucketRange ==
  ASSUME NEW d, Good(d), IsRehashing(d), NEW n
  PROVE  /\ StopBucket(d, n) \in d.rehashidx .. d.ht0.size
         /\ StopsAt(d, n, StopBucket(d, n))
<1> DEFINE T == {p \in d.rehashidx .. d.ht0.size : StopsAt(d, n, p)}
<1>1. d.rehashidx \in 0 .. d.ht0.size /\ d.ht0.size \in Nat
  BY DEF Good, Front, DictOK, TableOK
<1>2. d.ht0.size \in T
  <2>1. MovedKeys(d, d.ht0.size) = Entries(d.ht0)
    BY <1>1 DEF MovedKeys, Passed, Entries, Good, Front
  <2>2. StopsAt(d, n, d.ht0.size)
    BY <2>1 DEF StopsAt, Good, GoodTable, Counted
  <2> QED
    BY <1>1, <2>2
<1>3. PICK x \in T : \A y \in T : x <= y
  <2>1. T \subseteq Nat
    BY <1>1
  <2> HIDE DEF T
  <2> QED
    BY <1>2, <2>1, LeastNatural
<1>4. /\ x \in d.rehashidx .. d.ht0.size
      /\ StopsAt(d, n, x)
      /\ \A q \in d.rehashidx .. x - 1 : ~StopsAt(d, n, q)
  BY <1>1, <1>3
<1> QED
  BY <1>4 DEF StopBucket

LEMMA RehashGood ==
  ASSUME NEW d, Good(d), NEW n
  PROVE  /\ Good(Rehash(d, n))
         /\ DictKeys(Rehash(d, n)) = DictKeys(d)
         /\ Rehash(d, n).iterators = d.iterators
BY MoveGood, StopBucketRange DEF Rehash

LEMMA RehashStepGood ==
  ASSUME NEW d, Good(d)
  PROVE  /\ Good(RehashStep(d))
         /\ DictKeys(RehashStep(d)) = DictKeys(d)
         /\ RehashStep(d).iterators = d.iterators
BY RehashGood DEF RehashStep

-----------------------------------------------------------------------------
(* Expansion *)

LEMMA NextPowerRange ==
  ASSUME NEW size \in Nat, size <= MaxRequest
  PROVE  /\ NextPower(size) \in Sizes
         /\ NextPower(size) \in Nat \ {0}
         /\ NextPower(size) >= size
<1> DEFINE T == {s \in Sizes : s >= size}
<1>1. T \subseteq Nat /\ T # {}
  <2>1. PICK s \in Sizes : s >= MaxRequest
    BY DictAssumption
  <2>2. Sizes \subseteq Nat /\ s \in Nat /\ MaxRequest \in Nat
    BY DictAssumption
  <2>3. s \in T
    BY <2>1, <2>2
  <2> QED
    BY <2>2, <2>3
<1>2. PICK x \in T : \A y \in T : x <= y
  <2> HIDE DEF T
  <2> QED
    BY <1>1, LeastNatural
<1>3. x \in Sizes /\ x >= size /\ \A t \in Sizes : t >= size => x <= t
  BY <1>2
<1> QED
  BY <1>3, DictAssumption DEF NextPower

LEMMA ExpandGood ==
  ASSUME NEW d, Good(d), NEW size \in Nat, size <= MaxRequest
  PROVE  /\ Good(Expand(d, size))
         /\ DictKeys(Expand(d, size)) = DictKeys(d)
         /\ Expand(d, size).iterators = d.iterators
         /\ CanExpand(d, size) => Expand(d, size).ht0.size > 0
         /\ d.ht0.size > 0 => Expand(d, size).ht0.size > 0
<1> DEFINE n == NextPower(size)
<1>1. n \in Nat \ {0} /\ GoodTable(NewTable(n)) /\ Entries(NewTable(n)) = {}
  BY NextPowerRange, NewTableGood
<1>2. NewTable(n).size = n
  BY DEF NewTable
<1>3. DictOK(d) /\ TableOK(d.ht0)
  BY DEF Good, DictOK
<1> HIDE DEF n
<1>4. CASE ~CanExpand(d, size)
  BY <1>4 DEF Expand
<1>5. CASE CanExpand(d, size) /\ d.ht0.size = 0
  <2>1. Expand(d, size) = [ht0 |-> NewTable(n), ht1 |-> d.ht1,
                           rehashidx |-> d.rehashidx, iterators |-> d.iterators]
    BY <1>5, <1>3 DEF Expand, DictOK, n
  <2>2. Entries(d.ht0) = {}
    BY <1>5 DEF Entries
  <2> QED
    BY <1>1, <1>2, <1>5, <2>1, <2>2
    DEF Good, GoodTable, DictOK, DictKeys, CanExpand, IsRehashing
<1>6. CASE CanExpand(d, size) /\ d.ht0.size # 0
  <2>1. Expand(d, size) = [ht0 |-> d.ht0, ht1 |-> NewTable(n),
                           rehashidx |-> 0, iterators |-> d.iterators]
    BY <1>6, <1>3 DEF Expand, DictOK, n
  <2>2. d.ht1 = NoTable /\ d.ht0.size \in Nat
    BY <1>6, <1>3 DEF Good, CanExpand, TableOK
  <2>3. Front(Expand(d, size))
    BY <1>1, <1>2, <1>6, <2>1, <2>2 DEF Front
  <2> QED
    BY <1>1, <1>6, <2>1, <2>2, <2>3, NoTableGood
    DEF Good, GoodTable, DictOK, DictKeys, CanExpand, IsRehashing
<1> QED
  BY <1>4, <1>5, <1>6

(* dict.c:973: _dictExpandIfNeeded never fails, so -1 always means that    *)
(* the key is there.                                                       *)
LEMMA WantedExpandSucceeds ==
  ASSUME NEW d, Good(d), NEW c, WantsExpand(d, c)
  PROVE  /\ ExpandRequest(d) \in Nat
         /\ ExpandRequest(d) <= MaxRequest
         /\ CanExpand(d, ExpandRequest(d))
<1>1. /\ d.ht0.size \in Nat /\ d.ht0.used \in Nat
      /\ d.ht0.used = Cardinality(Entries(d.ht0))
      /\ Cardinality(Entries(d.ht0)) <= Cardinality(Keys)
      /\ Cardinality(Keys) \in Nat
  BY EntriesFinite, DictAssumption, FS_CardinalityType
  DEF Good, GoodTable, Counted, TableOK
<1>2. CASE d.ht0.size = 0
  <2>1. d.ht0.used = 0
    BY <1>1, <1>2, FS_EmptySet DEF Entries
  <2>2. ExpandRequest(d) = InitSize /\ InitSize \in Nat /\ InitSize <= MaxRequest
    BY <1>2, DictAssumption DEF ExpandRequest
  <2>3. NextPower(InitSize) # 0
    BY <2>2, NextPowerRange
  <2> QED
    BY <1>2, <2>1, <2>2, <2>3 DEF CanExpand, WantsExpand
<1>3. CASE d.ht0.size # 0
  <2>1. /\ ExpandRequest(d) = 2 * d.ht0.used
        /\ d.ht0.used >= d.ht0.size
    BY <1>3 DEF ExpandRequest, WantsExpand
  <2>2. ExpandRequest(d) \in Nat /\ ExpandRequest(d) <= MaxRequest
    BY <1>1, <2>1, DictAssumption
  <2>3. NextPower(ExpandRequest(d)) >= ExpandRequest(d)
        /\ NextPower(ExpandRequest(d)) \in Nat
    BY <2>2, NextPowerRange
  <2>4. NextPower(ExpandRequest(d)) # d.ht0.size
    BY <1>1, <1>3, <2>1, <2>3
  <2> QED
    BY <1>1, <2>1, <2>2, <2>4 DEF CanExpand, WantsExpand
<1> QED
  BY <1>2, <1>3

-----------------------------------------------------------------------------
(* Lookup, insertion and removal *)

LEMMA HasMeansKey ==
  ASSUME NEW d, Good(d), NEW k \in Keys
  PROVE  Has(d, k) <=> k \in DictKeys(d)
BY ChainLookup, NoTableGood DEF Has, DictKeys, Good, GoodTable

LEMMA PrepareGood ==
  ASSUME NEW d, Good(d), NEW c
  PROVE  /\ Good(Prepare(d, c))
         /\ DictKeys(Prepare(d, c)) = DictKeys(d)
         /\ Prepare(d, c).iterators = d.iterators
         /\ Prepare(d, c).ht0.size > 0
<1> DEFINE s == RehashStep(d)
<1>1. Good(s) /\ DictKeys(s) = DictKeys(d) /\ s.iterators = d.iterators
  BY RehashStepGood
<1> HIDE DEF s
<1>2. Prepare(d, c) = ExpandIfNeeded(s, c)
  BY DEF Prepare, s
<1>3. CASE WantsExpand(s, c)
  BY <1>1, <1>2, <1>3, WantedExpandSucceeds, ExpandGood DEF ExpandIfNeeded
<1>4. CASE ~WantsExpand(s, c)
  <2>1. s.ht0.size > 0
    BY <1>1, <1>4 DEF WantsExpand, Good, Front, DictOK, TableOK
  <2> QED
    BY <1>1, <1>2, <1>4, <2>1 DEF ExpandIfNeeded
<1> QED
  BY <1>3, <1>4

LEMMA NoIndexMeansKey ==
  ASSUME NEW d, Good(d), NEW c, NEW k \in Keys
  PROVE  NoIndex(d, k, c) <=> k \in DictKeys(d)
BY RehashStepGood, WantedExpandSucceeds, PrepareGood, HasMeansKey DEF NoIndex

LEMMA AddRawGood ==
  ASSUME NEW d, Good(d), NEW c, NEW k \in Keys
  PROVE  /\ Good(AddRaw(d, k, c))
         /\ DictKeys(AddRaw(d, k, c)) = DictKeys(d) \cup {k}
         /\ AddRaw(d, k, c).iterators = d.iterators
<1> DEFINE p == Prepare(d, c)
<1>1. /\ Good(p) /\ DictKeys(p) = DictKeys(d) /\ p.iterators = d.iterators
      /\ p.ht0.size > 0
  BY PrepareGood
<1>2. CASE k \in DictKeys(d)
  BY <1>1, <1>2, NoIndexMeansKey DEF AddRaw
<1>3. CASE k \notin DictKeys(d)
  <2>1. AddRaw(d, k, c) = IF IsRehashing(p) THEN [p EXCEPT !.ht1 = Insert(@, k)]
                          ELSE [p EXCEPT !.ht0 = Insert(@, k)]
    BY <1>3, NoIndexMeansKey DEF AddRaw
  <2> HIDE DEF p
  <2>2. k \notin Entries(p.ht0) /\ k \notin Entries(p.ht1)
    BY <1>1, <1>3 DEF DictKeys
  <2>3. CASE IsRehashing(p)
    <3>1. AddRaw(d, k, c) = [ht0 |-> p.ht0, ht1 |-> Insert(p.ht1, k),
                             rehashidx |-> p.rehashidx, iterators |-> p.iterators]
      BY <1>1, <2>1, <2>3 DEF Good, DictOK
    <3>2. /\ GoodTable(Insert(p.ht1, k))
          /\ Entries(Insert(p.ht1, k)) = Entries(p.ht1) \cup {k}
          /\ Insert(p.ht1, k).size = p.ht1.size
      BY <1>1, <2>2, <2>3, InsertGood DEF Good, Front
    <3> QED
      BY <1>1, <2>2, <2>3, <3>1, <3>2
      DEF Good, DictOK, GoodTable, IsRehashing, Front, DictKeys
  <2>4. CASE ~IsRehashing(p)
    <3>1. AddRaw(d, k, c) = [ht0 |-> Insert(p.ht0, k), ht1 |-> p.ht1,
                             rehashidx |-> p.rehashidx, iterators |-> p.iterators]
      BY <1>1, <2>1, <2>4 DEF Good, DictOK
    <3>2. /\ GoodTable(Insert(p.ht0, k))
          /\ Entries(Insert(p.ht0, k)) = Entries(p.ht0) \cup {k}
      BY <1>1, <2>2, InsertGood DEF Good
    <3> QED
      BY <1>1, <2>2, <2>4, <3>1, <3>2, NoTableGood
      DEF Good, DictOK, GoodTable, IsRehashing, DictKeys
  <2> QED
    BY <2>3, <2>4
<1> QED
  BY <1>2, <1>3

(* An empty dict is one whose counters are zero (dict.c:497).              *)
LEMMA UsedZeroMeansEmpty ==
  ASSUME NEW d, Good(d)
  PROVE  /\ Used(d) \in Nat
         /\ Used(d) = 0 <=> DictKeys(d) = {}
<1>1. /\ d.ht0.used \in Nat /\ d.ht1.used \in Nat
      /\ d.ht0.used = 0 <=> Entries(d.ht0) = {}
      /\ d.ht1.used = 0 <=> Entries(d.ht1) = {}
  BY EntriesFinite, FS_EmptySet DEF Good, GoodTable, TableOK, Counted
<1>2. Used(d) \in Nat /\ (Used(d) = 0 <=> d.ht0.used = 0 /\ d.ht1.used = 0)
  BY <1>1 DEF Used
<1>3. DictKeys(d) = {} <=> Entries(d.ht0) = {} /\ Entries(d.ht1) = {}
  BY DEF DictKeys
<1> QED
  BY <1>1, <1>2, <1>3

LEMMA LookedGood ==
  ASSUME NEW d, Good(d)
  PROVE  /\ Good(Looked(d))
         /\ DictKeys(Looked(d)) = DictKeys(d)
         /\ Looked(d).iterators = d.iterators
         /\ \A k \in Keys : Found(d, k) <=> k \in DictKeys(d)
BY RehashStepGood, HasMeansKey, UsedZeroMeansEmpty DEF Looked, Found

LEMMA RemoveGood ==
  ASSUME NEW d, Good(d), NEW k \in Keys
  PROVE  /\ Good(Remove(d, k))
         /\ DictKeys(Remove(d, k)) = DictKeys(d) \ {k}
         /\ Remove(d, k).iterators = d.iterators
         /\ Removes(d, k) <=> k \in DictKeys(d)
<1> DEFINE s == RehashStep(d)
<1>1. Good(s) /\ DictKeys(s) = DictKeys(d) /\ s.iterators = d.iterators
  BY RehashStepGood
<1>2. d.ht0.size = 0 => DictKeys(d) = {}
  BY NoTableGood DEF Good, DictKeys, Entries, Front
<1>3. Removes(d, k) <=> k \in DictKeys(d)
  BY <1>1, <1>2, HasMeansKey DEF Removes
<1>4. CASE d.ht0.size = 0
  BY <1>2, <1>3, <1>4 DEF Remove
<1>5. CASE d.ht0.size # 0
  <2>1. Remove(d, k) = IF InChain(s.ht0, k) THEN [s EXCEPT !.ht0 = Unlink(@, k)]
          ELSE IF IsRehashing(s) /\ InChain(s.ht1, k) THEN [s EXCEPT !.ht1 = Unlink(@, k)]
          ELSE s
    BY <1>5 DEF Remove
  <2> HIDE DEF s
  <2>2. /\ InChain(s.ht0, k) <=> k \in Entries(s.ht0)
        /\ InChain(s.ht1, k) <=> k \in Entries(s.ht1)
    BY <1>1, ChainLookup DEF Good, GoodTable
  <2>3. CASE k \in Entries(s.ht0)
    <3>1. Remove(d, k) = [ht0 |-> Unlink(s.ht0, k), ht1 |-> s.ht1,
                          rehashidx |-> s.rehashidx, iterators |-> s.iterators]
      BY <1>1, <2>1, <2>2, <2>3 DEF Good, DictOK
    <3>2. /\ GoodTable(Unlink(s.ht0, k))
          /\ Entries(Unlink(s.ht0, k)) = Entries(s.ht0) \ {k}
          /\ Unlink(s.ht0, k).size = s.ht0.size
          /\ \A i \in 0 .. s.ht0.size - 1 : Unlink(s.ht0, k).table[i] \subseteq s.ht0.table[i]
      BY <1>1, <2>3, UnlinkGood DEF Good
    <3>3. Front(s) => Front(Remove(d, k))
      <4> SUFFICES ASSUME Front(s) PROVE Front(Remove(d, k))
        OBVIOUS
      <4>1. s.rehashidx \in Int /\ s.ht0.size \in Nat
        BY <1>1 DEF Good, DictOK, TableOK
      <4>2. \A i \in 0 .. s.rehashidx - 1 : i \in 0 .. s.ht0.size - 1
        BY <4>1 DEF Front
      <4>3. \A i \in 0 .. s.rehashidx - 1 : Unlink(s.ht0, k).table[i] = {}
        BY <3>2, <4>2 DEF Front
      <4> QED
        BY <3>1, <3>2, <4>3 DEF Front
    <3> QED
      BY <1>1, <1>3, <2>3, <3>1, <3>2, <3>3
      DEF Good, DictOK, GoodTable, IsRehashing, DictKeys
  <2>4. CASE k \notin Entries(s.ht0) /\ k \in Entries(s.ht1)
    <3>1. IsRehashing(s)
      BY <1>1, <2>4, NoTableGood DEF Good
    <3>2. Remove(d, k) = [ht0 |-> s.ht0, ht1 |-> Unlink(s.ht1, k),
                          rehashidx |-> s.rehashidx, iterators |-> s.iterators]
      BY <1>1, <2>1, <2>2, <2>4, <3>1 DEF Good, DictOK
    <3>3. /\ GoodTable(Unlink(s.ht1, k))
          /\ Entries(Unlink(s.ht1, k)) = Entries(s.ht1) \ {k}
          /\ Unlink(s.ht1, k).size = s.ht1.size
      BY <1>1, <2>4, UnlinkGood DEF Good
    <3> QED
      BY <1>1, <1>3, <2>4, <3>1, <3>2, <3>3
      DEF Good, DictOK, GoodTable, IsRehashing, DictKeys, Front
  <2>5. CASE k \notin Entries(s.ht0) /\ k \notin Entries(s.ht1)
    BY <1>1, <1>3, <2>1, <2>2, <2>5 DEF DictKeys
  <2> QED
    BY <2>3, <2>4, <2>5
<1> QED
  BY <1>4, <1>5

LEMMA SampledIsAll ==
  ASSUME NEW d, Good(d)
  PROVE  Sampled(d) = DictKeys(d)
<1>1. CASE IsRehashing(d)
  <2> DEFINE rest == UNION {d.ht0.table[i] : i \in d.rehashidx .. d.ht0.size - 1}
  <2>1. /\ d.rehashidx \in 0 .. d.ht0.size /\ d.ht0.size \in Nat
        /\ \A i \in 0 .. d.rehashidx - 1 : d.ht0.table[i] = {}
    BY <1>1 DEF Good, Front, DictOK, TableOK
  <2>2. rest = Entries(d.ht0)
    BY <2>1 DEF Entries
  <2>3. Sampled(d) = Entries(d.ht1) \cup rest
    BY <1>1 DEF Sampled
  <2> QED
    BY <2>2, <2>3 DEF DictKeys
<1>2. CASE ~IsRehashing(d)
  BY <1>2, NoTableGood DEF Sampled, DictKeys, Good
<1> QED
  BY <1>1, <1>2

LEMMA NewDictGood == Good(NewDict) /\ DictKeys(NewDict) = {} /\ NewDict.iterators = 0
BY NoTableGood DEF NewDict, Good, DictOK, GoodTable, IsRehashing, DictKeys

-----------------------------------------------------------------------------
(* A running iterator stops the rehash steps (dict.c:317-319).             *)
LEMMA FrozenLooked ==
  ASSUME NEW a, a.iterators # 0
  PROVE  RehashStep(a) = a /\ Looked(a) = a
BY DEF RehashStep, Looked

LEMMA ExpandIterators ==
  ASSUME NEW a, Good(a), NEW size
  PROVE  Expand(a, size).iterators = a.iterators
BY DEF Good, DictOK, Expand
=============================================================================
