--------------------------- MODULE DictIterProofs ---------------------------
(***************************************************************************)
(* Safe iterators return every lasting entry, none twice, and follow no    *)
(* freed entry unless a caller deletes one out of turn; a scan ends, and   *)
(* returns every lasting entry unless its cursor is folded: for every      *)
(* number of iterators, keys and table sizes.                              *)
(***************************************************************************)
EXTENDS DictScan, DictOpsProofs

(* What lies behind position x of a table, and before an iterator at       *)
(* bucket x of table t of dict a.                                          *)
Rest(h, x) == UNION {h.table[j] : j \in x + 1 .. h.size - 1}

Coming(a, t, x) ==
  IF t = 1 THEN Rest(a.ht1, x) ELSE Rest(a.ht0, x) \cup Entries(a.ht1)

(* What iterator r has still to return.                                    *)
Pending(a, r) ==
  Coming(a, r.table, r.index) \cup r.behind
    \cup (IF r.next = Null \/ r.freed THEN {} ELSE {r.next})

(* Inside: what is due has been returned or is pending, never both, and    *)
(* the entries saved from the chain are not met again.                     *)
Walking(a, r) ==
  /\ r.index >= -1
  /\ r.table = 1 => IsRehashing(a)
  /\ r.due \subseteq r.seen \cup Pending(a, r)
  /\ r.seen \cap Pending(a, r) = {}
  /\ r.seen \subseteq DictKeys(a)
  /\ Pending(a, r) \subseteq DictKeys(a)
  /\ r.behind \cap Coming(a, r.table, r.index) = {}
  /\ ~r.freed => r.next \notin r.behind \cup Coming(a, r.table, r.index)
  /\ r.next \notin r.behind
  /\ r.next = Null => r.behind = {} /\ ~r.freed
  /\ r.entry # r.next

GoodIter(a, r) ==
  /\ r.phase = "idle" => r = Idle
  /\ r.phase = "ended" => /\ r.entry = Null /\ r.next = Null /\ ~r.freed
                          /\ r.due \subseteq r.seen /\ r.seen \subseteq DictKeys(a)
  /\ r.phase = "inside" => Walking(a, r)

IterInv ==
  /\ TypeOK
  /\ Good(d)
  /\ d.iterators = Cardinality({i \in Iters : Running(i)})
  /\ \A i \in Iters : GoodIter(d, it[i])
  /\ (crashed \/ \E i \in Iters : it[i].freed) => stray

-----------------------------------------------------------------------------
(* What operations leave before an iterator.                               *)

LEMMA RestEntries ==
  ASSUME NEW h, TableOK(h), NEW x \in Int, x >= -1
  PROVE  Rest(h, x) \subseteq Entries(h) /\ Rest(h, -1) = Entries(h)
BY DEF Rest, Entries, TableOK

LEMMA RestInsert ==
  ASSUME NEW h, GoodTable(h), h.size > 0, NEW k \in Keys, NEW x \in Int, x >= -1
  PROVE  /\ Rest(h, x) \subseteq Rest(Insert(h, k), x)
         /\ Rest(Insert(h, k), x) \subseteq Rest(h, x) \cup {k}
<1>1. h.size \in Nat /\ h.table \in [0 .. h.size - 1 -> SUBSET Keys]
  BY DEF GoodTable, TableOK
<1>2. /\ Insert(h, k).size = h.size
      /\ \A j \in 0 .. h.size - 1 : /\ h.table[j] \subseteq Insert(h, k).table[j]
                                    /\ Insert(h, k).table[j] \subseteq h.table[j] \cup {k}
  BY <1>1 DEF Insert
<1>3. \A j \in x + 1 .. h.size - 1 : j \in 0 .. h.size - 1
  BY <1>1
<1> QED
  BY <1>2, <1>3 DEF Rest

LEMMA RestUnlink ==
  ASSUME NEW h, GoodTable(h), NEW k \in Keys, NEW x \in Int, x >= -1
  PROVE  Rest(Unlink(h, k), x) = Rest(h, x) \ {k}
<1>1. h.size \in Nat /\ h.table \in [0 .. h.size - 1 -> SUBSET Keys]
  BY DEF GoodTable, TableOK
<1>2. /\ Unlink(h, k).size = h.size
      /\ \A j \in 0 .. h.size - 1 : Unlink(h, k).table[j] = h.table[j] \ {k}
  BY <1>1 DEF Unlink, GoodTable, Placed
<1>3. \A j \in x + 1 .. h.size - 1 : j \in 0 .. h.size - 1
  BY <1>1
<1> QED
  BY <1>2, <1>3 DEF Rest

LEMMA ComingInDict ==
  ASSUME NEW a, Good(a), NEW t, NEW x \in Int, x >= -1
  PROVE  Coming(a, t, x) \subseteq DictKeys(a) /\ Coming(a, 0, -1) = DictKeys(a)
BY RestEntries DEF Coming, DictKeys, Good, GoodTable

LEMMA ComingExpand ==
  ASSUME NEW a, Good(a), NEW size, NEW t, NEW x \in Int, x >= -1,
         t = 1 => IsRehashing(a)
  PROVE  /\ Coming(Expand(a, size), t, x) = Coming(a, t, x)
         /\ IsRehashing(a) => IsRehashing(Expand(a, size))
<1> DEFINE n == NextPower(size)
<1>1. CASE ~CanExpand(a, size)
  BY <1>1 DEF Expand
<1> SUFFICES ASSUME CanExpand(a, size) PROVE Coming(Expand(a, size), t, x) = Coming(a, t, x)
  BY <1>1 DEF CanExpand
<1>2. ~IsRehashing(a) /\ t # 1 /\ a.ht1 = NoTable
  BY DEF CanExpand, Good
<1>3. \A y : Rest(NewTable(n), x) = {} /\ Entries(NewTable(n)) = {}
  <2>1. \A j \in x + 1 .. n - 1 : j \in 0 .. n - 1 \/ n \notin Int
    OBVIOUS
  <2> QED
    BY <2>1 DEF Rest, Entries, NewTable
<1>4. CASE a.ht0.size = 0
  <2>1. Expand(a, size).ht0 = NewTable(n) /\ Expand(a, size).ht1 = a.ht1
    BY <1>4 DEF Expand, Good, DictOK
  <2>2. Rest(a.ht0, x) = {}
    BY <1>4 DEF Rest
  <2> QED
    BY <1>2, <1>3, <2>1, <2>2 DEF Coming
<1>5. CASE a.ht0.size # 0
  <2>1. Expand(a, size).ht0 = a.ht0 /\ Expand(a, size).ht1 = NewTable(n)
    BY <1>5 DEF Expand, Good, DictOK
  <2> QED
    BY <1>2, <1>3, <2>1, NoTableGood DEF Coming
<1> QED
  BY <1>4, <1>5

(* An insertion puts at most the new key before an iterator, a removal     *)
(* takes only the removed one away.                                        *)
LEMMA ComingAdd ==
  ASSUME NEW a, Good(a), a.iterators # 0, NEW k \in Keys, NEW t, NEW x \in Int, x >= -1,
         t = 1 => IsRehashing(a)
  PROVE  LET b == AddRaw(a, k, TRUE)
         IN /\ Coming(a, t, x) \subseteq Coming(b, t, x)
            /\ Coming(b, t, x) \subseteq Coming(a, t, x) \cup ({k} \ DictKeys(a))
            /\ IsRehashing(a) => IsRehashing(b)
<1> DEFINE p == Prepare(a, TRUE)
           b == AddRaw(a, k, TRUE)
<1>1. /\ Good(p) /\ p.ht0.size > 0 /\ DictKeys(p) = DictKeys(a)
      /\ Coming(p, t, x) = Coming(a, t, x)
      /\ IsRehashing(a) => IsRehashing(p)
  <2>1. p = a \/ p = Expand(a, ExpandRequest(a))
    BY FrozenLooked DEF Prepare, ExpandIfNeeded
  <2>2. Good(p) /\ p.ht0.size > 0 /\ DictKeys(p) = DictKeys(a)
    BY PrepareGood
  <2> HIDE DEF p
  <2> QED
    BY <2>1, <2>2, ComingExpand
<1>2. CASE NoIndex(a, k, TRUE)
  BY <1>1, <1>2 DEF AddRaw
<1>3. CASE ~NoIndex(a, k, TRUE)
  <2>1. b = IF IsRehashing(p) THEN [p EXCEPT !.ht1 = Insert(@, k)]
            ELSE [p EXCEPT !.ht0 = Insert(@, k)]
    BY <1>3 DEF AddRaw
  <2>2. k \notin DictKeys(a) /\ k \notin Entries(p.ht1)
    BY <1>1, <1>3, NoIndexMeansKey DEF DictKeys
  <2> HIDE DEF p, b
  <2>3. CASE IsRehashing(p)
    <3>1. b.ht0 = p.ht0 /\ b.ht1 = Insert(p.ht1, k) /\ b.rehashidx = p.rehashidx
      BY <1>1, <2>1, <2>3 DEF Good, DictOK
    <3>2. GoodTable(p.ht1) /\ p.ht1.size > 0
      BY <1>1, <2>3 DEF Good, Front
    <3>3. /\ Entries(Insert(p.ht1, k)) = Entries(p.ht1) \cup {k}
          /\ Rest(p.ht1, x) \subseteq Rest(Insert(p.ht1, k), x)
          /\ Rest(Insert(p.ht1, k), x) \subseteq Rest(p.ht1, x) \cup {k}
      BY <2>2, <3>2, InsertGood, RestInsert
    <3>4. /\ Coming(p, t, x) \subseteq Coming(b, t, x)
          /\ Coming(b, t, x) \subseteq Coming(p, t, x) \cup {k}
      BY <3>1, <3>3 DEF Coming
    <3> QED
      BY <1>1, <2>2, <2>3, <3>1, <3>4 DEF IsRehashing, b
  <2>4. CASE ~IsRehashing(p)
    <3>1. b.ht0 = Insert(p.ht0, k) /\ b.ht1 = p.ht1 /\ b.rehashidx = p.rehashidx
      BY <1>1, <2>1, <2>4 DEF Good, DictOK
    <3>2. GoodTable(p.ht0) /\ t # 1
      BY <1>1, <2>4 DEF Good
    <3>3. /\ Rest(p.ht0, x) \subseteq Rest(Insert(p.ht0, k), x)
          /\ Rest(Insert(p.ht0, k), x) \subseteq Rest(p.ht0, x) \cup {k}
      BY <1>1, <3>2, RestInsert
    <3>4. /\ Coming(p, t, x) \subseteq Coming(b, t, x)
          /\ Coming(b, t, x) \subseteq Coming(p, t, x) \cup {k}
      BY <3>1, <3>2, <3>3 DEF Coming
    <3> QED
      BY <1>1, <2>2, <2>4, <3>1, <3>4 DEF b
  <2> QED
    BY <2>3, <2>4
<1> QED
  BY <1>2, <1>3

LEMMA ComingRemove ==
  ASSUME NEW a, Good(a), a.iterators # 0, NEW k \in Keys, NEW t, NEW x \in Int, x >= -1
  PROVE  LET b == Remove(a, k)
         IN /\ Coming(b, t, x) = Coming(a, t, x) \ {k}
            /\ IsRehashing(a) => IsRehashing(b)
<1> DEFINE b == Remove(a, k)
<1>1. b = IF a.ht0.size = 0 THEN a
          ELSE IF InChain(a.ht0, k) THEN [a EXCEPT !.ht0 = Unlink(@, k)]
          ELSE IF IsRehashing(a) /\ InChain(a.ht1, k) THEN [a EXCEPT !.ht1 = Unlink(@, k)]
          ELSE a
  BY FrozenLooked DEF Remove
<1>2. /\ InChain(a.ht0, k) <=> k \in Entries(a.ht0)
      /\ InChain(a.ht1, k) <=> k \in Entries(a.ht1)
  BY ChainLookup DEF Good, GoodTable
<1>3. /\ TableOK(a.ht0) /\ TableOK(a.ht1)
      /\ Rest(a.ht0, x) \subseteq Entries(a.ht0)
      /\ Rest(a.ht1, x) \subseteq Entries(a.ht1)
  BY RestEntries DEF Good, GoodTable
<1>4. Entries(a.ht0) \cap Entries(a.ht1) = {}
  BY DEF Good
<1> HIDE DEF b
<1>5. CASE k \in Entries(a.ht0)
  <2>1. a.ht0.size # 0
    BY <1>5 DEF Entries
  <2>2. b.ht0 = Unlink(a.ht0, k) /\ b.ht1 = a.ht1 /\ b.rehashidx = a.rehashidx
    BY <1>1, <1>2, <1>5, <2>1 DEF Good, DictOK
  <2>3. Rest(Unlink(a.ht0, k), x) = Rest(a.ht0, x) \ {k}
    BY RestUnlink DEF Good
  <2>4. k \notin Entries(a.ht1) /\ k \notin Rest(a.ht1, x)
    BY <1>3, <1>4, <1>5
  <2> QED
    BY <2>2, <2>3, <2>4 DEF Coming, IsRehashing, b
<1>6. CASE k \notin Entries(a.ht0) /\ k \in Entries(a.ht1)
  <2>1. IsRehashing(a) /\ a.ht0.size # 0
    BY <1>6, NoTableGood DEF Good, Front
  <2>2. b.ht0 = a.ht0 /\ b.ht1 = Unlink(a.ht1, k) /\ b.rehashidx = a.rehashidx
    BY <1>1, <1>2, <1>6, <2>1 DEF Good, DictOK
  <2>3. /\ Rest(Unlink(a.ht1, k), x) = Rest(a.ht1, x) \ {k}
        /\ Entries(Unlink(a.ht1, k)) = Entries(a.ht1) \ {k}
    BY <1>6, RestUnlink, UnlinkGood DEF Good
  <2>4. k \notin Rest(a.ht0, x)
    BY <1>3, <1>6
  <2> QED
    BY <2>2, <2>3, <2>4 DEF Coming, IsRehashing, b
<1>7. CASE k \notin Entries(a.ht0) /\ k \notin Entries(a.ht1)
  <2>1. b = a
    BY <1>1, <1>2, <1>7
  <2>2. k \notin Coming(a, t, x)
    BY <1>3, <1>7 DEF Coming
  <2> QED
    BY <2>1, <2>2 DEF b
<1> QED
  BY <1>5, <1>6, <1>7

-----------------------------------------------------------------------------
(* The bucket dictNext finds next.                                         *)

LEMMA RestFirst ==
  ASSUME NEW h, GoodTable(h), NEW x \in Int, x >= -1, NEW j \in x + 1 .. h.size - 1,
         \A m \in x + 1 .. h.size - 1 : h.table[m] = {} \/ j <= m
  PROVE  /\ Rest(h, x) = h.table[j] \cup Rest(h, j)
         /\ h.table[j] \cap Rest(h, j) = {}
         /\ h.table[j] \subseteq Entries(h)
<1>1. h.size \in Nat /\ j \in 0 .. h.size - 1 /\ j \in Nat
  BY DEF GoodTable, TableOK
<1>2. \A m \in x + 1 .. h.size - 1 : h.table[m] = {} \/ m = j \/ m \in j + 1 .. h.size - 1
  BY <1>1
<1>3. \A m \in j + 1 .. h.size - 1 : m \in x + 1 .. h.size - 1 /\ m \in 0 .. h.size - 1 /\ m # j
  BY <1>1
<1>4. Rest(h, x) = h.table[j] \cup Rest(h, j)
  BY <1>2, <1>3 DEF Rest
<1>5. h.table[j] \cap Rest(h, j) = {}
  BY <1>1, <1>3 DEF Rest, GoodTable, Placed
<1> QED
  BY <1>1, <1>4, <1>5 DEF Entries

LEMMA FirstBucket ==
  ASSUME Good(d), NEW i, it[i].table \in {0, 1}, it[i].index \in Int, it[i].index >= -1,
         it[i].table = 1 => IsRehashing(d),
         NEW b \in Occupied(i), \A c \in Occupied(i) : c = b \/ Before(b, c)
  PROVE  /\ b[1] \in {0, 1} /\ b[2] \in Nat /\ (b[1] = 1 => IsRehashing(d))
         /\ Coming(d, it[i].table, it[i].index) = Chain(b) \cup Coming(d, b[1], b[2])
         /\ Chain(b) \cap Coming(d, b[1], b[2]) = {}
         /\ Chain(b) \subseteq DictKeys(d)
<1> DEFINE t == it[i].table
           x == it[i].index
<1>1. /\ GoodTable(d.ht0) /\ GoodTable(d.ht1)
      /\ d.ht0.size \in Nat /\ d.ht1.size \in Nat
      /\ Entries(d.ht0) \cap Entries(d.ht1) = {}
  BY DEF Good, GoodTable, TableOK
<1>2. t = 0 => \A j \in x + 1 .. d.ht0.size - 1 : <<0, j>> \in Ahead(i)
  BY DEF Ahead
<1>3. t = 1 => \A j \in x + 1 .. d.ht1.size - 1 : <<1, j>> \in Ahead(i)
  BY DEF Ahead
<1>4. t = 0 /\ IsRehashing(d) => \A j \in 0 .. d.ht1.size - 1 : <<1, j>> \in Ahead(i)
  BY DEF Ahead
<1>5. /\ b \in Ahead(i) /\ Chain(b) # {}
      /\ \A c \in Ahead(i) : Chain(c) = {} \/ c = b \/ Before(b, c)
  BY DEF Occupied
<1>6. CASE t = 1
  <2>1. PICK j \in x + 1 .. d.ht1.size - 1 : b = <<1, j>>
    BY <1>5, <1>6 DEF Ahead
  <2>2. Chain(b) = d.ht1.table[j] /\ j \in Nat /\ IsRehashing(d)
    BY <1>1, <1>6, <2>1 DEF Chain
  <2>3. \A m \in x + 1 .. d.ht1.size - 1 : d.ht1.table[m] = {} \/ j <= m
    <3> TAKE m \in x + 1 .. d.ht1.size - 1
    <3>1. Chain(<<1, m>>) = {} \/ <<1, m>> = b \/ Before(b, <<1, m>>)
      BY <1>3, <1>5, <1>6
    <3> QED
      BY <1>1, <2>1, <2>2, <3>1 DEF Chain, Before
  <2>4. /\ Rest(d.ht1, x) = d.ht1.table[j] \cup Rest(d.ht1, j)
        /\ d.ht1.table[j] \cap Rest(d.ht1, j) = {}
        /\ d.ht1.table[j] \subseteq Entries(d.ht1)
    BY <1>1, <2>3, RestFirst
  <2> QED
    BY <1>6, <2>1, <2>2, <2>4 DEF Coming, DictKeys
<1>7. CASE t = 0 /\ b[1] = 0
  <2>1. PICK j \in x + 1 .. d.ht0.size - 1 : b = <<0, j>>
    BY <1>5, <1>7 DEF Ahead
  <2>2. Chain(b) = d.ht0.table[j] /\ j \in Nat
    BY <1>1, <2>1 DEF Chain
  <2>3. \A m \in x + 1 .. d.ht0.size - 1 : d.ht0.table[m] = {} \/ j <= m
    <3> TAKE m \in x + 1 .. d.ht0.size - 1
    <3>1. Chain(<<0, m>>) = {} \/ <<0, m>> = b \/ Before(b, <<0, m>>)
      BY <1>2, <1>5, <1>7
    <3> QED
      BY <1>1, <2>1, <2>2, <3>1 DEF Chain, Before
  <2>4. /\ Rest(d.ht0, x) = d.ht0.table[j] \cup Rest(d.ht0, j)
        /\ d.ht0.table[j] \cap Rest(d.ht0, j) = {}
        /\ d.ht0.table[j] \subseteq Entries(d.ht0)
    BY <1>1, <2>3, RestFirst
  <2> QED
    BY <1>1, <1>7, <2>1, <2>2, <2>4 DEF Coming, DictKeys
<1>8. CASE t = 0 /\ b[1] # 0
  <2>1. PICK j \in 0 .. d.ht1.size - 1 : b = <<1, j>> /\ IsRehashing(d)
    BY <1>5, <1>8 DEF Ahead
  <2>2. Chain(b) = d.ht1.table[j] /\ j \in Nat
    BY <1>1, <2>1 DEF Chain
  <2>3. \A m \in x + 1 .. d.ht0.size - 1 : d.ht0.table[m] = {}
    <3> TAKE m \in x + 1 .. d.ht0.size - 1
    <3>1. Chain(<<0, m>>) = {} \/ <<0, m>> = b \/ Before(b, <<0, m>>)
      BY <1>2, <1>5, <1>8
    <3> QED
      BY <2>1, <3>1 DEF Chain, Before
  <2>4. \A m \in 0 .. d.ht1.size - 1 : d.ht1.table[m] = {} \/ j <= m
    <3> TAKE m \in 0 .. d.ht1.size - 1
    <3>1. Chain(<<1, m>>) = {} \/ <<1, m>> = b \/ Before(b, <<1, m>>)
      BY <1>4, <1>5, <1>8, <2>1
    <3> QED
      BY <1>1, <2>1, <2>2, <3>1 DEF Chain, Before
  <2>5. /\ Rest(d.ht1, -1) = d.ht1.table[j] \cup Rest(d.ht1, j)
        /\ d.ht1.table[j] \cap Rest(d.ht1, j) = {}
        /\ d.ht1.table[j] \subseteq Entries(d.ht1)
    BY <1>1, <2>4, RestFirst
  <2>6. Rest(d.ht1, -1) = Entries(d.ht1) /\ Rest(d.ht0, x) = {}
    BY <1>1, <2>3, RestEntries DEF Rest, GoodTable
  <2> QED
    BY <1>8, <2>1, <2>2, <2>5, <2>6 DEF Coming, DictKeys
<1> QED
  BY <1>6, <1>7, <1>8

LEMMA NoBucketLeft ==
  ASSUME Good(d), NEW i, it[i].table \in {0, 1}, Occupied(i) = {}
  PROVE  Coming(d, it[i].table, it[i].index) = {}
<1> DEFINE t == it[i].table
           x == it[i].index
<1>1. \A b \in Ahead(i) : Chain(b) = {}
  BY DEF Occupied
<1>2. CASE t = 1
  <2>1. \A j \in x + 1 .. d.ht1.size - 1 : d.ht1.table[j] = {}
    <3> TAKE j \in x + 1 .. d.ht1.size - 1
    <3>1. <<1, j>> \in Ahead(i)
      BY <1>2 DEF Ahead
    <3> QED
      BY <1>1, <3>1 DEF Chain
  <2> QED
    BY <1>2, <2>1 DEF Coming, Rest
<1>3. CASE t = 0
  <2>1. \A j \in x + 1 .. d.ht0.size - 1 : d.ht0.table[j] = {}
    <3> TAKE j \in x + 1 .. d.ht0.size - 1
    <3>1. <<0, j>> \in Ahead(i)
      BY <1>3 DEF Ahead
    <3> QED
      BY <1>1, <3>1 DEF Chain
  <2>2. Entries(d.ht1) = {}
    <3>1. CASE ~IsRehashing(d)
      BY <3>1, NoTableGood DEF Good
    <3>2. CASE IsRehashing(d)
      <4>1. \A j \in 0 .. d.ht1.size - 1 : d.ht1.table[j] = {}
        <5> TAKE j \in 0 .. d.ht1.size - 1
        <5>1. <<1, j>> \in Ahead(i)
          BY <1>3, <3>2 DEF Ahead
        <5> QED
          BY <1>1, <5>1 DEF Chain
      <4> QED
        BY <4>1 DEF Entries
    <3> QED
      BY <3>1, <3>2
  <2> QED
    BY <1>3, <2>1, <2>2 DEF Coming, Rest
<1> QED
  BY <1>2, <1>3

-----------------------------------------------------------------------------
(* What operations make of one iterator.                                   *)

(* An iterator survives whatever keeps the keys it knows before it or away *)
(* from it, and adds none but new ones.                                    *)
LEMMA KeepGood ==
  ASSUME NEW a, NEW b, NEW r \in Iterator, GoodIter(a, r), NEW new,
         new \subseteq Keys, new \cap DictKeys(a) = {},
         DictKeys(b) = DictKeys(a) \cup new,
         IsRehashing(a) => IsRehashing(b),
         r.phase = "inside" =>
           /\ Coming(a, r.table, r.index) \subseteq Coming(b, r.table, r.index)
           /\ Coming(b, r.table, r.index) \subseteq Coming(a, r.table, r.index) \cup new
  PROVE  GoodIter(b, r)
<1>1. CASE r.phase # "inside"
  BY <1>1 DEF GoodIter
<1>2. CASE r.phase = "inside"
  <2>1. Walking(a, r)
    BY <1>2 DEF GoodIter
  <2>2. r.seen \cap new = {} /\ r.behind \cap new = {}
    BY <2>1 DEF Walking, Pending
  <2>3. /\ Pending(a, r) \subseteq Pending(b, r)
        /\ Pending(b, r) \subseteq Pending(a, r) \cup new
    BY <1>2 DEF Pending
  <2>4. ~r.freed => r.next \notin new
    <3>1. ~r.freed /\ r.next # Null => r.next \in DictKeys(a)
      BY <2>1 DEF Pending, Walking
    <3>2. r.next = Null => r.next \notin new
      BY IterAssumption, <1>2
    <3> QED
      BY <3>1, <3>2
  <2>5. Walking(b, r)
    BY <1>2, <2>1, <2>2, <2>3, <2>4 DEF Walking
  <2> QED
    BY <1>2, <2>5 DEF GoodIter
<1> QED
  BY <1>1, <1>2

LEMMA ForgetShape ==
  ASSUME NEW r \in Iterator, NEW k \in Keys
  PROVE  LET f == Forget(r, k)
         IN /\ f \in Iterator
            /\ f.phase = r.phase /\ f.table = r.table /\ f.index = r.index
            /\ f.entry = r.entry /\ f.next = r.next
            /\ f.freed = (r.freed \/ r.next = k)
            /\ f.behind = r.behind \ {k}
            /\ f.seen = r.seen \ {k}
            /\ f.due = r.due \ {k}
BY DEF Forget, Iterator

(* Deleting k takes it from what an iterator knows and from the dict.      *)
LEMMA ForgetGood ==
  ASSUME NEW a, NEW b, NEW r \in Iterator, GoodIter(a, r), NEW k \in Keys,
         r.phase # "idle",
         DictKeys(b) = DictKeys(a) \ {k},
         IsRehashing(a) => IsRehashing(b),
         r.phase = "inside" =>
           Coming(b, r.table, r.index) = Coming(a, r.table, r.index) \ {k}
  PROVE  /\ GoodIter(b, Forget(r, k))
         /\ Forget(r, k).freed /\ ~r.freed => r.phase = "inside" /\ r.entry # k
<1> DEFINE f == Forget(r, k)
<1>1. /\ f \in Iterator
      /\ f.phase = r.phase /\ f.table = r.table /\ f.index = r.index
      /\ f.entry = r.entry /\ f.next = r.next
      /\ f.freed = (r.freed \/ r.next = k)
      /\ f.behind = r.behind \ {k}
      /\ f.seen = r.seen \ {k}
      /\ f.due = r.due \ {k}
  BY ForgetShape
<1> HIDE DEF f
<1>2. k # Null
  BY IterAssumption
<1>3. CASE r.phase = "ended"
  <2>1. ~f.freed /\ f.next = Null
    BY <1>1, <1>2, <1>3 DEF GoodIter
  <2> QED
    BY <1>1, <1>3, <2>1 DEF GoodIter, f
<1>4. CASE r.phase = "inside"
  <2>1. Walking(a, r)
    BY <1>4 DEF GoodIter
  <2>2. Pending(b, f) = Pending(a, r) \ {k}
    BY <1>1, <1>4 DEF Pending
  <2>3. Walking(b, f)
    BY <1>1, <1>2, <1>4, <2>1, <2>2 DEF Walking
  <2>4. f.freed /\ ~r.freed => r.entry # k
    BY <1>1, <2>1 DEF Walking
  <2> QED
    BY <1>1, <1>4, <2>3, <2>4 DEF GoodIter, f
<1> QED
  BY <1>3, <1>4 DEF Iterator

(* dictNext moving iterator i to entry e, rest behind it in its chain.     *)
LEMMA ReturnGood ==
  ASSUME TypeOK, NEW i \in Iters, NEW b, NEW e \in Keys, NEW rest, Return(i, b, e, rest),
         NEW due, due = Due(it[i]),
         due \subseteq Keys, ~it[i].freed,
         b[1] \in {0, 1}, b[2] \in Int, b[2] >= -1, b[1] = 1 => IsRehashing(d),
         rest \cup {e} \subseteq DictKeys(d), DictKeys(d) \subseteq Keys, e \notin rest,
         Coming(d, b[1], b[2]) \subseteq DictKeys(d),
         (rest \cup {e}) \cap Coming(d, b[1], b[2]) = {},
         it[i].seen \subseteq DictKeys(d),
         it[i].seen \cap (rest \cup {e} \cup Coming(d, b[1], b[2])) = {},
         due \subseteq it[i].seen \cup rest \cup {e} \cup Coming(d, b[1], b[2])
  PROVE  /\ it' \in [Iters -> Iterator]
         /\ \A j \in Iters \ {i} : it'[j] = it[j]
         /\ it'[i].phase = "inside" /\ ~it'[i].freed /\ it'[i].entry = e
         /\ GoodIter(d, it'[i])
<1> DEFINE r == it'[i]
<1>1. PICK n \in (IF rest = {} THEN {Null} ELSE rest) :
        it' = [it EXCEPT ![i] = At(@, b, e, n, rest \ {n})]
  BY DEF Return
<1>2. it[i] \in Iterator /\ it \in [Iters -> Iterator]
  BY DEF TypeOK
<1>3. n \in Keys \cup {Null} /\ rest \subseteq Keys /\ e \notin rest \ {n} /\ e # n
  BY IterAssumption
<1>4. r = At(it[i], b, e, n, rest \ {n}) /\ \A j \in Iters \ {i} : it'[j] = it[j]
  BY <1>1, <1>2
<1>5. r = [phase |-> "inside", table |-> b[1], index |-> b[2],
           entry |-> e, next |-> n, behind |-> rest \ {n},
           freed |-> FALSE, seen |-> it[i].seen \cup {e}, due |-> due]
  <2> HIDE DEF r
  <2> QED
    BY <1>2, <1>4 DEF Iterator, At, Due
<1>6. it[i].seen \subseteq Keys
  BY <1>2 DEF Iterator
<1> HIDE DEF r
<1>7. r \in Iterator
  BY <1>3, <1>5, <1>6 DEF Iterator
<1>8. it' \in [Iters -> Iterator]
  BY <1>1, <1>2, <1>4, <1>7 DEF r
<1>9. Pending(d, r) = Coming(d, b[1], b[2]) \cup rest
  <2>1. CASE rest = {}
    BY <1>5, <2>1 DEF Pending
  <2>2. CASE rest # {}
    <3>1. n \in rest /\ n # Null
      BY <2>2, <1>3, IterAssumption
    <3> QED
      BY <1>5, <3>1 DEF Pending
  <2> QED
    BY <2>1, <2>2
<1>10. n \notin Coming(d, b[1], b[2])
  BY IterAssumption
<1>11. n = Null => rest = {}
  BY IterAssumption
<1>12. Walking(d, r)
  <2> DEFINE coming == Coming(d, b[1], b[2])
             pending == Pending(d, r)
             keys == DictKeys(d)
             seen == it[i].seen
  <2>1. /\ r.table = b[1] /\ r.index = b[2] /\ r.entry = e /\ r.next = n
        /\ r.behind = rest \ {n} /\ r.freed = FALSE
        /\ r.seen = seen \cup {e} /\ r.due = due
    BY <1>5
  <2>2. pending = coming \cup rest
    BY <1>9
  <2>3. /\ rest \cup {e} \subseteq keys /\ coming \subseteq keys /\ e \notin rest
        /\ (rest \cup {e}) \cap coming = {} /\ seen \subseteq keys
        /\ seen \cap (rest \cup {e} \cup coming) = {}
        /\ due \subseteq seen \cup rest \cup {e} \cup coming
    OBVIOUS
  <2> HIDE DEF coming, pending, keys, seen
  <2>4. /\ r.due \subseteq r.seen \cup pending /\ r.seen \cap pending = {}
        /\ r.seen \subseteq keys /\ pending \subseteq keys
    BY <2>1, <2>2, <2>3
  <2>5. r.behind \cap coming = {} /\ r.next \notin r.behind \cup coming
    BY <2>1, <2>3, <1>10 DEF coming
  <2>6. (r.next = Null => r.behind = {} /\ ~r.freed) /\ r.entry # r.next
    BY <2>1, <1>3, <1>11
  <2>7. Coming(d, r.table, r.index) = coming
    BY <2>1 DEF coming
  <2>8. r.index >= -1 /\ (r.table = 1 => IsRehashing(d))
    BY <2>1
  <2> QED
    BY <2>4, <2>5, <2>6, <2>7, <2>8 DEF Walking, pending, keys
<1> QED
  BY <1>4, <1>5, <1>8, <1>12 DEF GoodIter, r

-----------------------------------------------------------------------------
(* The steps of DictIter.                                                  *)

LEMMA IdleGood == Idle \in Iterator /\ \A a : GoodIter(a, Idle)
BY DEF Idle, Iterator, GoodIter

(* No iterator runs when the dict counts none, and one that runs counts.   *)
LEMMA CountRunning ==
  ASSUME IterInv
  PROVE  /\ IsFiniteSet({i \in Iters : Running(i)})
         /\ d.iterators = 0 => \A i \in Iters : it[i].phase = "idle"
<1> DEFINE R == {i \in Iters : Running(i)}
<1>1. IsFiniteSet(R)
  BY IterAssumption, FS_Subset
<1>2. d.iterators = 0 => R = {}
  BY <1>1, FS_EmptySet DEF IterInv
<1> QED
  BY <1>1, <1>2 DEF IterInv, TypeOK, Iterator, Running

(* The steps that leave the iterators alone.                               *)
LEMMA OthersKeep ==
  ASSUME IterInv, UNCHANGED <<it, crashed, stray>>, Good(d'), d'.iterators = d.iterators,
         \A i \in Iters : GoodIter(d', it[i])
  PROVE  IterInv'
<1>1. TypeOK'
  BY DEF IterInv, TypeOK, Good
<1>2. {i \in Iters : Running(i)}' = {i \in Iters : Running(i)}
  BY DEF Running
<1> QED
  BY <1>1, <1>2 DEF IterInv

LEMMA IdleKeep ==
  ASSUME IterInv, d.iterators = 0
  PROVE  \A i \in Iters : \A a : GoodIter(a, it[i])
BY CountRunning, IdleGood DEF IterInv, GoodIter

LEMMA AddKeeps ==
  ASSUME IterInv, NEW k \in Keys, Add(k)
  PROVE  IterInv'
<1>1. /\ Good(d) /\ Good(d') /\ d'.iterators = d.iterators
      /\ DictKeys(d') = DictKeys(d) \cup {k} /\ d' = AddRaw(d, k, TRUE)
  BY AddRawGood DEF Add, IterInv
<1>2. ASSUME d.iterators # 0, NEW i \in Iters
      PROVE  GoodIter(d', it[i])
  <2>1. it[i] \in Iterator /\ GoodIter(d, it[i])
    BY DEF IterInv, TypeOK
  <2> DEFINE r == it[i]
  <2>2. /\ IsRehashing(d) => IsRehashing(d')
        /\ r.phase = "inside" =>
             /\ Coming(d, r.table, r.index) \subseteq Coming(d', r.table, r.index)
             /\ Coming(d', r.table, r.index)
                  \subseteq Coming(d, r.table, r.index) \cup ({k} \ DictKeys(d))
    <3>1. ASSUME NEW t, NEW x \in Int, x >= -1, t = 1 => IsRehashing(d)
          PROVE  /\ Coming(d, t, x) \subseteq Coming(d', t, x)
                 /\ Coming(d', t, x) \subseteq Coming(d, t, x) \cup ({k} \ DictKeys(d))
                 /\ IsRehashing(d) => IsRehashing(d')
      <4> DEFINE b == AddRaw(d, k, TRUE)
      <4>1. /\ Coming(d, t, x) \subseteq Coming(b, t, x)
            /\ Coming(b, t, x) \subseteq Coming(d, t, x) \cup ({k} \ DictKeys(d))
            /\ IsRehashing(d) => IsRehashing(b)
        BY <1>1, <1>2, <3>1, ComingAdd
      <4>2. d' = b
        BY <1>1
      <4> HIDE DEF b
      <4> QED
        BY <4>1, <4>2
    <3>2. IsRehashing(d) => IsRehashing(d')
      BY <3>1, 0 # 1, -1 \in Int, -1 >= -1
    <3>3. CASE r.phase = "inside"
      <4>1. r.index \in Int /\ r.index >= -1 /\ (r.table = 1 => IsRehashing(d))
        BY <2>1, <3>3 DEF GoodIter, Walking, Iterator
      <4> HIDE DEF r
      <4> QED
        BY <3>1, <3>2, <4>1
    <3> QED
      BY <3>2, <3>3
  <2>3. {k} \ DictKeys(d) \subseteq Keys /\ ({k} \ DictKeys(d)) \cap DictKeys(d) = {}
    OBVIOUS
  <2>4. DictKeys(d') = DictKeys(d) \cup ({k} \ DictKeys(d))
    BY <1>1
  <2> DEFINE new == {k} \ DictKeys(d)
  <2> HIDE DEF r, new
  <2>5. r \in Iterator /\ GoodIter(d, r)
    BY <2>1 DEF r
  <2>6. GoodIter(d', r)
    BY <2>2, <2>3, <2>4, <2>5, KeepGood DEF new
  <2> QED
    BY <2>6 DEF r
<1> QED
  BY <1>1, <1>2, IdleKeep, OthersKeep DEF Add

LEMMA FindKeeps ==
  ASSUME IterInv, Find
  PROVE  IterInv'
<1>1. Good(d') /\ d'.iterators = d.iterators
  BY LookedGood DEF Find, IterInv
<1>2. d.iterators # 0 => \A i \in Iters : GoodIter(d', it[i])
  BY FrozenLooked DEF Find, IterInv
<1> QED
  BY <1>1, <1>2, IdleKeep, OthersKeep DEF Find

LEMMA ExpandKeeps ==
  ASSUME IterInv, NEW size \in Nat, size <= MaxRequest, d' = Expand(d, size),
         UNCHANGED <<it, crashed, stray>>
  PROVE  IterInv'
<1>1. Good(d) /\ Good(d') /\ DictKeys(d') = DictKeys(d) /\ d'.iterators = d.iterators
  BY ExpandGood DEF IterInv
<1>2. ASSUME NEW i \in Iters PROVE GoodIter(d', it[i])
  <2>1. it[i] \in Iterator /\ GoodIter(d, it[i])
    BY DEF IterInv, TypeOK
  <2> DEFINE r == it[i]
  <2>2. IsRehashing(d) => IsRehashing(d')
    BY <1>1, ComingExpand, 0 # 1, -1 \in Int, -1 >= -1
  <2>3. r.phase = "inside" => Coming(d', r.table, r.index) = Coming(d, r.table, r.index)
    BY <1>1, <2>1, ComingExpand DEF GoodIter, Walking, Iterator
  <2> HIDE DEF r
  <2>4. r \in Iterator /\ GoodIter(d, r)
    BY <2>1 DEF r
  <2>5. DictKeys(d') = DictKeys(d) \cup {}
    BY <1>1
  <2> DEFINE none == {}
  <2>6. none \subseteq Keys /\ none \cap DictKeys(d) = {} /\ DictKeys(d') = DictKeys(d) \cup none
    BY <2>5
  <2>7. r.phase = "inside" =>
          /\ Coming(d, r.table, r.index) \subseteq Coming(d', r.table, r.index)
          /\ Coming(d', r.table, r.index) \subseteq Coming(d, r.table, r.index) \cup none
    BY <2>3 DEF r
  <2> HIDE DEF none
  <2>8. GoodIter(d', r)
    BY <2>2, <2>4, <2>6, <2>7, KeepGood
  <2> QED
    BY <2>8 DEF r
<1> QED
  BY <1>1, <1>2, OthersKeep

(* dictDelete: a freed entry under an iterator was deleted out of turn.    *)
LEMMA DeleteKeeps ==
  ASSUME IterInv, NEW k \in Keys, Delete(k)
  PROVE  IterInv'
<1>1. /\ Good(d) /\ Good(d') /\ d' = Remove(d, k) /\ d'.iterators = d.iterators
      /\ DictKeys(d') = DictKeys(d) \ {k}
  BY RemoveGood DEF Delete, IterInv
<1>2. \A i \in Iters : it'[i] = IF Running(i) THEN Forget(it[i], k) ELSE it[i]
  BY DEF Delete
<1>3. \A i \in Iters : it[i] \in Iterator /\ GoodIter(d, it[i])
  BY DEF IterInv, TypeOK
<1>4. \A i \in Iters : it'[i] \in Iterator /\ it'[i].phase = it[i].phase
  BY <1>2, <1>3, ForgetShape
<1>5. it' = [i \in Iters |-> it'[i]]
  BY DEF Delete
<1>6. TypeOK'
  BY <1>1, <1>4, <1>5 DEF TypeOK, IterInv, Delete, Good
<1>7. {i \in Iters : Running(i)}' = {i \in Iters : Running(i)}
  BY <1>4 DEF Running
<1>8. ASSUME NEW i \in Iters, Running(i)
      PROVE  /\ GoodIter(d', it'[i])
             /\ it'[i].freed /\ ~it[i].freed => it[i].entry # k
  <2>1. d.iterators # 0 /\ it[i].phase # "idle"
    BY <1>8, CountRunning DEF Running
  <2>2. IsRehashing(d) => IsRehashing(d')
    BY <1>1, <2>1, ComingRemove, -1 \in Int, -1 >= -1
  <2>3. it[i].phase = "inside" =>
          Coming(d', it[i].table, it[i].index) = Coming(d, it[i].table, it[i].index) \ {k}
    BY <1>1, <1>3, <2>1, ComingRemove DEF GoodIter, Walking, Iterator
  <2> DEFINE r == it[i]
  <2>4. r \in Iterator /\ GoodIter(d, r) /\ r.phase # "idle"
    BY <1>3, <2>1
  <2>5. it'[i] = Forget(r, k)
    BY <1>2, <1>8
  <2> HIDE DEF r
  <2>6. r.phase = "inside" =>
          Coming(d', r.table, r.index) = Coming(d, r.table, r.index) \ {k}
    BY <2>3 DEF r
  <2>7. GoodIter(d', Forget(r, k)) /\ (Forget(r, k).freed /\ ~r.freed => r.entry # k)
    BY <1>1, <2>2, <2>4, <2>6, ForgetGood
  <2> QED
    BY <2>5, <2>7 DEF r
<1>9. ASSUME NEW i \in Iters, ~Running(i)
      PROVE  GoodIter(d', it'[i]) /\ it'[i].freed = FALSE
  BY <1>2, <1>3, <1>9, IdleGood DEF Running, Iterator, GoodIter, Idle
<1>10. ASSUME NEW i \in Iters, it'[i].freed PROVE stray'
  <2>1. Running(i)
    BY <1>9, <1>10
  <2>2. CASE it[i].freed
    BY <2>2 DEF IterInv, Delete
  <2>3. CASE ~it[i].freed
    <3>1. it[i].entry # k
      BY <1>8, <1>10, <2>1, <2>3
    <3>2. ~InTurn(k)
      BY <2>1, <3>1 DEF InTurn
    <3> QED
      BY <3>2 DEF Delete
  <2> QED
    BY <2>2, <2>3
<1>11. crashed' => stray'
  BY DEF IterInv, Delete
<1> QED
  BY <1>1, <1>6, <1>7, <1>8, <1>9, <1>10, <1>11 DEF IterInv

(* The counter the first dictNext and dictReleaseIterator change.          *)
LEMMA OnlyCount ==
  ASSUME NEW a, Good(a), NEW n \in Int
  PROVE  LET b == [a EXCEPT !.iterators = n]
         IN /\ Good(b) /\ b.iterators = n
            /\ DictKeys(b) = DictKeys(a) /\ (IsRehashing(b) <=> IsRehashing(a))
            /\ \A t, x : Coming(b, t, x) = Coming(a, t, x)
<1> DEFINE b == [a EXCEPT !.iterators = n]
<1>1. b = [ht0 |-> a.ht0, ht1 |-> a.ht1, rehashidx |-> a.rehashidx, iterators |-> n]
  BY DEF Good, DictOK
<1> HIDE DEF b
<1>2. Good(b)
  BY <1>1 DEF Good, DictOK, IsRehashing, Front
<1> QED
  BY <1>1, <1>2 DEF DictKeys, IsRehashing, Coming, b

LEMMA SameGood ==
  ASSUME NEW a, NEW b, NEW r, GoodIter(a, r), DictKeys(b) = DictKeys(a),
         IsRehashing(b) <=> IsRehashing(a), \A t, x : Coming(b, t, x) = Coming(a, t, x)
  PROVE  GoodIter(b, r)
BY DEF GoodIter, Walking, Pending

(* One iterator moves: the others and the count stay right.                *)
LEMMA MoveKeeps ==
  ASSUME IterInv, NEW i \in Iters, Count(i) \/ (UNCHANGED d /\ Running(i)),
         it' \in [Iters -> Iterator], \A j \in Iters \ {i} : it'[j] = it[j],
         it'[i].phase \in {"inside", "ended"}, GoodIter(d, it'[i]),
         it'[i].freed => it[i].freed, UNCHANGED <<crashed, stray>>
  PROVE  IterInv'
<1> DEFINE R == {j \in Iters : Running(j)}
<1>1. Good(d) /\ d.iterators \in Int /\ IsFiniteSet(R) /\ d.iterators = Cardinality(R)
  BY CountRunning DEF IterInv, Good, DictOK
<1>2. R' = R \cup {i}
  BY DEF Running
<1>3. /\ Good(d') /\ DictKeys(d') = DictKeys(d)
      /\ (IsRehashing(d') <=> IsRehashing(d))
      /\ \A t, x : Coming(d', t, x) = Coming(d, t, x)
      /\ d'.iterators = Cardinality(R')
  <2>1. CASE it[i].phase = "idle"
    <3>1. i \notin R /\ Cardinality(R \cup {i}) = Cardinality(R) + 1
      BY <1>1, <2>1, FS_AddElement DEF Running
    <3>2. d' = [d EXCEPT !.iterators = d.iterators + 1] /\ d.iterators + 1 \in Int
      BY <1>1, <2>1 DEF Count, Running
    <3> HIDE DEF R
    <3> QED
      BY <1>1, <1>2, <3>1, <3>2, OnlyCount
  <2>2. CASE it[i].phase # "idle"
    <3>1. d' = d /\ i \in R
      BY <2>2 DEF Count, Running, IterInv, TypeOK, Iterator
    <3>2. R' = R
      BY <1>2, <3>1
    <3> QED
      BY <1>1, <3>1, <3>2
  <2> QED
    BY <2>1, <2>2
<1>4. ASSUME NEW j \in Iters PROVE GoodIter(d', it'[j])
  <2>1. GoodIter(d, it'[j])
    BY DEF IterInv
  <2> QED
    BY <1>3, <2>1, SameGood
<1>5. (crashed' \/ \E j \in Iters : it'[j].freed) => stray'
  BY DEF IterInv
<1>6. TypeOK'
  BY <1>3 DEF TypeOK, IterInv, Good
<1> QED
  BY <1>3, <1>4, <1>5, <1>6 DEF IterInv

(* What dictNext returns has not been returned before.                     *)
LEMMA NextInChainKeeps ==
  ASSUME IterInv, NEW i \in Iters, NextInChain(i)
  PROVE  IterInv' /\ (~crashed' => it'[i].entry \notin it[i].seen)
<1> DEFINE r == it[i]
<1>1. /\ r \in Iterator /\ GoodIter(d, r) /\ Walking(d, r) /\ Good(d) /\ TypeOK
      /\ r.phase = "inside" /\ r.next # Null
  BY DEF NextInChain, IterInv, TypeOK, GoodIter
<1>2. CASE r.freed
  <2>1. UNCHANGED <<d, it, stray>> /\ crashed' = TRUE /\ stray
    BY <1>2 DEF NextInChain, IterInv
  <2>2. UNCHANGED {j \in Iters : Running(j)} /\ \A j \in Iters : UNCHANGED GoodIter(d, it[j])
    BY <2>1 DEF Running
  <2> QED
    BY <2>1, <2>2 DEF IterInv, TypeOK
<1>3. CASE ~r.freed
  <2> DEFINE e == r.next
             rest == r.behind
             b == <<r.table, r.index>>
  <2>1. Return(i, b, e, rest) /\ UNCHANGED <<d, crashed, stray>>
    BY <1>3 DEF NextInChain
  <2>2. /\ b[1] \in {0, 1} /\ b[2] \in Int /\ e \in Keys
        /\ rest \subseteq Keys /\ r.due \subseteq Keys
    BY <1>1 DEF Iterator
  <2>3. /\ b[2] >= -1 /\ (b[1] = 1 => IsRehashing(d)) /\ e \notin rest
        /\ (rest \cup {e}) \cap Coming(d, b[1], b[2]) = {}
    BY <1>1, <1>3 DEF Walking
  <2>4. Pending(d, r) = Coming(d, b[1], b[2]) \cup rest \cup {e}
    BY <1>1, <1>3 DEF Pending
  <2>5. DictKeys(d) \subseteq Keys
    BY EntriesFinite DEF IterInv, Good, GoodTable, DictKeys
  <2>6. r.due = Due(r)
    BY <1>1 DEF Due
  <2>7. /\ r.seen \subseteq DictKeys(d) /\ Pending(d, r) \subseteq DictKeys(d)
        /\ r.seen \cap Pending(d, r) = {} /\ r.due \subseteq r.seen \cup Pending(d, r)
    BY <1>1 DEF Walking
  <2> HIDE DEF e, rest, b
  <2>8. /\ rest \cup {e} \subseteq DictKeys(d)
        /\ Coming(d, b[1], b[2]) \subseteq DictKeys(d)
        /\ r.seen \cap (rest \cup {e} \cup Coming(d, b[1], b[2])) = {}
        /\ r.due \subseteq r.seen \cup rest \cup {e} \cup Coming(d, b[1], b[2])
    BY <2>4, <2>7
  <2>9. /\ it' \in [Iters -> Iterator]
        /\ \A j \in Iters \ {i} : it'[j] = it[j]
        /\ it'[i].phase = "inside" /\ ~it'[i].freed /\ it'[i].entry = e
        /\ GoodIter(d, it'[i])
    BY <1>1, <1>3, <2>1, <2>2, <2>3, <2>5, <2>6, <2>7, <2>8, ReturnGood
  <2>10. IterInv'
    <3>1. Running(i)
      BY <1>1 DEF Running
    <3> QED
      BY <2>1, <2>9, <3>1, MoveKeeps
  <2>11. e \notin r.seen
    BY <2>8
  <2> QED
    BY <2>9, <2>10, <2>11
<1> QED
  BY <1>2, <1>3

(* Between two chains, or before the first: what is still to come is all   *)
(* in the buckets ahead.                                                   *)
LEMMA BetweenChains ==
  ASSUME IterInv, NEW i \in Iters, it[i].phase \in {"idle", "inside"}, it[i].next = Null
  PROVE  LET r == it[i]
         IN /\ r \in Iterator /\ ~r.freed /\ r.index >= -1
            /\ r.table = 1 => IsRehashing(d)
            /\ r.seen \subseteq DictKeys(d)
            /\ r.seen \cap Coming(d, r.table, r.index) = {}
            /\ Due(r) \subseteq r.seen \cup Coming(d, r.table, r.index)
            /\ Due(r) \subseteq Keys
<1> DEFINE r == it[i]
<1>1. r \in Iterator /\ GoodIter(d, r) /\ Good(d)
  BY DEF IterInv, TypeOK
<1>2. DictKeys(d) \subseteq Keys
  BY EntriesFinite DEF IterInv, Good, GoodTable, DictKeys
<1>3. CASE r.phase = "inside"
  <2>1. Walking(d, r) /\ r.next = Null /\ Due(r) = r.due /\ r.due \subseteq Keys
    BY <1>1, <1>3 DEF GoodIter, Due, Iterator
  <2>2. Pending(d, r) = Coming(d, r.table, r.index)
    BY <2>1 DEF Walking, Pending
  <2> QED
    BY <1>1, <2>1, <2>2 DEF Walking
<1>4. CASE r.phase = "idle"
  <2>1. r = Idle /\ Due(r) = DictKeys(d)
    BY <1>1, <1>4 DEF GoodIter, Due
  <2>2. /\ r.table = 0 /\ r.index = -1 /\ r.seen = {} /\ ~r.freed
    BY <2>1 DEF Idle
  <2>3. Coming(d, r.table, r.index) = DictKeys(d)
    BY <1>1, <2>2, ComingInDict, -1 \in Int, -1 >= -1
  <2> QED
    BY <1>1, <1>2, <2>1, <2>2, <2>3
<1> QED
  BY <1>3, <1>4

LEMMA NextBucketKeeps ==
  ASSUME IterInv, NEW i \in Iters, NextBucket(i)
  PROVE  IterInv' /\ it'[i].entry \notin it[i].seen
<1> DEFINE r == it[i]
<1>1. /\ r \in Iterator /\ ~r.freed /\ r.index >= -1 /\ r.index \in Int
      /\ r.table \in {0, 1} /\ (r.table = 1 => IsRehashing(d))
      /\ r.seen \subseteq DictKeys(d)
      /\ r.seen \cap Coming(d, r.table, r.index) = {}
      /\ Due(r) \subseteq r.seen \cup Coming(d, r.table, r.index)
      /\ Due(r) \subseteq Keys
  BY BetweenChains DEF NextBucket, Iterator
<1>2. Good(d) /\ DictKeys(d) \subseteq Keys /\ TypeOK
  BY EntriesFinite DEF IterInv, Good, GoodTable, DictKeys
<1>3. PICK b \in Occupied(i) : /\ \A c \in Occupied(i) : c = b \/ Before(b, c)
                               /\ \E e \in Chain(b) : Return(i, b, e, Chain(b) \ {e})
  BY DEF NextBucket
<1>4. PICK e \in Chain(b) : Return(i, b, e, Chain(b) \ {e})
  BY <1>3
<1>5. /\ b[1] \in {0, 1} /\ b[2] \in Nat /\ (b[1] = 1 => IsRehashing(d))
      /\ Coming(d, r.table, r.index) = Chain(b) \cup Coming(d, b[1], b[2])
      /\ Chain(b) \cap Coming(d, b[1], b[2]) = {}
      /\ Chain(b) \subseteq DictKeys(d)
  BY <1>1, <1>2, <1>3, FirstBucket
<1> DEFINE rest == Chain(b) \ {e}
<1>6. Coming(d, b[1], b[2]) \subseteq DictKeys(d) /\ b[2] \in Int /\ b[2] >= -1
  BY <1>2, <1>5, ComingInDict
<1> HIDE DEF r
<1>7. Chain(b) = rest \cup {e} /\ e \notin rest /\ e \in Keys
  BY <1>2, <1>4, <1>5
<1> HIDE DEF rest
<1>8. /\ rest \cup {e} \subseteq DictKeys(d)
      /\ (rest \cup {e}) \cap Coming(d, b[1], b[2]) = {}
      /\ r.seen \cap (rest \cup {e} \cup Coming(d, b[1], b[2])) = {}
      /\ Due(r) \subseteq r.seen \cup rest \cup {e} \cup Coming(d, b[1], b[2])
  BY <1>1, <1>5, <1>7
<1>9. /\ it' \in [Iters -> Iterator]
      /\ \A j \in Iters \ {i} : it'[j] = it[j]
      /\ it'[i].phase = "inside" /\ ~it'[i].freed /\ it'[i].entry = e
      /\ GoodIter(d, it'[i])
  BY <1>1, <1>2, <1>4, <1>5, <1>6, <1>7, <1>8, ReturnGood DEF r, rest
<1>10. IterInv'
  BY <1>9, MoveKeeps DEF NextBucket
<1>11. e \notin r.seen
  BY <1>8
<1> QED
  BY <1>9, <1>10, <1>11 DEF r

LEMMA NextEndKeeps ==
  ASSUME IterInv, NEW i \in Iters, NextEnd(i)
  PROVE  IterInv'
<1> DEFINE r == it[i]
<1>1. /\ r \in Iterator /\ ~r.freed /\ r.table \in {0, 1} /\ r.next = Null
      /\ r.seen \subseteq DictKeys(d)
      /\ Due(r) \subseteq r.seen \cup Coming(d, r.table, r.index)
      /\ Due(r) \subseteq Keys
  BY BetweenChains DEF NextEnd, Iterator
<1>2. Coming(d, r.table, r.index) = {}
  BY <1>1, NoBucketLeft DEF NextEnd, IterInv
<1>3. it' = [it EXCEPT ![i] = AtEnd(@)] /\ it \in [Iters -> Iterator]
  BY DEF NextEnd, IterInv, TypeOK
<1>4. it'[i] = AtEnd(r) /\ \A j \in Iters \ {i} : it'[j] = it[j]
  BY <1>3
<1> HIDE DEF r
<1> DEFINE f == AtEnd(r)
<1>5. /\ f \in Iterator /\ f.phase = "ended" /\ f.entry = Null /\ f.next = Null
      /\ ~f.freed /\ f.seen = r.seen /\ f.due = Due(r)
  BY <1>1 DEF AtEnd, Iterator
<1> HIDE DEF f
<1>6. GoodIter(d, f)
  BY <1>1, <1>2, <1>5 DEF GoodIter
<1>7. it' \in [Iters -> Iterator] /\ it'[i] = f
  BY <1>3, <1>4, <1>5 DEF f
<1> QED
  BY <1>4, <1>5, <1>6, <1>7, MoveKeeps DEF NextEnd

LEMMA ReleaseKeeps ==
  ASSUME IterInv, NEW i \in Iters, Release(i)
  PROVE  IterInv'
<1> DEFINE R == {j \in Iters : Running(j)}
<1>1. /\ Good(d) /\ d.iterators \in Int /\ IsFiniteSet(R)
      /\ d.iterators = Cardinality(R) /\ i \in R
  BY CountRunning DEF IterInv, Good, DictOK, Release
<1>2. /\ it' \in [Iters -> Iterator] /\ it'[i] = Idle
      /\ \A j \in Iters \ {i} : it'[j] = it[j]
  BY IdleGood DEF Release, IterInv, TypeOK
<1>3. R' = R \ {i}
  BY <1>2 DEF Running, Idle
<1>4. Cardinality(R \ {i}) = Cardinality(R) - 1
  BY <1>1, FS_RemoveElement
<1>5. d' = [d EXCEPT !.iterators = d.iterators - 1] /\ d.iterators - 1 \in Int
  BY <1>1 DEF Release
<1> HIDE DEF R
<1>6. /\ Good(d') /\ DictKeys(d') = DictKeys(d)
      /\ (IsRehashing(d') <=> IsRehashing(d))
      /\ \A t, x : Coming(d', t, x) = Coming(d, t, x)
      /\ d'.iterators = Cardinality(R')
  BY <1>1, <1>3, <1>4, <1>5, OnlyCount
<1>7. ASSUME NEW j \in Iters PROVE GoodIter(d', it'[j])
  <2>1. GoodIter(d, it'[j])
    BY <1>2, IdleGood DEF IterInv
  <2> QED
    BY <1>6, <2>1, SameGood
<1>8. (crashed' \/ \E j \in Iters : it'[j].freed) => stray'
  BY <1>2 DEF IterInv, Release, Idle
<1>9. TypeOK'
  BY <1>2, <1>6 DEF TypeOK, IterInv, Good, Release
<1> QED
  BY <1>6, <1>7, <1>8, <1>9 DEF IterInv, R

-----------------------------------------------------------------------------
LEMMA InitIterInv == Init => IterInv
<1> SUFFICES ASSUME Init PROVE IterInv
  OBVIOUS
<1>1. Good(d) /\ d.iterators = 0
  BY NewDictGood DEF Init
<1>2. \A i \in Iters : it[i] = Idle /\ ~Running(i)
  BY DEF Init, Running, Idle
<1>3. {i \in Iters : Running(i)} = {}
  BY <1>2
<1>4. TypeOK
  BY <1>1, IdleGood DEF Init, TypeOK, Good
<1> QED
  BY <1>1, <1>2, <1>3, <1>4, IdleGood, FS_EmptySet DEF Init, IterInv, Idle

LEMMA IterInvStep == IterInv /\ [Next]_vars => IterInv'
<1> SUFFICES ASSUME IterInv, [Next]_vars PROVE IterInv'
  OBVIOUS
<1>1. CASE UNCHANGED vars
  <2>1. \A i \in Iters : UNCHANGED Running(i) /\ UNCHANGED GoodIter(d, it[i])
    BY <1>1 DEF vars, Running
  <2>2. UNCHANGED {i \in Iters : Running(i)}
    BY <2>1
  <2> QED
    BY <1>1, <2>1, <2>2 DEF IterInv, TypeOK, vars
<1>2. ASSUME NEW i \in Iters, NextInChain(i) \/ NextBucket(i) \/ NextEnd(i) \/ Release(i)
      PROVE  IterInv'
  BY <1>2, NextInChainKeeps, NextBucketKeeps, NextEndKeeps, ReleaseKeeps
<1>3. ASSUME NEW k \in Keys, Add(k) \/ Delete(k)
      PROVE  IterInv'
  BY <1>3, AddKeeps, DeleteKeeps
<1>4. CASE Find
  BY <1>4, FindKeeps
<1>5. CASE Resize
  <2>1. ResizeRequest(d) \in Nat /\ ResizeRequest(d) <= MaxRequest
    <3>1. /\ d.ht0.used \in Nat /\ d.ht0.used <= Cardinality(Keys)
          /\ Cardinality(Keys) \in Nat
      BY EntriesFinite, DictAssumption, FS_CardinalityType
      DEF IterInv, Good, GoodTable, Counted, TableOK
    <3> QED
      BY <3>1, DictAssumption DEF ResizeRequest
  <2> QED
    BY <1>5, <2>1, ExpandKeeps DEF Resize
<1>6. ASSUME NEW size \in {s \in Sizes : s <= MaxRequest}, ExpandTo(size)
      PROVE  IterInv'
  BY <1>6, ExpandKeeps, DictAssumption DEF ExpandTo
<1> QED
  BY <1>1, <1>2, <1>3, <1>4, <1>5, <1>6 DEF Next

THEOREM IteratorInvariant == Spec => []IterInv
BY InitIterInv, IterInvStep, PTL DEF Spec

(* dict.h:87-90, dict.c:309-316: an iteration that ends has returned every *)
(* entry that was there throughout, whatever was added, deleted, resized   *)
(* or half rehashed meanwhile.                                             *)
THEOREM IterationsAreComplete == Spec => []IterationComplete
<1>1. IterInv => IterationComplete
  BY DEF IterInv, GoodIter, IterationComplete
<1> QED
  BY <1>1, IteratorInvariant, PTL

(* dict.c:605-607: only a deletion out of turn makes an iterator follow a  *)
(* freed entry.                                                            *)
THEOREM NoIteratorFollowsFreed == Spec => []NoFreedEntry
<1>1. IterInv => NoFreedEntry
  BY DEF IterInv, NoFreedEntry
<1> QED
  BY <1>1, IteratorInvariant, PTL

(* dict.c:311-312: no iteration returns an entry twice.                    *)
THEOREM NeverTwice == Spec => NoDuplicates
<1> DEFINE Fresh == \A i \in Iters : (NextInChain(i) \/ NextBucket(i)) /\ ~crashed'
                      => it'[i].entry \notin it[i].seen
<1>1. IterInv /\ [Next]_vars => [Fresh]_vars
  BY NextInChainKeeps, NextBucketKeeps
<1> HIDE DEF Fresh
<1>2. Spec => [][Fresh]_vars
  BY <1>1, InitIterInv, IterInvStep, PTL DEF Spec
<1> QED
  BY <1>2 DEF NoDuplicates, Fresh

(* Both, the promise of an iteration.                                      *)
THEOREM IterationsMeetEachOnce == Spec => EachOnce
BY IterationsAreComplete, NeverTwice DEF EachOnce
-----------------------------------------------------------------------------
(* Definitions by recursion, and division.                                 *)

(* What holds at 0, and at n + 1 if at n, holds at every index of a range. *)
LEMMA RangeInduction ==
  ASSUME NEW n \in Nat, NEW T, 0 \in T, \A i \in 0 .. n - 1 : i \in T => i + 1 \in T
  PROVE  0 .. n \subseteq T
<1> SUFFICES ASSUME {i \in 0 .. n : i \notin T} # {} PROVE FALSE
  OBVIOUS
<1>1. PICK m \in {i \in 0 .. n : i \notin T} : \A i \in {i \in 0 .. n : i \notin T} : m <= i
  <2>1. {i \in 0 .. n : i \notin T} \subseteq Nat
    OBVIOUS
  <2> QED
    BY <2>1, LeastNatural
<1>2. m # 0 /\ m - 1 \in 0 .. n - 1 /\ m - 1 \in 0 .. n /\ (m - 1) + 1 = m
  BY <1>1
<1>3. m - 1 \in T
  BY <1>1, <1>2
<1> QED
  BY <1>1, <1>2, <1>3

(* The functions that start at c and go on by step. *)
Runs(S, c, n, step) ==
  {f \in [0 .. n -> S] :
     f[0] = c /\ \A i \in 0 .. n - 1 : f[i + 1] = step[<<i, f[i]>>]}

(* A recursive definition over a range defines a function. *)
LEMMA RangeRecursion ==
  ASSUME NEW S, NEW c \in S, NEW n \in Nat, NEW step \in [(0 .. n - 1) \X S -> S]
  PROVE  Runs(S, c, n, step) # {}
<1> DEFINE Upto(m) == \E f \in [0 .. m -> S] : /\ f[0] = c
                                  /\ \A i \in 0 .. m - 1 : f[i + 1] = step[<<i, f[i]>>]
           T == {m \in 0 .. n : Upto(m)}
<1>1. 0 \in T
  <2>1. /\ [i \in 0 .. 0 |-> c] \in [0 .. 0 -> S] /\ [i \in 0 .. 0 |-> c][0] = c
        /\ 0 .. 0 - 1 = {} /\ 0 \in 0 .. n
    OBVIOUS
  <2>2. Upto(0)
    BY <2>1
  <2> HIDE DEF Upto
  <2> QED
    BY <2>1, <2>2
<1>2. ASSUME NEW i \in 0 .. n - 1, i \in T PROVE i + 1 \in T
  <2>1. PICK f \in [0 .. i -> S] : /\ f[0] = c
                                   /\ \A j \in 0 .. i - 1 : f[j + 1] = step[<<j, f[j]>>]
    BY <1>2
  <2> DEFINE x == step[<<i, f[i]>>]
             g == [j \in 0 .. i + 1 |-> IF j = i + 1 THEN x ELSE f[j]]
  <2>2. x \in S
    OBVIOUS
  <2> HIDE DEF x
  <2>3. g \in [0 .. i + 1 -> S]
    BY <2>2
  <2>4. g[0] = c /\ g[i + 1] = x /\ g[i] = f[i]
    BY <2>1
  <2>5. ASSUME NEW j \in 0 .. (i + 1) - 1 PROVE g[j + 1] = step[<<j, g[j]>>]
    <3>1. CASE j = i
      BY <2>4, <3>1 DEF x
    <3>2. CASE j # i
      <4>1. j \in 0 .. i - 1 /\ j + 1 \in 0 .. i
        BY <3>2
      <4>2. g[j + 1] = f[j + 1] /\ g[j] = f[j]
        BY <4>1
      <4> QED
        BY <2>1, <4>1, <4>2
    <3> QED
      BY <3>1, <3>2
  <2>6. Upto(i + 1)
    <3> HIDE DEF g
    <3> QED
      BY <2>3, <2>4, <2>5
  <2>7. i + 1 \in 0 .. n
    OBVIOUS
  <2> HIDE DEF Upto
  <2> QED
    BY <2>6, <2>7
<1>3. n \in T
  <2> HIDE DEF T
  <2>1. 0 .. n \subseteq T
    BY <1>1, <1>2, RangeInduction
  <2> QED
    BY <2>1
<1> QED
  BY <1>3 DEF Runs

-----------------------------------------------------------------------------
(* Division *)
LEMMA Division ==
  ASSUME NEW x \in Nat, NEW p \in Nat, p > 0
  PROVE  /\ x = p * (x \div p) + (x % p)
         /\ x % p \in Nat /\ x % p < p
         /\ x \div p \in Nat
OBVIOUS

LEMMA DivisionIs ==
  ASSUME NEW x \in Nat, NEW p \in Nat, p > 0, NEW q \in Nat, NEW r \in Nat, r < p,
         x = q * p + r
  PROVE  x \div p = q /\ x % p = r
OBVIOUS

(* One more digit of a number in base 2. *)
LEMMA NextBit ==
  ASSUME NEW x \in Nat, NEW p \in Nat, p > 0
  PROVE  /\ x \div p = 2 * (x \div (2 * p)) + ((x \div p) % 2)
         /\ x % (2 * p) = (x % p) + p * ((x \div p) % 2)
<1> DEFINE q == x \div p
           e == q \div 2
           b == q % 2
           r == x % p
<1>1. x = p * q + r /\ q \in Nat /\ r \in Nat /\ r < p
  BY Division
<1>2. q = 2 * e + b /\ e \in Nat /\ b \in {0, 1}
  BY <1>1
<1> HIDE DEF q, e, b, r
<1>3. x = e * (2 * p) + (p * b + r)
  <2>1. p * (2 * e + b) = e * (2 * p) + p * b
    <3>1. CASE b = 0
      BY <1>2, <3>1
    <3>2. CASE b = 1
      BY <1>2, <3>2
    <3> QED
      BY <1>2, <3>1, <3>2
  <2> QED
    BY <1>1, <1>2, <2>1
<1>4. p * b + r \in Nat /\ p * b + r < 2 * p
  BY <1>1, <1>2
<1>5. x \div (2 * p) = e /\ x % (2 * p) = p * b + r
  <2>1. 2 * p \in Nat /\ 2 * p > 0
    OBVIOUS
  <2> HIDE DEF e
  <2> QED
    BY <1>2, <1>3, <1>4, <2>1, DivisionIs
<1>6. q = 2 * (x \div (2 * p)) + b /\ x % (2 * p) = r + p * b
  BY <1>1, <1>2, <1>5
<1> QED
  BY <1>6 DEF q, b, r

-----------------------------------------------------------------------------
(* The bits of a cursor (dict.c:759-767).                                  *)

(* What the recursive definitions of Pow2 and Reversed come to.            *)
LEMMA Pow2Steps ==
  /\ Pow2 \in [0 .. Width -> Nat \ {0}]
  /\ Pow2[0] = 1
  /\ \A i \in 0 .. Width - 1 : Pow2[i + 1] = 2 * Pow2[i]
<1> DEFINE S == Nat \ {0}
           step == [w \in (0 .. Width - 1) \X S |-> 2 * w[2]]
           body(f) == [i \in 0 .. Width |-> IF i = 0 THEN 1 ELSE 2 * f[i - 1]]
<1>0. Width \in Nat
  BY ScanAssumption
<1>1. Runs(S, 1, Width, step) # {}
  <2>1. step \in [(0 .. Width - 1) \X S -> S] /\ 1 \in S
    OBVIOUS
  <2> HIDE DEF step, S
  <2> QED
    BY <1>0, <2>1, RangeRecursion
<1>2. PICK f \in [0 .. Width -> S] : /\ f[0] = 1
                                     /\ \A i \in 0 .. Width - 1 : f[i + 1] = 2 * f[i]
  <2>1. \A i \in 0 .. Width - 1, f \in [0 .. Width -> S] : step[<<i, f[i]>>] = 2 * f[i]
    BY <1>0
  <2> HIDE DEF step, S
  <2> QED
    BY <1>1, <2>1 DEF Runs
<1>3. f = body(f)
  <2>1. ASSUME NEW i \in 0 .. Width PROVE f[i] = IF i = 0 THEN 1 ELSE 2 * f[i - 1]
    <3>1. CASE i = 0
      BY <1>2, <3>1
    <3>2. CASE i # 0
      <4>1. i - 1 \in 0 .. Width - 1 /\ (i - 1) + 1 = i
        BY <1>0, <3>2
      <4> QED
        BY <1>2, <3>2, <4>1
    <3> QED
      BY <3>1, <3>2
  <2> QED
    BY <1>2, <2>1
<1>4. Pow2 = body(Pow2)
  <2> HIDE DEF S
  <2> QED
    BY <1>3 DEF Pow2
<1>5. Pow2[0] = 1 /\ \A i \in 0 .. Width - 1 : Pow2[i + 1] = 2 * Pow2[i]
  <2>1. ASSUME NEW i \in 0 .. Width - 1 PROVE Pow2[i + 1] = 2 * Pow2[i]
    <3>1. i + 1 \in 0 .. Width /\ i + 1 # 0 /\ (i + 1) - 1 = i
      BY <1>0
    <3> QED
      BY <1>4, <3>1
  <2>2. 0 \in 0 .. Width
    BY <1>0
  <2>3. Pow2[0] = 1
    BY <1>4, <2>2
  <2> QED
    BY <2>1, <2>3
<1>6. 0 .. Width \subseteq {i \in 0 .. Width : Pow2[i] \in S}
  <2> DEFINE T == {i \in 0 .. Width : Pow2[i] \in S}
  <2>1. 0 \in T
    BY <1>0, <1>5
  <2>2. ASSUME NEW i \in 0 .. Width - 1, i \in T PROVE i + 1 \in T
    BY <1>0, <1>5, <2>2
  <2> HIDE DEF T
  <2> QED
    BY <1>0, <2>1, <2>2, RangeInduction DEF T
<1> QED
  BY <1>4, <1>5, <1>6

LEMMA BitIs ==
  ASSUME NEW v \in Nat, NEW i \in 0 .. Width
  PROVE  Bit(v, i) \in {0, 1}
<1>1. v \div Pow2[i] \in Nat
  BY Pow2Steps, Division
<1> QED
  BY <1>1 DEF Bit

LEMMA ReversedSteps ==
  ASSUME NEW v \in Nat
  PROVE  /\ Reversed(v) \in [0 .. Width -> Nat]
         /\ Reversed(v)[0] = 0
         /\ \A i \in 0 .. Width - 1 : Reversed(v)[i + 1] = 2 * Reversed(v)[i] + Bit(v, i)
<1> DEFINE step == [w \in (0 .. Width - 1) \X Nat |-> 2 * w[2] + Bit(v, w[1])]
           body(f) == [i \in 0 .. Width |-> IF i = 0 THEN 0 ELSE 2 * f[i - 1] + Bit(v, i - 1)]
<1>0. Width \in Nat /\ \A i \in 0 .. Width - 1 : Bit(v, i) \in Nat
  BY ScanAssumption, BitIs
<1>1. Runs(Nat, 0, Width, step) # {}
  <2>1. step \in [(0 .. Width - 1) \X Nat -> Nat]
    BY <1>0
  <2> HIDE DEF step
  <2> QED
    BY <1>0, <2>1, RangeRecursion
<1>2. PICK f \in [0 .. Width -> Nat] :
        /\ f[0] = 0
        /\ \A i \in 0 .. Width - 1 : f[i + 1] = 2 * f[i] + Bit(v, i)
  <2>1. \A i \in 0 .. Width - 1, f \in [0 .. Width -> Nat] :
          step[<<i, f[i]>>] = 2 * f[i] + Bit(v, i)
    BY <1>0
  <2> HIDE DEF step
  <2> QED
    BY <1>1, <2>1 DEF Runs
<1>3. f = body(f)
  <2>1. ASSUME NEW i \in 0 .. Width
        PROVE  f[i] = IF i = 0 THEN 0 ELSE 2 * f[i - 1] + Bit(v, i - 1)
    <3>1. CASE i = 0
      BY <1>2, <3>1
    <3>2. CASE i # 0
      <4>1. i - 1 \in 0 .. Width - 1 /\ (i - 1) + 1 = i
        BY <1>0, <3>2
      <4> QED
        BY <1>2, <3>2, <4>1
    <3> QED
      BY <3>1, <3>2
  <2> QED
    BY <1>2, <2>1
<1> DEFINE r == Reversed(v)
<1>4. r = body(r)
  BY <1>3 DEF Reversed
<1> HIDE DEF r
<1>5. r[0] = 0 /\ \A i \in 0 .. Width - 1 : r[i + 1] = 2 * r[i] + Bit(v, i)
  <2>1. ASSUME NEW i \in 0 .. Width - 1 PROVE r[i + 1] = 2 * r[i] + Bit(v, i)
    <3>1. i + 1 \in 0 .. Width /\ i + 1 # 0 /\ (i + 1) - 1 = i
      BY <1>0
    <3> QED
      BY <1>4, <3>1
  <2>2. 0 \in 0 .. Width
    BY <1>0
  <2>3. r[0] = 0
    BY <1>4, <2>2
  <2> QED
    BY <2>1, <2>3
<1>6. 0 .. Width \subseteq {i \in 0 .. Width : r[i] \in Nat}
  <2> DEFINE T == {i \in 0 .. Width : r[i] \in Nat}
  <2>1. 0 \in T
    BY <1>0, <1>5
  <2>2. ASSUME NEW i \in 0 .. Width - 1, i \in T PROVE i + 1 \in T
    BY <1>0, <1>5, <2>2
  <2> HIDE DEF T
  <2> QED
    BY <1>0, <2>1, <2>2, RangeInduction DEF T
<1>7. r \in [0 .. Width -> Nat]
  BY <1>4, <1>6
<1> QED
  BY <1>5, <1>7 DEF r

(* The product of two powers. *)
LEMMA Pow2Sum ==
  ASSUME NEW a \in 0 .. Width, NEW b \in 0 .. Width - a
  PROVE  Pow2[a + b] = Pow2[a] * Pow2[b]
<1> DEFINE T == {i \in 0 .. Width - a : Pow2[a + i] = Pow2[a] * Pow2[i]}
<1>0. Width \in Nat /\ Width - a \in Nat
  BY ScanAssumption
<1>1. 0 \in T
  <2>1. a + 0 = a /\ Pow2[0] = 1 /\ Pow2[a] \in Nat
    BY <1>0, Pow2Steps
  <2> QED
    BY <1>0, <2>1
<1>2. ASSUME NEW i \in 0 .. (Width - a) - 1, i \in T PROVE i + 1 \in T
  <2>1. a + i \in 0 .. Width - 1 /\ i \in 0 .. Width - 1 /\ a + (i + 1) = (a + i) + 1
    BY <1>0
  <2>2. Pow2[a + (i + 1)] = 2 * (Pow2[a] * Pow2[i]) /\ Pow2[i + 1] = 2 * Pow2[i]
    BY <1>2, <2>1, Pow2Steps
  <2>3. Pow2[a] \in Nat /\ Pow2[i] \in Nat
    BY <1>0, Pow2Steps
  <2>4. \A x, y \in Nat : 2 * (x * y) = x * (2 * y)
    OBVIOUS
  <2>5. Pow2[a + (i + 1)] = Pow2[a] * Pow2[i + 1]
    BY <2>2, <2>3, <2>4
  <2>6. i + 1 \in 0 .. Width - a
    BY <1>0
  <2> QED
    BY <2>5, <2>6
<1>3. 0 .. Width - a \subseteq T
  <2> HIDE DEF T
  <2> QED
    BY <1>0, <1>1, <1>2, RangeInduction
<1> QED
  BY <1>3

(* The reverse of the n lowest bits is below 2^n and tells them apart.     *)
LEMMA ReversedRange ==
  ASSUME NEW v \in Nat, NEW n \in 0 .. Width
  PROVE  Reversed(v)[n] \in Nat /\ Reversed(v)[n] < Pow2[n]
<1> DEFINE T == {i \in 0 .. Width : Reversed(v)[i] < Pow2[i]}
<1>0. Width \in Nat
  BY ScanAssumption
<1>1. 0 \in T
  <2>1. 0 \in 0 .. Width /\ Reversed(v)[0] = 0 /\ Pow2[0] = 1
    BY <1>0, ReversedSteps, Pow2Steps
  <2> QED
    BY <2>1
<1>2. ASSUME NEW i \in 0 .. Width - 1, i \in T PROVE i + 1 \in T
  <2>1. i \in 0 .. Width /\ i + 1 \in 0 .. Width
    BY <1>0
  <2>2. /\ Reversed(v)[i] \in Nat /\ Pow2[i] \in Nat /\ Bit(v, i) \in {0, 1}
        /\ Reversed(v)[i + 1] = 2 * Reversed(v)[i] + Bit(v, i)
        /\ Pow2[i + 1] = 2 * Pow2[i]
        /\ Reversed(v)[i] < Pow2[i]
    BY <1>2, <2>1, ReversedSteps, Pow2Steps, BitIs
  <2>3. Reversed(v)[i + 1] < Pow2[i + 1]
    BY <2>2
  <2> QED
    BY <2>1, <2>3
<1>3. 0 .. Width \subseteq T
  <2> HIDE DEF T
  <2> QED
    BY <1>0, <1>1, <1>2, RangeInduction
<1> QED
  BY <1>3, ReversedSteps

(* Numbers agree in their n lowest bits if the reverses of these do.       *)
LEMMA LowestBits ==
  ASSUME NEW v \in Nat, NEW w \in Nat, NEW n \in 0 .. Width
  PROVE  v % Pow2[n] = w % Pow2[n] <=> Reversed(v)[n] = Reversed(w)[n]
<1> DEFINE Same(i) == v % Pow2[i] = w % Pow2[i] <=> Reversed(v)[i] = Reversed(w)[i]
           T == {i \in 0 .. Width : Same(i)}
<1>0. Width \in Nat
  BY ScanAssumption
<1>1. 0 \in T
  <2>1. Pow2[0] = 1 /\ v % 1 = 0 /\ w % 1 = 0 /\ 0 \in 0 .. Width
    BY <1>0, Pow2Steps
  <2>2. Reversed(v)[0] = 0 /\ Reversed(w)[0] = 0
    BY ReversedSteps
  <2> QED
    BY <2>1, <2>2
<1>2. ASSUME NEW i \in 0 .. Width - 1, i \in T PROVE i + 1 \in T
  <2>1. i \in 0 .. Width /\ i + 1 \in 0 .. Width
    BY <1>0
  <2> DEFINE p == Pow2[i]
             b == Bit(v, i)
             c == Bit(w, i)
             x == v % p
             y == w % p
  <2>2. p \in Nat /\ p > 0 /\ Pow2[i + 1] = 2 * p
    BY <2>1, Pow2Steps
  <2>3. b \in {0, 1} /\ c \in {0, 1}
    BY <2>1, BitIs
  <2>4. x \in Nat /\ x < p /\ y \in Nat /\ y < p
    BY <2>2, Division
  <2>5. v % (2 * p) = x + p * b /\ w % (2 * p) = y + p * c
    BY <2>2, NextBit DEF Bit
  <2>6. /\ Reversed(v)[i + 1] = 2 * Reversed(v)[i] + b
        /\ Reversed(w)[i + 1] = 2 * Reversed(w)[i] + c
        /\ Reversed(v)[i] \in Nat /\ Reversed(w)[i] \in Nat
    BY <2>1, ReversedSteps
  <2>7. x = y <=> Reversed(v)[i] = Reversed(w)[i]
    BY <1>2
  <2> HIDE DEF p, b, c, x, y
  <2>8. v % (2 * p) = w % (2 * p) <=> x = y /\ b = c
    <3>1. p * b = (IF b = 0 THEN 0 ELSE p) /\ p * c = (IF c = 0 THEN 0 ELSE p)
      BY <2>2, <2>3
    <3> QED
      BY <2>2, <2>3, <2>4, <2>5, <3>1
  <2>9. Reversed(v)[i + 1] = Reversed(w)[i + 1] <=> x = y /\ b = c
    BY <2>3, <2>6, <2>7
  <2> QED
    BY <2>1, <2>2, <2>8, <2>9
<1>3. 0 .. Width \subseteq T
  <2> HIDE DEF T
  <2> QED
    BY <1>0, <1>1, <1>2, RangeInduction
<1> QED
  BY <1>3

(* What fewer bits decide, more bits keep. *)
LEMMA ReversedOrder ==
  ASSUME NEW v \in Nat, NEW w \in Nat, NEW n \in 0 .. Width, NEW m \in n .. Width,
         Reversed(v)[n] < Reversed(w)[n]
  PROVE  Reversed(v)[m] < Reversed(w)[m]
<1> DEFINE T == {i \in 0 .. Width - n : Reversed(v)[n + i] < Reversed(w)[n + i]}
<1>0. Width \in Nat /\ Width - n \in Nat
  BY ScanAssumption
<1>1. 0 \in T
  <2>1. n + 0 = n
    BY <1>0
  <2> QED
    BY <1>0, <2>1
<1>2. ASSUME NEW i \in 0 .. (Width - n) - 1, i \in T PROVE i + 1 \in T
  <2>1. n + i \in 0 .. Width - 1 /\ n + i \in 0 .. Width /\ n + (i + 1) = (n + i) + 1
        /\ i + 1 \in 0 .. Width - n
    BY <1>0
  <2> DEFINE j == n + i
  <2>2. /\ Reversed(v)[j + 1] = 2 * Reversed(v)[j] + Bit(v, j)
        /\ Reversed(w)[j + 1] = 2 * Reversed(w)[j] + Bit(w, j)
        /\ Reversed(v)[j] \in Nat /\ Reversed(w)[j] \in Nat
        /\ Bit(v, j) \in {0, 1} /\ Bit(w, j) \in {0, 1}
        /\ Reversed(v)[j] < Reversed(w)[j]
    BY <1>2, <2>1, ReversedSteps, BitIs
  <2>3. Reversed(v)[j + 1] < Reversed(w)[j + 1]
    BY <2>2
  <2> QED
    BY <2>1, <2>3
<1>3. 0 .. Width - n \subseteq T
  <2> HIDE DEF T
  <2> QED
    BY <1>0, <1>1, <1>2, RangeInduction
<1>4. m - n \in 0 .. Width - n /\ n + (m - n) = m
  BY <1>0
<1> QED
  BY <1>3, <1>4

(* The reverse of fewer bits is the upper part of that of more. *)
LEMMA ReversedUpper ==
  ASSUME NEW v \in Nat, NEW a \in 0 .. Width, NEW b \in 0 .. Width - a
  PROVE  /\ Reversed(v)[a] * Pow2[b] <= Reversed(v)[a + b]
         /\ Reversed(v)[a + b] < Reversed(v)[a] * Pow2[b] + Pow2[b]
         /\ Reversed(v)[a + b] \div Pow2[b] = Reversed(v)[a]
<1> DEFINE r == Reversed(v)[a]
           T == {i \in 0 .. Width - a : /\ r * Pow2[i] <= Reversed(v)[a + i]
                                        /\ Reversed(v)[a + i] < r * Pow2[i] + Pow2[i]}
<1>0. Width \in Nat /\ Width - a \in Nat /\ r \in Nat
  BY ScanAssumption, ReversedSteps
<1>1. 0 \in T
  <2>1. a + 0 = a /\ Pow2[0] = 1
    BY <1>0, Pow2Steps
  <2> HIDE DEF r
  <2>2. r * Pow2[0] = r
    BY <1>0, <2>1
  <2> QED
    BY <1>0, <2>1, <2>2 DEF r
<1>2. ASSUME NEW i \in 0 .. (Width - a) - 1, i \in T PROVE i + 1 \in T
  <2>1. a + i \in 0 .. Width - 1 /\ i \in 0 .. Width - 1 /\ a + (i + 1) = (a + i) + 1
        /\ i + 1 \in 0 .. Width - a /\ a + i \in 0 .. Width
    BY <1>0
  <2> DEFINE j == a + i
             x == Reversed(v)[j]
             p == Pow2[i]
  <2>2. /\ Reversed(v)[j + 1] = 2 * x + Bit(v, j)
        /\ x \in Nat /\ p \in Nat
        /\ Bit(v, j) \in {0, 1}
        /\ Pow2[i + 1] = 2 * p
        /\ r * p <= x /\ x < r * p + p
    <3>1. r * p <= x /\ x < r * p + p
      BY <1>2
    <3>2. Reversed(v)[j + 1] = 2 * x + Bit(v, j) /\ x \in Nat
      BY <2>1, ReversedSteps
    <3>3. p \in Nat /\ Pow2[i + 1] = 2 * p
      BY <1>0, <2>1, Pow2Steps
    <3>4. Bit(v, j) \in {0, 1}
      BY <2>1, BitIs
    <3> QED
      BY <3>1, <3>2, <3>3, <3>4
  <2>3. r * (2 * p) = 2 * (r * p) /\ r * p \in Nat
    <3> HIDE DEF r, p
    <3> QED
      BY <1>0, <2>2
  <2>4. r * (2 * p) <= 2 * x + Bit(v, j) /\ 2 * x + Bit(v, j) < r * (2 * p) + 2 * p
    <3> DEFINE y == r * p
               z == r * (2 * p)
    <3>1. z = 2 * y /\ y \in Nat /\ y <= x /\ x < y + p
      BY <2>2, <2>3
    <3> HIDE DEF y, z, x, p, r
    <3>2. z <= 2 * x + Bit(v, j) /\ 2 * x + Bit(v, j) < z + 2 * p
      BY <2>2, <3>1
    <3> QED
      BY <3>2 DEF z
  <2> QED
    BY <2>1, <2>2, <2>4
<1>3. 0 .. Width - a \subseteq T
  <2> HIDE DEF T
  <2> QED
    BY <1>0, <1>1, <1>2, RangeInduction
<1>4. r * Pow2[b] <= Reversed(v)[a + b] /\ Reversed(v)[a + b] < r * Pow2[b] + Pow2[b]
  BY <1>3
<1>5. Reversed(v)[a + b] \div Pow2[b] = r
  <2> DEFINE x == Reversed(v)[a + b]
             p == Pow2[b]
             y == r * p
  <2>1. x \in Nat /\ p \in Nat /\ p > 0 /\ y \in Nat /\ y <= x /\ x < y + p
    <3>1. a + b \in 0 .. Width /\ b \in 0 .. Width
      BY <1>0
    <3>2. x \in Nat
      BY <3>1, ReversedSteps
    <3>3. p \in Nat /\ p > 0
      BY <3>1, Pow2Steps
    <3>4. y <= x /\ x < y + p
      BY <1>4
    <3>5. y \in Nat
      <4> HIDE DEF r, p
      <4> QED
        BY <1>0, <3>3
    <3> QED
      BY <3>2, <3>3, <3>4, <3>5
  <2>2. x - y \in Nat /\ x - y < p /\ x = y + (x - y)
    <3> HIDE DEF x, y, p
    <3> QED
      BY <2>1
  <2>3. x = r * p + (x - y)
    BY <2>2
  <2> DEFINE e == x - y
  <2>4. e \in Nat /\ e < p /\ x = r * p + e
    BY <2>2, <2>3
  <2>5. x \in Nat /\ p \in Nat /\ p > 0 /\ r \in Nat
    BY <1>0, <2>1
  <2> HIDE DEF r, x, p, e
  <2>6. x \div p = r
    BY <2>4, <2>5, DivisionIs
  <2> QED
    BY <2>6 DEF x, p
<1> QED
  BY <1>4, <1>5

(* Reversed twice, a cursor is itself. *)
LEMMA RevTwice ==
  ASSUME NEW x \in Nat, x < Pow2[Width]
  PROVE  Rev(Rev(x)) = x
<1> DEFINE r == Rev(x)
           T == {n \in 0 .. Width : Reversed(r)[n] = x \div Pow2[Width - n]}
<1>0. Width \in Nat /\ r \in Nat
  BY ScanAssumption, ReversedSteps DEF Rev
<1>1. 0 \in T
  <2>1. 0 \in 0 .. Width /\ Width - 0 = Width /\ Width \in 0 .. Width
    BY <1>0
  <2>2. Pow2[Width] \in Nat /\ Pow2[Width] > 0
    BY <2>1, Pow2Steps
  <2>3. x \div Pow2[Width] = 0
    <3>1. x = 0 * Pow2[Width] + x
      BY <2>2
    <3> QED
      BY <2>2, <3>1, DivisionIs
  <2>4. Reversed(r)[0] = 0
    BY <1>0, ReversedSteps
  <2> QED
    BY <2>1, <2>3, <2>4
<1>2. ASSUME NEW n \in 0 .. Width - 1, n \in T PROVE n + 1 \in T
  <2> DEFINE m == Width - (n + 1)
             q == Pow2[m]
  <2>1. /\ n \in 0 .. Width /\ n + 1 \in 0 .. Width
        /\ m \in 0 .. Width - 1 /\ m \in 0 .. Width
        /\ m + 1 = Width - n /\ m + 1 \in 0 .. Width
        /\ n \in 0 .. Width - (m + 1) /\ (m + 1) + n = Width
    BY <1>0
  <2>2. q \in Nat /\ q > 0 /\ Pow2[m + 1] = 2 * q
    <3> HIDE DEF m
    <3> QED
      BY <1>0, <2>1, Pow2Steps
  <2>3. x \div q = 2 * (x \div (2 * q)) + Bit(x, m)
    <3>1. x \div q = 2 * (x \div (2 * q)) + ((x \div q) % 2)
      <4> HIDE DEF q
      <4> QED
        BY <2>2, NextBit
    <3> QED
      BY <3>1 DEF Bit
  <2>4. r \div Pow2[n] = Reversed(x)[m + 1]
    <3>1. Reversed(x)[(m + 1) + n] \div Pow2[n] = Reversed(x)[m + 1]
      <4> HIDE DEF m
      <4> QED
        BY <2>1, ReversedUpper
    <3> QED
      BY <2>1, <3>1 DEF Rev
  <2>5. Reversed(x)[m + 1] = 2 * Reversed(x)[m] + Bit(x, m) /\ Reversed(x)[m] \in Nat
    BY <2>1, ReversedSteps
  <2>6. Bit(r, n) = Bit(x, m)
    <3>1. Bit(x, m) \in {0, 1}
      BY <2>1, BitIs
    <3>2. Bit(r, n) = (2 * Reversed(x)[m] + Bit(x, m)) % 2
      BY <2>4, <2>5 DEF Bit
    <3> QED
      BY <2>5, <3>1, <3>2
  <2>7. Reversed(r)[n + 1] = 2 * Reversed(r)[n] + Bit(r, n)
    BY <1>0, ReversedSteps
  <2>8. Reversed(r)[n] = x \div (2 * q)
    <3>1. Reversed(r)[n] = x \div Pow2[Width - n]
      BY <1>2
    <3> QED
      BY <2>1, <2>2, <3>1
  <2>9. Reversed(r)[n + 1] = x \div Pow2[Width - (n + 1)]
    BY <2>3, <2>6, <2>7, <2>8
  <2> QED
    BY <2>1, <2>9
<1>3. 0 .. Width \subseteq T
  <2> HIDE DEF T
  <2> QED
    BY <1>0, <1>1, <1>2, RangeInduction
<1>4. Reversed(r)[Width] = x \div Pow2[Width - Width]
  BY <1>0, <1>3
<1>5. Width - Width = 0 /\ Pow2[0] = 1 /\ x \div 1 = x
  BY <1>0, Pow2Steps
<1> QED
  BY <1>4, <1>5 DEF Rev

LEMMA RevRange ==
  ASSUME NEW v \in Nat
  PROVE  Rev(v) \in Nat /\ Rev(v) < Pow2[Width]
BY ReversedRange, ScanAssumption DEF Rev

LEMMA RevZero == Rev(0) = 0
<1> DEFINE x == Rev(0)
<1>0. Width \in Nat /\ Width \in 0 .. Width
  BY ScanAssumption
<1>1. \A i \in 0 .. Width - 1 : Bit(0, i) = 0
  <2>1. ASSUME NEW i \in 0 .. Width - 1 PROVE Bit(0, i) = 0
    <3>1. Pow2[i] \in Nat /\ Pow2[i] > 0
      BY <1>0, Pow2Steps
    <3>2. 0 \div Pow2[i] = 0
      <4>1. 0 = 0 * Pow2[i] + 0
        BY <3>1
      <4> QED
        BY <3>1, <4>1, DivisionIs
    <3> QED
      BY <3>2 DEF Bit
  <2> QED
    BY <2>1
<1> DEFINE T == {n \in 0 .. Width : Reversed(0)[n] = 0}
<1>2. 0 \in T
  BY <1>0, ReversedSteps
<1>3. ASSUME NEW n \in 0 .. Width - 1, n \in T PROVE n + 1 \in T
  <2>1. Reversed(0)[n + 1] = 2 * Reversed(0)[n] + Bit(0, n)
    BY ReversedSteps
  <2> QED
    BY <1>0, <1>1, <1>3, <2>1
<1>4. 0 .. Width \subseteq T
  <2> HIDE DEF T
  <2> QED
    BY <1>0, <1>2, <1>3, RangeInduction
<1> QED
  BY <1>0, <1>4 DEF Rev

-----------------------------------------------------------------------------
(* The cursor whose unmasked bits are set: its reverse ends in ones. *)
Filler(v, a) == Pow2[Width] - Pow2[a] + (v % Pow2[a])

LEMMA FillerReversed ==
  ASSUME NEW v \in Nat, NEW a \in 0 .. Width
  PROVE  /\ Filler(v, a) \in Nat
         /\ Rev(Filler(v, a)) + 1 = (Reversed(v)[a] + 1) * Pow2[Width - a]
<1> DEFINE s == Pow2[a]
           t == v % s
           w == Filler(v, a)
           r == Reversed(v)[a]
           T == {i \in 0 .. Width - a : Reversed(w)[a + i] + 1 = (r + 1) * Pow2[i]}
<1>0. Width \in Nat /\ Width - a \in Nat /\ Width \in 0 .. Width /\ Width - a \in 0 .. Width
  BY ScanAssumption
<1>1. s \in Nat /\ s > 0 /\ t \in Nat /\ t < s /\ r \in Nat
  <2>1. s \in Nat /\ s > 0
    BY Pow2Steps
  <2>2. t \in Nat /\ t < s
    BY <2>1, Division
  <2>3. r \in Nat
    BY ReversedSteps
  <2> QED
    BY <2>1, <2>2, <2>3
(* The part of w above its n lowest bits is all ones. *)
<1>2. ASSUME NEW n \in a .. Width
      PROVE  /\ w = (Pow2[Width - n] - 1) * Pow2[n] + (Pow2[n] - s + t)
             /\ Pow2[Width - n] - 1 \in Nat
             /\ Pow2[n] - s + t \in Nat /\ Pow2[n] - s + t < Pow2[n]
             /\ Pow2[n] \in Nat /\ Pow2[n] > 0
  <2>1. n \in 0 .. Width /\ Width - n \in 0 .. Width /\ n + (Width - n) = Width
        /\ Width - n \in 0 .. Width - n /\ n - a \in 0 .. Width - a /\ n - a \in 0 .. Width
        /\ a + (n - a) = n
    BY <1>0
  <2> DEFINE p == Pow2[n]
             q == Pow2[Width - n]
             e == Pow2[n - a]
  <2>2. p \in Nat /\ p > 0 /\ q \in Nat /\ q > 0 /\ e \in Nat /\ e > 0
    BY <2>1, Pow2Steps
  <2>3. Pow2[Width] = p * q
    <3>1. Pow2[n + (Width - n)] = Pow2[n] * Pow2[Width - n]
      BY <2>1, Pow2Sum
    <3> QED
      BY <2>1, <3>1
  <2>4. p = s * e
    <3>1. Pow2[a + (n - a)] = Pow2[a] * Pow2[n - a]
      BY <2>1, Pow2Sum
    <3> QED
      BY <2>1, <3>1
  <2>5. w = p * q - s + t
    BY <2>3 DEF Filler
  <2> HIDE DEF p, q, e, s, t, w
  <2>6. s <= p
    BY <1>1, <2>2, <2>4
  <2>7. p * q = (q - 1) * p + p
    BY <2>2
  <2>8. w = (q - 1) * p + (p - s + t)
    <3> DEFINE y == (q - 1) * p
    <3>1. y \in Nat /\ w = (y + p) - s + t
      BY <2>2, <2>5, <2>7
    <3> HIDE DEF y
    <3>2. w = y + (p - s + t)
      BY <1>1, <2>2, <3>1
    <3> QED
      BY <3>2 DEF y
  <2>9. q - 1 \in Nat /\ p - s + t \in Nat /\ p - s + t < p
    BY <1>1, <2>2, <2>6
  <2> QED
    BY <2>2, <2>8, <2>9 DEF p, q
<1>3. w \in Nat
  <2>1. a \in a .. Width
    BY <1>0
  <2> DEFINE q == Pow2[Width - a] - 1
  <2>2. w = q * Pow2[a] + (Pow2[a] - s + t) /\ q \in Nat /\ Pow2[a] \in Nat /\ Pow2[a] - s + t \in Nat
    BY <1>2, <2>1
  <2> HIDE DEF w, q
  <2> QED
    BY <2>2
<1>4. Reversed(w)[a] = r
  <2>1. a \in a .. Width
    BY <1>0
  <2> DEFINE q == Pow2[Width - a] - 1
  <2>2. w = q * s + (s - s + t) /\ q \in Nat
    BY <1>2, <2>1
  <2>3. s - s + t = t
    BY <1>1
  <2> HIDE DEF q, w, s
  <2>4. w % s = t
    <3>1. w = q * s + t
      BY <2>2, <2>3
    <3> HIDE DEF t
    <3> QED
      BY <1>1, <1>3, <2>2, <3>1, DivisionIs
  <2> QED
    BY <1>3, <2>4, LowestBits DEF s
<1>5. 0 \in T
  <2>1. a + 0 = a /\ Pow2[0] = 1 /\ 0 \in 0 .. Width - a
    BY <1>0, Pow2Steps
  <2> HIDE DEF r, w
  <2>2. (r + 1) * Pow2[0] = r + 1
    BY <1>1, <2>1
  <2> QED
    BY <1>4, <2>1, <2>2
<1>6. ASSUME NEW i \in 0 .. (Width - a) - 1, i \in T PROVE i + 1 \in T
  <2> DEFINE n == a + i
  <2>1. /\ n \in a .. Width /\ n \in 0 .. Width - 1 /\ n \in 0 .. Width
        /\ a + (i + 1) = n + 1 /\ i + 1 \in 0 .. Width - a
        /\ i \in 0 .. Width - 1 /\ i \in 0 .. Width
        /\ Width - (n + 1) \in 0 .. Width - 1 /\ (Width - (n + 1)) + 1 = Width - n
    BY <1>0
  <2>2. Bit(w, n) = 1
    <3> DEFINE h == Pow2[Width - (n + 1)]
               q == Pow2[Width - n] - 1
               e == Pow2[n] - s + t
    <3>1. Pow2[Width - n] = 2 * h /\ h \in Nat
      <4>1. Pow2[(Width - (n + 1)) + 1] = 2 * h
        BY <2>1, Pow2Steps
      <4>2. Width - (n + 1) \in 0 .. Width
        BY <1>0, <2>1
      <4>3. h \in Nat
        BY <4>2, Pow2Steps
      <4> QED
        BY <2>1, <4>1, <4>3
    <3>2. w = q * Pow2[n] + e /\ q \in Nat /\ e \in Nat /\ e < Pow2[n]
          /\ Pow2[n] \in Nat /\ Pow2[n] > 0
      BY <1>2, <2>1
    <3>3. w \div Pow2[n] = q
      <4> HIDE DEF w, q, e, n
      <4> QED
        BY <1>3, <3>2, DivisionIs
    <3>4. q = 2 * h - 1 /\ q \in Nat
      BY <3>1, <3>2
    <3>5. q % 2 = 1
      <4> HIDE DEF q, h
      <4> QED
        BY <3>1, <3>4
    <3> HIDE DEF w, q
    <3> QED
      BY <3>3, <3>5 DEF Bit
  <2>3. Reversed(w)[n + 1] = 2 * Reversed(w)[n] + 1 /\ Reversed(w)[n] \in Nat
    BY <1>3, <2>1, <2>2, ReversedSteps
  <2>4. Reversed(w)[n] + 1 = (r + 1) * Pow2[i]
    BY <1>6
  <2>5. Pow2[i + 1] = 2 * Pow2[i] /\ Pow2[i] \in Nat
    BY <1>0, <2>1, Pow2Steps
  <2>6. (r + 1) * (2 * Pow2[i]) = 2 * ((r + 1) * Pow2[i])
    <3> HIDE DEF r
    <3> QED
      BY <1>1, <2>5
  <2>7. Reversed(w)[n + 1] + 1 = 2 * (Reversed(w)[n] + 1)
    BY <2>3
  <2>8. Reversed(w)[a + (i + 1)] + 1 = (r + 1) * Pow2[i + 1]
    <3> HIDE DEF r, w, n
    <3> QED
      BY <2>1, <2>4, <2>5, <2>6, <2>7
  <2> QED
    BY <2>1, <2>8
<1>7. 0 .. Width - a \subseteq T
  <2> HIDE DEF T
  <2> QED
    BY <1>0, <1>5, <1>6, RangeInduction
<1>8. Width - a \in 0 .. Width - a /\ a + (Width - a) = Width
  BY <1>0
<1>9. Reversed(w)[Width] + 1 = (r + 1) * Pow2[Width - a]
  BY <1>7, <1>8
<1> QED
  BY <1>3, <1>9 DEF Rev

LEMMA Pow2Order ==
  ASSUME NEW a \in 0 .. Width, NEW b \in 0 .. Width
  PROVE  /\ Pow2[a] <= Pow2[b] => a <= b
         /\ a + 2 <= b => Pow2[b] >= 4 * Pow2[a]
<1>0. Width \in Nat
  BY ScanAssumption
<1>1. ASSUME NEW x \in 0 .. Width, NEW y \in 0 .. Width, x <= y
      PROVE  Pow2[x] <= Pow2[y] /\ Pow2[x] \in Nat /\ Pow2[y] \in Nat /\ Pow2[x] > 0
  <2>1. y - x \in 0 .. Width - x /\ x + (y - x) = y /\ y - x \in 0 .. Width
    BY <1>0, <1>1
  <2>2. Pow2[x + (y - x)] = Pow2[x] * Pow2[y - x]
    BY <2>1, Pow2Sum
  <2> DEFINE p == Pow2[x]
             q == Pow2[y - x]
  <2>3. p \in Nat /\ q \in Nat /\ q > 0 /\ p > 0 /\ Pow2[y] \in Nat
    BY <2>1, Pow2Steps
  <2>4. p <= p * q
    <3> HIDE DEF p, q
    <3> QED
      BY <2>3
  <2> QED
    BY <2>1, <2>2, <2>3, <2>4
<1>2. ASSUME b < a PROVE Pow2[b] < Pow2[a]
  <2>1. b + 1 \in 0 .. Width /\ b + 1 <= a /\ b \in 0 .. Width - 1
    BY <1>0, <1>2
  <2>2. Pow2[b + 1] = 2 * Pow2[b]
    BY <2>1, Pow2Steps
  <2> QED
    BY <1>1, <2>1, <2>2
<1>3. ASSUME a + 2 <= b PROVE Pow2[b] >= 4 * Pow2[a]
  <2>1. /\ a \in 0 .. Width - 1 /\ a + 1 \in 0 .. Width - 1 /\ (a + 1) + 1 = a + 2
        /\ a + 2 \in 0 .. Width
    BY <1>0, <1>3
  <2>2. Pow2[a + 1] = 2 * Pow2[a] /\ Pow2[a + 2] = 2 * Pow2[a + 1] /\ Pow2[a] \in Nat
    <3>1. Pow2[(a + 1) + 1] = 2 * Pow2[a + 1]
      BY <2>1, Pow2Steps
    <3> QED
      BY <2>1, <3>1, Pow2Steps
  <2>3. Pow2[a + 2] <= Pow2[b] /\ Pow2[b] \in Nat
    BY <1>1, <1>3, <2>1
  <2> QED
    BY <2>2, <2>3
<1>4. Pow2[a] \in Nat /\ Pow2[b] \in Nat
  BY Pow2Steps
<1> QED
  BY <1>0, <1>2, <1>3, <1>4

(* Equal lowest bits of equal lowest bits. *)
LEMMA LowerBits ==
  ASSUME NEW v \in Nat, NEW w \in Nat, NEW a \in 0 .. Width, NEW b \in a .. Width,
         v % Pow2[b] = w % Pow2[b]
  PROVE  v % Pow2[a] = w % Pow2[a]
<1>0. Width \in Nat /\ b \in 0 .. Width /\ b - a \in 0 .. Width - a /\ a + (b - a) = b
  BY ScanAssumption
<1>1. Reversed(v)[b] = Reversed(w)[b]
  BY <1>0, LowestBits
<1>2. /\ Reversed(v)[a + (b - a)] \div Pow2[b - a] = Reversed(v)[a]
      /\ Reversed(w)[a + (b - a)] \div Pow2[b - a] = Reversed(w)[a]
  BY <1>0, ReversedUpper
<1>3. Reversed(v)[a] = Reversed(w)[a]
  BY <1>0, <1>1, <1>2
<1> QED
  BY <1>3, LowestBits

(* Seen in reverse, the next cursor is the first that differs from v in    *)
(* the a lowest bits; after the last it is 0.                              *)
LEMMA NextCursorIs ==
  ASSUME NEW v \in Nat, NEW a \in 0 .. Width
  PROVE  /\ NextCursor(v, Pow2[a]) \in Nat
         /\ NextCursor(v, Pow2[a]) < Pow2[Width]
         /\ NextCursor(v, Pow2[a]) # 0
              => Rev(NextCursor(v, Pow2[a])) = (Reversed(v)[a] + 1) * Pow2[Width - a]
         /\ Reversed(v)[a] + 1 < Pow2[a] => NextCursor(v, Pow2[a]) # 0
<1> DEFINE r == Reversed(v)[a]
           p == Pow2[a]
           q == Pow2[Width - a]
           m == Pow2[Width]
           u == (r + 1) * q
           n == NextCursor(v, Pow2[a])
<1>0. /\ Width \in Nat /\ Width \in 0 .. Width /\ Width - a \in 0 .. Width - a
      /\ Width - a \in 0 .. Width /\ a + (Width - a) = Width
  BY ScanAssumption
<1>1. /\ r \in Nat /\ r < p /\ p \in Nat /\ p > 0 /\ q \in Nat /\ q > 0
      /\ m \in Nat /\ m > 0 /\ m = p * q
  <2>1. r \in Nat /\ r < p
    BY ReversedRange
  <2>2. p \in Nat /\ p > 0 /\ q \in Nat /\ q > 0 /\ m \in Nat /\ m > 0
    BY <1>0, Pow2Steps
  <2>3. Pow2[a + (Width - a)] = Pow2[a] * Pow2[Width - a]
    BY <1>0, Pow2Sum
  <2> QED
    BY <1>0, <2>1, <2>2, <2>3
<1>2. n = Rev(u % m)
  BY FillerReversed DEF NextCursor, Filler
<1>3. u \in Nat /\ u > 0 /\ u <= m /\ (r + 1 < p => u < m)
  <2> HIDE DEF r, p, q, m
  <2>1. u \in Nat /\ u > 0
    BY <1>1
  <2>2. u <= m
    <3>1. PICK e \in Nat : p = (r + 1) + e
      <4>1. p - (r + 1) \in Nat /\ p = (r + 1) + (p - (r + 1))
        BY <1>1
      <4> QED
        BY <4>1
    <3>2. p * q = (r + 1) * q + e * q /\ e * q >= 0
      BY <1>1, <3>1
    <3> QED
      BY <1>1, <2>1, <3>2
  <2>3. r + 1 < p => u < m
    <3> SUFFICES ASSUME r + 1 < p PROVE u < m
      OBVIOUS
    <3>1. PICK e \in Nat : p = (r + 1) + 1 + e
      <4>1. p - (r + 1) - 1 \in Nat /\ p = (r + 1) + 1 + (p - (r + 1) - 1)
        BY <1>1
      <4> QED
        BY <4>1
    <3>2. p * q = (r + 1) * q + q + e * q /\ e * q >= 0
      BY <1>1, <3>1
    <3> DEFINE y == e * q
    <3>3. m = u + q + y /\ y >= 0 /\ y \in Int
      BY <1>1, <3>2
    <3> HIDE DEF y, u
    <3> QED
      BY <1>1, <2>1, <3>3
  <2> QED
    BY <2>1, <2>2, <2>3
<1> HIDE DEF r, p, q, m, u
<1>4. u % m \in Nat
  BY <1>1, <1>3
<1>5. n \in Nat /\ n < Pow2[Width]
  BY <1>2, <1>4, RevRange
<1>6. CASE u < m
  <2>1. u % m = u
    <3>1. u = 0 * m + u
      BY <1>1, <1>3
    <3> QED
      BY <1>1, <1>3, <1>6, <3>1, DivisionIs
  <2>2. Rev(n) = u
    BY <1>2, <1>3, <1>6, <2>1, RevTwice DEF m
  <2>3. n # 0
    BY <1>3, <2>2, RevZero
  <2> QED
    BY <1>5, <2>2, <2>3 DEF u, r, q
<1>7. CASE u = m
  <2>1. u % m = 0
    <3>1. u = 1 * m + 0
      BY <1>1, <1>7
    <3> QED
      BY <1>1, <1>3, <3>1, DivisionIs
  <2>2. n = 0
    BY <1>2, <2>1, RevZero
  <2>3. ~(r + 1 < p)
    BY <1>1, <1>3, <1>7
  <2> QED
    BY <1>5, <2>2, <2>3 DEF r, p
<1> QED
  BY <1>1, <1>3, <1>6, <1>7

(* The cursor of the next call is greater, from its highest bit on. *)
LEMMA NextCursorGrows ==
  ASSUME NEW v \in Nat, NEW a \in 0 .. Width, NextCursor(v, Pow2[a]) # 0
  PROVE  Rev(NextCursor(v, Pow2[a])) > Rev(v)
<1> DEFINE r == Reversed(v)[a]
           q == Pow2[Width - a]
<1>0. /\ Width \in Nat /\ Width - a \in 0 .. Width - a
      /\ Width - a \in 0 .. Width /\ a + (Width - a) = Width
  BY ScanAssumption
<1>1. Rev(v) < r * q + q
  <2>1. Reversed(v)[a + (Width - a)] < r * q + q
    BY <1>0, ReversedUpper
  <2> QED
    BY <1>0, <2>1 DEF Rev
<1>2. r \in Nat /\ q \in Nat /\ Rev(v) \in Nat
  BY <1>0, ReversedSteps, Pow2Steps, RevRange
<1>3. Rev(NextCursor(v, Pow2[a])) = (r + 1) * q
  BY NextCursorIs
<1> HIDE DEF r, q
<1>4. (r + 1) * q = r * q + q
  BY <1>2
<1> QED
  BY <1>1, <1>2, <1>3, <1>4

(* A hash that agrees with the cursor in the smaller table's bits and is   *)
(* not behind it is met in the larger table, unless the cursor is folded.  *)
LEMMA HashExpanded ==
  ASSUME NEW v \in Nat, NEW h \in Nat, NEW a \in 0 .. Width, NEW b \in a .. Width,
         Reversed(h)[a] = Reversed(v)[a], Rev(h) >= Rev(v),
         Pow2[b] < 4 * Pow2[a] \/ v % Pow2[b] < Pow2[a]
  PROVE  h % Pow2[b] \in Expansions(v, Pow2[a], Pow2[b])
<1> DEFINE s == Pow2[a]
           l == Pow2[b]
           j == h % l
           x == v % l
<1>0. Width \in Nat /\ b \in 0 .. Width
  BY ScanAssumption
<1>1. s \in Nat /\ s > 0 /\ l \in Nat /\ l > 0
  BY <1>0, Pow2Steps
<1>2. j \in Nat /\ j < l /\ x \in Nat /\ x < l
  BY <1>1, Division
<1>3. h % s = v % s
  BY LowestBits
<1>4. j % s = v % s /\ x % s = v % s
  <2>1. j % l = h % l /\ x % l = v % l
    <3>1. \A y \in Nat : y < l => y % l = y
      <4>1. ASSUME NEW y \in Nat, y < l PROVE y % l = y
        <5>1. y = 0 * l + y
          BY <1>1
        <5> HIDE DEF l
        <5> QED
          BY <1>1, <4>1, <5>1, DivisionIs
      <4> QED
        BY <4>1
    <3> HIDE DEF l, j, x
    <3>2. j % l = j /\ x % l = x
      BY <1>2, <3>1
    <3> QED
      BY <3>2 DEF j, x
  <2>2. j % s = h % s /\ x % s = v % s
    <3> HIDE DEF j, x
    <3> QED
      BY <1>2, <2>1, LowerBits
  <2> QED
    BY <1>3, <2>2
<1>5. j >= x
  <2> SUFFICES ASSUME j < x PROVE FALSE
    BY <1>2
  <2>1. \A y \in Nat : (y < s => y % s = y) /\ y % s <= y /\ y % s \in Nat
    <3>1. ASSUME NEW y \in Nat PROVE (y < s => y % s = y) /\ y % s <= y /\ y % s \in Nat
      <4> HIDE DEF s
      <4>1. y = s * (y \div s) + (y % s) /\ y % s \in Nat /\ y \div s \in Nat /\ s * (y \div s) \in Nat
        BY <1>1, Division
      <4>2. y % s <= y
        <5> DEFINE e == s * (y \div s)
                   g == y % s
        <5>1. y = e + g /\ e \in Nat /\ g \in Nat
          BY <4>1
        <5> HIDE DEF e, g
        <5>2. g <= y
          BY <5>1
        <5> QED
          BY <5>2 DEF g
      <4>3. y < s => y % s = y
        <5>1. y = 0 * s + y
          BY <1>1
        <5> QED
          BY <1>1, <5>1, DivisionIs
      <4> QED
        BY <4>1, <4>2, <4>3
    <3> QED
      BY <3>1
  <2>2. CASE x < s
    <3> HIDE DEF j, x, s
    <3>1. x % s = x /\ j % s <= j
      BY <1>2, <2>1, <2>2
    <3> QED
      BY <1>2, <1>4, <3>1
  <2>3. CASE ~(x < s)
    <3>1. b < a + 2
      BY <1>0, <1>1, <2>3, Pow2Order
    <3>2. CASE b = a
      <4>1. j < s /\ x < s
        BY <1>2, <3>2
      <4> QED
        BY <2>3, <4>1
    <3>3. CASE b = a + 1
      <4> DEFINE c == Bit(v, a)
                 e == Bit(h, a)
      <4>1. a \in 0 .. Width - 1 /\ l = 2 * s
        <5>1. a \in 0 .. Width - 1
          BY <1>0, <3>3
        <5> QED
          BY <3>3, <5>1, Pow2Steps
      <4>2. x = (v % s) + s * c /\ j = (h % s) + s * e
        BY <1>1, <4>1, NextBit DEF Bit
      <4>3. c \in {0, 1} /\ e \in {0, 1} /\ v % s \in Nat /\ h % s \in Nat
        BY <2>1, BitIs
      <4>4. e = 0 /\ c = 1
        <5> DEFINE g == v % s
        <5>1. x = g + s * c /\ j = g + s * e /\ g \in Nat
          BY <1>3, <4>2, <4>3
        <5> HIDE DEF g, x, j, c, e, s
        <5>2. s * c = (IF c = 0 THEN 0 ELSE s) /\ s * e = (IF e = 0 THEN 0 ELSE s)
          BY <1>1, <4>3
        <5> QED
          BY <1>1, <4>3, <5>1, <5>2
      <4>5. Reversed(h)[b] < Reversed(v)[b]
        <5>1. /\ Reversed(h)[b] = 2 * Reversed(h)[a] + e
              /\ Reversed(v)[b] = 2 * Reversed(v)[a] + c
              /\ Reversed(v)[a] \in Nat
          BY <3>3, <4>1, ReversedSteps
        <5> QED
          BY <4>4, <5>1
      <4>6. Rev(h) < Rev(v)
        <5>1. Width \in b .. Width
          BY <1>0
        <5> QED
          BY <1>0, <4>5, <5>1, ReversedOrder DEF Rev
      <4>7. Rev(h) \in Nat /\ Rev(v) \in Nat
        BY RevRange
      <4> QED
        BY <4>6, <4>7
    <3> QED
      BY <1>0, <3>1, <3>2, <3>3
  <2> QED
    BY <2>2, <2>3
<1>6. j \in 0 .. l - 1
  <2> HIDE DEF j, l
  <2> QED
    BY <1>1, <1>2
<1> QED
  BY <1>4, <1>5, <1>6 DEF Expansions

-----------------------------------------------------------------------------
(* Table sizes are always ones _dictNextPower gives. *)
SizesOK(a) == a.ht0.size \in Sizes \cup {0} /\ a.ht1.size \in Sizes \cup {0}

LEMMA RehashSizes ==
  ASSUME NEW a, Good(a), SizesOK(a)
  PROVE  SizesOK(RehashStep(a))
<1>1. a = [ht0 |-> a.ht0, ht1 |-> a.ht1, rehashidx |-> a.rehashidx, iterators |-> a.iterators]
  BY DEF Good, DictOK
<1>2. ASSUME NEW p PROVE SizesOK(MoveTo(a, p))
  <2> DEFINE old == Drained(a.ht0, a, p)
             new == Filled(a.ht1, MovedKeys(a, p))
  <2>1. old.size = a.ht0.size /\ new.size = a.ht1.size /\ NoTable.size = 0
    BY DEF Drained, Filled, NoTable
  <2>2. \/ MoveTo(a, p).ht0 = new /\ MoveTo(a, p).ht1 = NoTable
        \/ MoveTo(a, p).ht0 = old /\ MoveTo(a, p).ht1 = new
    BY <1>1 DEF MoveTo
  <2> HIDE DEF old, new
  <2> QED
    BY <2>1, <2>2 DEF SizesOK
<1> QED
  BY <1>2 DEF RehashStep, Rehash

LEMMA ExpandSizes ==
  ASSUME NEW a, Good(a), SizesOK(a), NEW size \in Nat, size <= MaxRequest
  PROVE  SizesOK(Expand(a, size))
<1>1. a = [ht0 |-> a.ht0, ht1 |-> a.ht1, rehashidx |-> a.rehashidx, iterators |-> a.iterators]
  BY DEF Good, DictOK
<1> DEFINE n == NewTable(NextPower(size))
<1>2. n.size \in Sizes
  BY NextPowerRange DEF NewTable
<1>3. \/ Expand(a, size) = a
      \/ Expand(a, size).ht0 = n /\ Expand(a, size).ht1 = a.ht1
      \/ Expand(a, size).ht0 = a.ht0 /\ Expand(a, size).ht1 = n
  BY <1>1 DEF Expand
<1> HIDE DEF n
<1> QED
  BY <1>2, <1>3 DEF SizesOK

LEMMA EntrySizes ==
  ASSUME NEW a, Good(a), SizesOK(a), NEW k
  PROVE  /\ SizesOK([a EXCEPT !.ht0 = Insert(@, k)]) /\ SizesOK([a EXCEPT !.ht1 = Insert(@, k)])
         /\ SizesOK([a EXCEPT !.ht0 = Unlink(@, k)]) /\ SizesOK([a EXCEPT !.ht1 = Unlink(@, k)])
<1>1. a = [ht0 |-> a.ht0, ht1 |-> a.ht1, rehashidx |-> a.rehashidx, iterators |-> a.iterators]
  BY DEF Good, DictOK
<1>2. \A h : Insert(h, k).size = h.size /\ Unlink(h, k).size = h.size
  BY DEF Insert, Unlink
<1>3. ASSUME NEW x, NEW y, x.size = a.ht0.size, y.size = a.ht1.size
      PROVE  SizesOK([a EXCEPT !.ht0 = x]) /\ SizesOK([a EXCEPT !.ht1 = y])
  <2>1. /\ [a EXCEPT !.ht0 = x].ht0 = x /\ [a EXCEPT !.ht0 = x].ht1 = a.ht1
        /\ [a EXCEPT !.ht1 = y].ht0 = a.ht0 /\ [a EXCEPT !.ht1 = y].ht1 = y
    BY <1>1
  <2> QED
    BY <1>3, <2>1 DEF SizesOK
<1> QED
  BY <1>2, <1>3

LEMMA AddSizes ==
  ASSUME NEW a, Good(a), SizesOK(a), NEW c, NEW k
  PROVE  SizesOK(AddRaw(a, k, c))
<1> DEFINE s == RehashStep(a)
           p == Prepare(a, c)
<1>1. Good(s) /\ SizesOK(s)
  BY RehashStepGood, RehashSizes
<1>2. Good(p)
  BY PrepareGood
<1>3. SizesOK(p)
  <2> HIDE DEF s
  <2>1. WantsExpand(s, c) => SizesOK(Expand(s, ExpandRequest(s)))
    BY <1>1, WantedExpandSucceeds, ExpandSizes
  <2> QED
    BY <1>1, <2>1 DEF Prepare, ExpandIfNeeded, s
<1>4. \/ AddRaw(a, k, c) = p
      \/ AddRaw(a, k, c) = [p EXCEPT !.ht0 = Insert(@, k)]
      \/ AddRaw(a, k, c) = [p EXCEPT !.ht1 = Insert(@, k)]
  BY DEF AddRaw
<1>5. /\ SizesOK([p EXCEPT !.ht0 = Insert(@, k)])
      /\ SizesOK([p EXCEPT !.ht1 = Insert(@, k)])
  <2> HIDE DEF p
  <2> QED
    BY <1>2, <1>3, EntrySizes
<1> QED
  BY <1>3, <1>4, <1>5

LEMMA RemoveSizes ==
  ASSUME NEW a, Good(a), SizesOK(a), NEW k
  PROVE  SizesOK(Remove(a, k))
<1> DEFINE s == RehashStep(a)
<1>1. Good(s) /\ SizesOK(s)
  BY RehashStepGood, RehashSizes
<1>2. \/ Remove(a, k) = a \/ Remove(a, k) = s
      \/ Remove(a, k) = [s EXCEPT !.ht0 = Unlink(@, k)]
      \/ Remove(a, k) = [s EXCEPT !.ht1 = Unlink(@, k)]
  BY DEF Remove
<1>3. /\ SizesOK([s EXCEPT !.ht0 = Unlink(@, k)])
      /\ SizesOK([s EXCEPT !.ht1 = Unlink(@, k)])
  <2> HIDE DEF s
  <2> QED
    BY <1>1, EntrySizes
<1> QED
  BY <1>1, <1>2, <1>3

LEMMA ResizeSmall ==
  ASSUME NEW a, Good(a)
  PROVE  ResizeRequest(a) \in Nat /\ ResizeRequest(a) <= MaxRequest
<1>1. /\ a.ht0.used \in Nat /\ a.ht0.used <= Cardinality(Keys)
      /\ Cardinality(Keys) \in Nat
  BY EntriesFinite, DictAssumption, FS_CardinalityType
  DEF Good, GoodTable, Counted, TableOK
<1> QED
  BY <1>1, DictAssumption DEF ResizeRequest

LEMMA IteratorsSizes ==
  ASSUME NEW a, Good(a), SizesOK(a), NEW n
  PROVE  SizesOK([a EXCEPT !.iterators = n])
<1>1. a = [ht0 |-> a.ht0, ht1 |-> a.ht1, rehashidx |-> a.rehashidx, iterators |-> a.iterators]
  BY DEF Good, DictOK
<1>2. [a EXCEPT !.iterators = n].ht0 = a.ht0 /\ [a EXCEPT !.iterators = n].ht1 = a.ht1
  BY <1>1
<1> QED
  BY <1>2 DEF SizesOK

LEMMA SizesStep == Good(d) /\ SizesOK(d) /\ Next => SizesOK(d')
<1> SUFFICES ASSUME Good(d), SizesOK(d), Next PROVE SizesOK(d')
  OBVIOUS
<1>1. ASSUME NEW i \in Iters, NextInChain(i) \/ NextBucket(i) \/ NextEnd(i) \/ Release(i)
      PROVE  SizesOK(d')
  <2>1. \/ d' = d \/ d' = [d EXCEPT !.iterators = @ + 1]
        \/ d' = [d EXCEPT !.iterators = @ - 1]
    BY <1>1 DEF NextInChain, NextBucket, NextEnd, Release, Count
  <2> QED
    BY <2>1, IteratorsSizes
<1>2. ASSUME NEW k \in Keys, Add(k) \/ Delete(k) PROVE SizesOK(d')
  BY <1>2, AddSizes, RemoveSizes DEF Add, Delete
<1>3. CASE Find
  BY <1>3, RehashSizes DEF Find, Looked
<1>4. CASE Resize
  BY <1>4, ResizeSmall, ExpandSizes DEF Resize
<1>5. ASSUME NEW size \in {s \in Sizes : s <= MaxRequest}, ExpandTo(size) PROVE SizesOK(d')
  BY <1>5, ExpandSizes, DictAssumption DEF ExpandTo
<1> QED
  BY <1>1, <1>2, <1>3, <1>4, <1>5 DEF Next

-----------------------------------------------------------------------------
(* What one call of a scan does. *)

(* A scan that goes on has behind it only what it has returned, unless its *)
(* cursor was folded.                                                      *)
ScanOK(a, s) ==
  /\ s.phase = "going" =>
       /\ s.cursor \in Nat /\ s.cursor < Pow2[Width]
       /\ s.missing \subseteq DictKeys(a)
       /\ ~s.folded => \A k \in s.missing : Rev(Hash[k]) >= Rev(s.cursor)
  /\ s.phase = "over" /\ ~s.folded => s.missing = {}

LEMMA TableSizes ==
  ASSUME Good(d), SizesOK(d), Used(d) # 0
  PROVE  /\ \E a \in 0 .. Width : Smaller.size = Pow2[a]
         /\ IsRehashing(d) =>
              \E a \in 0 .. Width : \E b \in a .. Width :
                 Smaller.size = Pow2[a] /\ Larger.size = Pow2[b]
<1>1. d.ht0.size \in Nat /\ d.ht1.size \in Nat
  BY DEF Good, GoodTable, TableOK
<1>2. d.ht0.size # 0 /\ (IsRehashing(d) => d.ht1.size # 0)
  <2>1. CASE IsRehashing(d)
    BY <1>1, <2>1 DEF Good, Front
  <2>2. CASE ~IsRehashing(d)
    <3> SUFFICES ASSUME d.ht0.size = 0 PROVE FALSE
      BY <2>2
    <3>1. DictKeys(d) = {}
      BY <2>2, NoTableGood DEF Good, DictKeys, Entries
    <3> QED
      BY <3>1, UsedZeroMeansEmpty
  <2> QED
    BY <2>1, <2>2
<1>3. PICK a \in 0 .. Width : d.ht0.size = Pow2[a]
  BY <1>2, ScanAssumption DEF SizesOK
<1>4. CASE ~IsRehashing(d)
  BY <1>3, <1>4 DEF Smaller
<1>5. CASE IsRehashing(d)
  <2>1. PICK b \in 0 .. Width : d.ht1.size = Pow2[b]
    BY <1>2, <1>5, ScanAssumption DEF SizesOK
  <2>2. CASE d.ht1.size < d.ht0.size
    <3>1. b <= a
      BY <1>1, <1>3, <2>1, <2>2, Pow2Order
    <3>2. Smaller = d.ht1 /\ Larger = d.ht0
      BY <1>5, <2>2 DEF Smaller, Larger
    <3>3. a \in b .. Width
      BY <3>1, ScanAssumption
    <3> QED
      BY <1>3, <2>1, <3>2, <3>3
  <2>3. CASE ~(d.ht1.size < d.ht0.size)
    <3>1. a <= b
      BY <1>1, <1>3, <2>1, <2>3, Pow2Order
    <3>2. Smaller = d.ht0 /\ Larger = d.ht1
      BY <1>5, <2>3 DEF Smaller, Larger
    <3>3. b \in a .. Width
      BY <3>1, ScanAssumption
    <3> QED
      BY <1>3, <2>1, <3>2, <3>3
  <2> QED
    BY <2>2, <2>3
<1> QED
  BY <1>4, <1>5

(* What a call does not return lies ahead of the next cursor. *)
LEMMA NothingPassed ==
  ASSUME Good(d), SizesOK(d), NEW v \in Nat, ~Folds(v),
         NEW k \in DictKeys(d), Rev(Hash[k]) >= Rev(v), k \notin Emitted(v)
  PROVE  /\ NextCursor(v, Smaller.size) # 0
         /\ Rev(Hash[k]) >= Rev(NextCursor(v, Smaller.size))
<1> DEFINE h == Hash[k]
           r(x, n) == Reversed(x)[n]
<1>1. k \in Keys /\ h \in Nat /\ Used(d) # 0
  BY UsedZeroMeansEmpty, EntriesFinite, DictAssumption DEF DictKeys, Good, GoodTable
<1>2. Width \in Nat /\ Width \in 0 .. Width
  BY ScanAssumption
<1>3. ASSUME NEW a \in 0 .. Width, NEW b \in a .. Width, Smaller.size = Pow2[a],
             Reversed(h)[a] = Reversed(v)[a],
             IsRehashing(d) => Larger.size = Pow2[b]
      PROVE  FALSE
  <2>1. h % Pow2[a] = v % Pow2[a]
    BY <1>1, <1>3, LowestBits
  <2>2. CASE ~IsRehashing(d)
    <3>1. Smaller = d.ht0 /\ k \in Entries(d.ht0) /\ GoodTable(d.ht0)
      BY <2>2, NoTableGood DEF Smaller, Good, DictKeys
    <3>2. k \in d.ht0.table[Hash[k] % d.ht0.size]
      BY <1>1, <3>1, ChainLookup DEF GoodTable, InChain, Bucket
    <3> QED
      BY <1>3, <2>1, <3>1, <3>2 DEF Emitted
  <2>3. CASE IsRehashing(d)
    <3>1. /\ GoodTable(Smaller) /\ GoodTable(Larger)
          /\ k \in Entries(Smaller) \/ k \in Entries(Larger)
      BY <2>3 DEF Smaller, Larger, Good, DictKeys
    <3>2. CASE k \in Entries(Smaller)
      <4>1. k \in Smaller.table[Hash[k] % Smaller.size]
        BY <1>1, <3>1, <3>2, ChainLookup DEF GoodTable, InChain, Bucket
      <4> QED
        BY <1>3, <2>1, <4>1 DEF Emitted
    <3>3. CASE k \in Entries(Larger)
      <4>1. k \in Larger.table[Hash[k] % Larger.size]
        BY <1>1, <3>1, <3>3, ChainLookup DEF GoodTable, InChain, Bucket
      <4>2. Pow2[b] < 4 * Pow2[a] \/ v % Pow2[b] < Pow2[a]
        <5>1. Pow2[a] \in Nat /\ Pow2[b] \in Nat /\ v % Pow2[b] \in Nat
          <6>1. b \in 0 .. Width
            BY <1>2
          <6>2. Pow2[a] \in Nat /\ Pow2[b] \in Nat /\ Pow2[b] > 0
            BY <6>1, Pow2Steps
          <6> QED
            BY <6>2, Division
        <5> QED
          BY <1>3, <2>3, <5>1 DEF Folds
      <4>3. h % Pow2[b] \in Expansions(v, Pow2[a], Pow2[b])
        BY <1>1, <1>3, <4>2, HashExpanded
      <4> QED
        BY <1>3, <2>3, <4>1, <4>3 DEF Emitted
    <3> QED
      BY <3>1, <3>2, <3>3
  <2> QED
    BY <2>2, <2>3
<1>4. PICK a \in 0 .. Width : /\ Smaller.size = Pow2[a]
                              /\ Reversed(h)[a] # Reversed(v)[a]
  <2>1. CASE IsRehashing(d)
    <3>1. PICK a \in 0 .. Width : \E b \in a .. Width :
                 Smaller.size = Pow2[a] /\ Larger.size = Pow2[b]
      BY <1>1, <2>1, TableSizes
    <3> QED
      BY <1>3, <3>1
  <2>2. CASE ~IsRehashing(d)
    <3>1. PICK a \in 0 .. Width : Smaller.size = Pow2[a]
      BY <1>1, TableSizes
    <3>2. a \in a .. Width
      BY <1>2
    <3> QED
      BY <1>3, <2>2, <3>1, <3>2
  <2> QED
    BY <2>1, <2>2
<1> DEFINE x == Reversed(h)[a]
           y == Reversed(v)[a]
           q == Pow2[Width - a]
<1>5. x \in Nat /\ y \in Nat /\ q \in Nat /\ x < Pow2[a] /\ Pow2[a] \in Nat
  <2>1. Width - a \in 0 .. Width
    BY <1>2
  <2> QED
    BY <1>1, <2>1, ReversedRange, Pow2Steps
<1>6. x > y
  <2> SUFFICES ASSUME x < y PROVE FALSE
    BY <1>4, <1>5
  <2>1. Width \in a .. Width
    BY <1>2
  <2>2. Rev(h) < Rev(v)
    BY <1>1, <2>1, ReversedOrder DEF Rev
  <2>3. Rev(h) \in Nat /\ Rev(v) \in Nat
    BY <1>1, RevRange
  <2> QED
    BY <2>2, <2>3
<1> DEFINE n == NextCursor(v, Pow2[a])
<1>7. n # 0
  <2>1. y + 1 < Pow2[a]
    <3> HIDE DEF x, y
    <3> QED
      BY <1>5, <1>6
  <2> QED
    BY <2>1, NextCursorIs
<1>8. Rev(n) = (y + 1) * q
  BY <1>7, NextCursorIs
<1>9. Rev(h) >= x * q /\ Rev(h) \in Nat
  <2>1. Width - a \in 0 .. Width - a /\ a + (Width - a) = Width
    BY <1>2
  <2>2. x * q <= Reversed(h)[a + (Width - a)]
    BY <1>1, <2>1, ReversedUpper
  <2> QED
    BY <1>1, <2>1, <2>2, RevRange DEF Rev
<1>10. x * q >= (y + 1) * q
  <2> HIDE DEF x, y, q
  <2> QED
    BY <1>5, <1>6
<1>11. Rev(h) >= Rev(n)
  <2> DEFINE e == x * q
             f == (y + 1) * q
  <2>1. e \in Nat /\ f \in Nat
    <3> HIDE DEF x, y, q
    <3> QED
      BY <1>5
  <2>2. Rev(h) >= e /\ e >= f /\ Rev(n) = f
    BY <1>8, <1>9, <1>10
  <2> HIDE DEF e, f
  <2> QED
    BY <1>9, <2>1, <2>2
<1> QED
  BY <1>4, <1>7, <1>11

(* One call keeps that, and moves the cursor on.                           *)
LEMMA VisitKeeps ==
  ASSUME Good(d), SizesOK(d), NEW v \in Nat, v < Pow2[Width], NEW m, m \subseteq DictKeys(d),
         NEW f, ~f => \A k \in m : Rev(Hash[k]) >= Rev(v)
  PROVE  /\ ScanOK(d, Visit(v, m, f))
         /\ Visit(v, m, f).phase = "going" => Rev(Visit(v, m, f).cursor) > Rev(v)
<1> DEFINE n == NextCursor(v, Smaller.size)
           s == Visit(v, m, f)
<1>1. CASE Used(d) = 0
  <2>1. s.phase = "over" /\ s.missing = {}
    BY <1>1 DEF Visit, NoScan
  <2> QED
    BY <2>1 DEF ScanOK
<1>2. CASE Used(d) # 0
  <2>1. PICK a \in 0 .. Width : Smaller.size = Pow2[a]
    BY <1>2, TableSizes
  <2>2. n \in Nat /\ n < Pow2[Width] /\ (n # 0 => Rev(n) > Rev(v))
    BY <2>1, NextCursorIs, NextCursorGrows
  <2>3. /\ s.phase = (IF n = 0 THEN "over" ELSE "going")
        /\ s.cursor = n
        /\ s.missing = m \ Emitted(v)
        /\ s.folded = (f \/ Folds(v))
    BY <1>2 DEF Visit
  <2>4. ASSUME ~s.folded, NEW k \in s.missing
        PROVE  n # 0 /\ Rev(Hash[k]) >= Rev(n)
    <3>1. ~f /\ ~Folds(v) /\ k \in m /\ k \notin Emitted(v)
      BY <2>3, <2>4
    <3> HIDE DEF s
    <3> QED
      BY <3>1, NothingPassed
  <2> HIDE DEF s, n
  <2>5. s.phase = "over" /\ ~s.folded => s.missing = {}
    BY <2>3, <2>4
  <2>6. s.phase = "going" =>
       /\ s.cursor \in Nat /\ s.cursor < Pow2[Width]
       /\ s.missing \subseteq DictKeys(d)
       /\ ~s.folded => \A k \in s.missing : Rev(Hash[k]) >= Rev(s.cursor)
    BY <2>2, <2>3, <2>4
  <2>7. ScanOK(d, s) /\ (s.phase = "going" => Rev(s.cursor) > Rev(v))
    BY <2>2, <2>3, <2>5, <2>6 DEF ScanOK
  <2> QED
    BY <2>7 DEF s
<1> QED
  BY <1>1, <1>2

(* The inductive invariant of a scan among its dict's other users.         *)
ScanInv ==
  /\ IterInv
  /\ SizesOK(d)
  /\ scan = [phase |-> scan.phase, cursor |-> scan.cursor,
             missing |-> scan.missing, folded |-> scan.folded]
  /\ ScanOK(d, scan)

LEMMA ScanInitInv == ScanInit => ScanInv
<1> SUFFICES ASSUME ScanInit PROVE ScanInv
  OBVIOUS
<1>1. IterInv /\ d = NewDict /\ scan = NoScan
  BY InitIterInv DEF ScanInit, Init
<1>2. SizesOK(d)
  BY <1>1 DEF SizesOK, NewDict, NoTable
<1> QED
  BY <1>1, <1>2 DEF ScanInv, ScanOK, NoScan

LEMMA ScanFirstKeeps == ScanInv /\ ScanFirst => ScanInv'
<1> SUFFICES ASSUME ScanInv, ScanFirst PROVE ScanInv'
  OBVIOUS
<1>1. IterInv' /\ UNCHANGED <<d, it>>
  BY IterInvStep DEF ScanInv, ScanFirst, vars
<1>2. Good(d) /\ SizesOK(d)
  BY DEF ScanInv, IterInv
<1>3. 0 \in Nat /\ 0 < Pow2[Width]
  BY Pow2Steps, ScanAssumption
<1>4. \A k \in DictKeys(d) : Rev(Hash[k]) >= Rev(0)
  <2>1. \A k \in DictKeys(d) : Hash[k] \in Nat
    BY <1>2, EntriesFinite, DictAssumption DEF DictKeys, Good, GoodTable
  <2> QED
    BY <2>1, RevRange, RevZero
<1>5. ScanOK(d, Visit(0, DictKeys(d), FALSE))
  BY <1>2, <1>3, <1>4, VisitKeeps
<1>6. scan' = Visit(0, DictKeys(d), FALSE)
  BY DEF ScanFirst
<1>7. scan' = [phase |-> scan'.phase, cursor |-> scan'.cursor,
               missing |-> scan'.missing, folded |-> scan'.folded]
  BY <1>6 DEF Visit, NoScan
<1> QED
  BY <1>1, <1>2, <1>5, <1>6, <1>7 DEF ScanInv

LEMMA ScanNextKeeps ==
  ASSUME ScanInv, ScanNext
  PROVE  /\ ScanInv'
         /\ scan'.phase = "going" => Rev(scan'.cursor) > Rev(scan.cursor)
<1>1. IterInv' /\ UNCHANGED <<d, it>>
  BY IterInvStep DEF ScanInv, ScanNext, vars
<1>2. Good(d) /\ SizesOK(d)
  BY DEF ScanInv, IterInv
<1>3. scan' = Visit(scan.cursor, scan.missing, scan.folded)
  BY DEF ScanNext
<1>4. /\ scan.cursor \in Nat /\ scan.cursor < Pow2[Width]
      /\ scan.missing \subseteq DictKeys(d)
      /\ ~scan.folded => \A k \in scan.missing : Rev(Hash[k]) >= Rev(scan.cursor)
  BY DEF ScanNext, ScanInv, ScanOK
<1>5. /\ ScanOK(d, scan')
      /\ scan'.phase = "going" => Rev(scan'.cursor) > Rev(scan.cursor)
  BY <1>2, <1>3, <1>4, VisitKeeps
<1>6. scan' = [phase |-> scan'.phase, cursor |-> scan'.cursor,
               missing |-> scan'.missing, folded |-> scan'.folded]
  BY <1>3 DEF Visit, NoScan
<1> QED
  BY <1>1, <1>2, <1>5, <1>6 DEF ScanInv

LEMMA OthersScan ==
  ASSUME ScanInv, Others
  PROVE  /\ ScanInv'
         /\ scan.phase = "going" => scan'.phase = "going" /\ scan'.cursor = scan.cursor
<1>1. IterInv' /\ SizesOK(d)'
  <2>1. Next
    BY DEF Others
  <2>2. IterInv'
    BY <2>1, IterInvStep DEF ScanInv
  <2>3. SizesOK(d')
    BY <2>1, SizesStep DEF ScanInv, IterInv
  <2> QED
    BY <2>2, <2>3
<1>2. CASE scan.phase = "going"
  <2>1. scan' = [scan EXCEPT !.missing = @ \cap DictKeys(d')]
    BY <1>2 DEF Others
  <2>2. /\ scan'.phase = "going" /\ scan'.cursor = scan.cursor /\ scan'.folded = scan.folded
        /\ scan'.missing = scan.missing \cap DictKeys(d')
        /\ scan' = [phase |-> scan'.phase, cursor |-> scan'.cursor,
                    missing |-> scan'.missing, folded |-> scan'.folded]
    BY <1>2, <2>1 DEF ScanInv
  <2>3. ScanOK(d', scan')
    BY <1>2, <2>2 DEF ScanInv, ScanOK
  <2> QED
    BY <1>1, <2>2, <2>3 DEF ScanInv
<1>3. CASE scan.phase # "going"
  <2>1. scan' = NoScan
    BY <1>3 DEF Others
  <2> QED
    BY <1>1, <1>3, <2>1 DEF ScanInv, ScanOK, NoScan
<1> QED
  BY <1>2, <1>3

LEMMA ScanInvStep == ScanInv /\ [WalkNext]_scanVars => ScanInv'
<1> SUFFICES ASSUME ScanInv, [WalkNext]_scanVars PROVE ScanInv'
  OBVIOUS
<1>1. CASE UNCHANGED scanVars
  <2>1. UNCHANGED vars /\ UNCHANGED <<d, scan>>
    BY <1>1 DEF scanVars, vars
  <2>2. IterInv'
    BY <2>1, IterInvStep DEF ScanInv
  <2> QED
    BY <2>1, <2>2 DEF ScanInv
<1>2. CASE Others
  BY <1>2, OthersScan
<1>3. CASE ScanFirst
  BY <1>3, ScanFirstKeeps
<1>4. CASE ScanNext
  BY <1>4, ScanNextKeeps
<1> QED
  BY <1>1, <1>2, <1>3, <1>4 DEF WalkNext

(* Nothing that a scan owes is behind its cursor (dict.c:803-816, the      *)
(* comment's "already completely explored"), while iterators stay good.    *)
THEOREM ScanInvariant == WalkSpec => []ScanInv
BY ScanInitInv, ScanInvStep, PTL DEF WalkSpec

(* dict.c:778-780: a scan that ends has returned every entry that was      *)
(* there throughout, unless its cursor was folded (dict.c:904-909).        *)
THEOREM ScansReturnAll == WalkSpec => []ScanCompleteUnfolded
<1>1. ScanInv => ScanCompleteUnfolded
  BY DEF ScanInv, ScanOK, ScanCompleteUnfolded
<1> QED
  BY <1>1, ScanInvariant, PTL

(* What a scan may do to its cursor.                                       *)
LEMMA CallsAdvance == ScanInv => CallAdvances
<1> SUFFICES ASSUME ScanInv, scan.phase = "going"
             PROVE  LET next == Visit(scan.cursor, scan.missing, scan.folded)
                    IN next.phase = "over" \/ Rev(next.cursor) > Rev(scan.cursor)
  BY DEF CallAdvances
<1> DEFINE next == Visit(scan.cursor, scan.missing, scan.folded)
<1>1. Good(d) /\ SizesOK(d)
  BY DEF ScanInv, IterInv
<1>2. /\ scan.cursor \in Nat /\ scan.cursor < Pow2[Width]
      /\ scan.missing \subseteq DictKeys(d)
      /\ ~scan.folded => \A k \in scan.missing : Rev(Hash[k]) >= Rev(scan.cursor)
  BY DEF ScanInv, ScanOK
<1>3. next.phase = "going" => Rev(next.cursor) > Rev(scan.cursor)
  BY <1>1, <1>2, VisitKeeps
<1>4. next.phase \in {"going", "over"}
  BY DEF Visit, NoScan
<1> QED
  BY <1>3, <1>4

(* dict.c:911-920: every call ends its scan or takes the cursor ahead,     *)
(* seen from the highest bit, whatever the tables became; other callers    *)
(* leave it where it is.  So no scan goes round for ever: it ends after at *)
(* most as many calls as a cursor has values.                              *)
THEOREM ScansAdvance == WalkSpec => ScanAdvances
<1>1. ScanInv /\ [WalkNext]_scanVars /\ CallAdvances' => [Advances]_scanVars
  <2> SUFFICES ASSUME ScanInv, WalkNext, scan.phase = "going"
               PROVE  \/ ScanNext /\ (scan'.phase = "over" \/ Rev(scan'.cursor) > Rev(scan.cursor))
                      \/ Others /\ scan'.phase = "going" /\ scan'.cursor = scan.cursor
    BY DEF Advances
  <2>1. CASE Others
    BY <2>1, OthersScan
  <2>2. CASE ScanFirst
    BY <2>2 DEF ScanFirst
  <2>3. CASE ScanNext
    <3>1. scan'.phase = "going" => Rev(scan'.cursor) > Rev(scan.cursor)
      BY <2>3, ScanNextKeeps
    <3>2. scan'.phase \in {"going", "over"}
      BY <2>3 DEF ScanNext, Visit, NoScan
    <3> QED
      BY <2>3, <3>1, <3>2
  <2> QED
    BY <2>1, <2>2, <2>3 DEF WalkNext
<1> QED
  BY <1>1, CallsAdvance, ScanInitInv, ScanInvStep, PTL DEF WalkSpec, ScanAdvances

(* Scans disturb no iterator: with them, too, an iteration is complete,    *)
(* meets no entry twice and follows no freed one.                          *)
THEOREM WalksAreIterations == WalkSpec => Spec
<1>1. ScanInit => Init
  BY DEF ScanInit
<1>2. [WalkNext]_scanVars => [Next]_vars
  BY DEF WalkNext, Others, ScanFirst, ScanNext, scanVars, vars
<1> QED
  BY <1>1, <1>2, PTL DEF WalkSpec, Spec

(* The promises of an iteration, among scans.                              *)
THEOREM WalksMeetEachOnce == WalkSpec => EachOnce /\ []NoFreedEntry
BY WalksAreIterations, IterationsMeetEachOnce, NoIteratorFollowsFreed
=============================================================================
