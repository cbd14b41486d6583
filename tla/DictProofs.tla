----------------------------- MODULE DictProofs -----------------------------
(***************************************************************************)
(* Dict keeps its invariants, implements KeyValue, moves nothing under an  *)
(* iterator and ends its rehashes in time, for every set of keys, hash     *)
(* function, table sizes and values the assumptions allow.                 *)
(***************************************************************************)
EXTENDS Dict, DictOpsProofs

(* The inductive invariant: the dict is well-formed and an entry carries a *)
(* value exactly while it is in one of the two tables.                     *)
DictInv ==
  /\ TypeOK
  /\ Good(d)
  /\ \A k \in Keys : k \in DictKeys(d) <=> val[k] \in Vals

LEMMA MapIsVal == DictInv => Map = val
BY ValAssumption DEF DictInv, Map, TypeOK

LEMMA KeysTyped == DictInv => DictKeys(d) \subseteq Keys
BY EntriesFinite DEF DictInv, Good, DictKeys, DictOK

LEMMA InitInv == Init => DictInv /\ KV!Init
<1> SUFFICES ASSUME Init PROVE DictInv /\ KV!Init
  OBVIOUS
<1>1. Good(d) /\ DictKeys(d) = {}
  BY NewDictGood DEF Init
<1>2. TypeOK
  BY <1>1, ValAssumption DEF Init, TypeOK, Good, Answer
<1>3. DictInv
  BY <1>1, <1>2, ValAssumption DEF DictInv, Init
<1>4. KV!Init
  BY <1>3, MapIsVal DEF Init, KV!Init, KV!Answer, Answer
<1> QED
  BY <1>3, <1>4

-----------------------------------------------------------------------------
(* Each operation keeps the invariant and answers as the map would. *)

LEMMA KeepInv ==
  ASSUME DictInv, Good(d'), DictKeys(d') \subseteq Keys,
         val' \in [Keys -> Vals \cup {NoVal}],
         \A k \in Keys : k \in DictKeys(d') <=> val'[k] \in Vals,
         can_resize' \in BOOLEAN, open' \in 0 .. MaxOpen,
         DOMAIN last' = {"op", "key", "res"}
  PROVE  DictInv' /\ Map = val /\ Map' = val'
<1>1. TypeOK'
  BY DEF TypeOK, Good
<1>2. DictInv'
  BY <1>1 DEF DictInv
<1>3. Map' = val'
  BY <1>2, ValAssumption DEF DictInv, Map, TypeOK
<1> QED
  BY <1>2, <1>3, MapIsVal

LEMMA AnswerShape == \A op, k, r : DOMAIN Answer(op, k, r) = {"op", "key", "res"}
BY DEF Answer

LEMMA PresentMeansKey ==
  ASSUME DictInv, NEW k \in Keys
  PROVE  k \in DictKeys(d) <=> val[k] # NoVal
BY ValAssumption DEF DictInv, TypeOK

LEMMA AddStep ==
  ASSUME DictInv, NEW k \in Keys, NEW v \in Vals, Add(k, v)
  PROVE  DictInv' /\ KV!Add(k, v)
<1> DEFINE new == ~NoIndex(d, k, can_resize)
<1>1. Good(d') /\ DictKeys(d') = DictKeys(d) \cup {k}
  BY AddRawGood DEF Add, DictInv
<1>2. (new <=> k \notin DictKeys(d)) /\ new \in BOOLEAN
  BY NoIndexMeansKey DEF DictInv
<1>3. new <=> val[k] = NoVal
  BY <1>2, PresentMeansKey
<1>4. /\ val' = IF new THEN [val EXCEPT ![k] = v] ELSE val
      /\ last' = Answer("add", k, new)
      /\ UNCHANGED <<can_resize, open>>
  BY DEF Add
<1> HIDE DEF new
<1>5. DictInv' /\ Map = val /\ Map' = val'
  BY <1>1, <1>2, <1>4, KeepInv, AnswerShape, KeysTyped DEF DictInv, TypeOK
<1>6. (~KV!Present(k)) = new
  BY <1>2, <1>3, <1>5 DEF KV!Present
<1>7. KV!Add(k, v)
  BY <1>4, <1>5, <1>6 DEF KV!Add, KV!Answer, Answer
<1> QED
  BY <1>5, <1>7

LEMMA ReplaceStep ==
  ASSUME DictInv, NEW k \in Keys, NEW v \in Vals, Replace(k, v)
  PROVE  DictInv' /\ KV!Replace(k, v)
<1> DEFINE new == ~NoIndex(d, k, can_resize)
           add == AddRaw(d, k, can_resize)
<1>1. Good(add) /\ DictKeys(add) = DictKeys(d) \cup {k}
  BY AddRawGood DEF DictInv
<1>2. (new <=> k \notin DictKeys(d)) /\ new \in BOOLEAN
  BY NoIndexMeansKey DEF DictInv
<1>3. new <=> val[k] = NoVal
  BY <1>2, PresentMeansKey
<1>4. /\ d' = IF new THEN add ELSE Looked(add)
      /\ val' = [val EXCEPT ![k] = v]
      /\ last' = Answer("replace", k, new)
      /\ UNCHANGED <<can_resize, open>>
  BY <1>1, <1>2, LookedGood DEF Replace
<1> HIDE DEF new, add
<1>5. Good(d') /\ DictKeys(d') = DictKeys(d) \cup {k}
  BY <1>1, <1>4, LookedGood
<1>6. DictInv' /\ Map = val /\ Map' = val'
  BY <1>4, <1>5, KeepInv, AnswerShape, KeysTyped DEF DictInv, TypeOK
<1>7. (~KV!Present(k)) = new
  BY <1>2, <1>3, <1>6 DEF KV!Present
<1>8. KV!Replace(k, v)
  BY <1>4, <1>6, <1>7 DEF KV!Replace, KV!Answer, Answer
<1> QED
  BY <1>6, <1>8

LEMMA ReplaceRawStep ==
  ASSUME DictInv, NEW k \in Keys, NEW v \in Vals, ReplaceRaw(k, v)
  PROVE  DictInv' /\ KV!ReplaceRaw(k, v)
<1> DEFINE hit == Found(d, k)
<1>1. Good(Looked(d)) /\ DictKeys(Looked(d)) = DictKeys(d)
  BY LookedGood DEF DictInv
<1>2. (hit <=> k \in DictKeys(d)) /\ (hit <=> val[k] # NoVal)
  BY LookedGood, PresentMeansKey DEF DictInv
<1>3. /\ Good(AddRaw(Looked(d), k, can_resize))
      /\ DictKeys(AddRaw(Looked(d), k, can_resize)) = DictKeys(d) \cup {k}
  BY <1>1, AddRawGood
<1>4. /\ d' = IF hit THEN Looked(d) ELSE AddRaw(Looked(d), k, can_resize)
      /\ val' = IF hit THEN val ELSE [val EXCEPT ![k] = v]
      /\ last' = Answer("raw", k, val'[k])
      /\ UNCHANGED <<can_resize, open>>
  BY <1>1, <1>2, NoIndexMeansKey DEF ReplaceRaw
<1> HIDE DEF hit
<1>5. Good(d') /\ DictKeys(d') = DictKeys(d) \cup {k}
  BY <1>1, <1>2, <1>3, <1>4
<1>6. DictInv' /\ Map = val /\ Map' = val'
  BY <1>2, <1>4, <1>5, KeepInv, AnswerShape, KeysTyped DEF DictInv, TypeOK
<1>7. KV!ReplaceRaw(k, v)
  BY <1>2, <1>4, <1>6 DEF KV!ReplaceRaw, KV!Present, KV!Answer, Answer
<1> QED
  BY <1>6, <1>7

LEMMA DeleteStep ==
  ASSUME DictInv, NEW k \in Keys, Delete(k)
  PROVE  DictInv' /\ KV!Delete(k)
<1> DEFINE hit == Removes(d, k)
<1>1. Good(d') /\ DictKeys(d') = DictKeys(d) \ {k}
  BY RemoveGood DEF DictInv, Delete
<1>2. (hit <=> k \in DictKeys(d)) /\ (hit <=> val[k] # NoVal) /\ hit \in BOOLEAN
  BY RemoveGood, PresentMeansKey DEF DictInv, Removes
<1>3. /\ val' = IF hit THEN [val EXCEPT ![k] = NoVal] ELSE val
      /\ last' = Answer("delete", k, hit)
      /\ UNCHANGED <<can_resize, open>>
  BY DEF Delete
<1> HIDE DEF hit
<1>4. val' = [val EXCEPT ![k] = NoVal]
  BY <1>2, <1>3 DEF DictInv, TypeOK
<1>5. DictInv' /\ Map = val /\ Map' = val'
  BY <1>1, <1>3, <1>4, KeepInv, AnswerShape, KeysTyped, ValAssumption DEF DictInv, TypeOK
<1>6. KV!Present(k) = hit
  BY <1>2, <1>5 DEF KV!Present
<1>7. KV!Delete(k)
  BY <1>3, <1>4, <1>5, <1>6 DEF KV!Delete, KV!Answer, Answer
<1> QED
  BY <1>5, <1>7

LEMMA FindStep ==
  ASSUME DictInv, NEW k \in Keys, Find(k)
  PROVE  DictInv' /\ KV!Find(k)
<1>1. Good(d') /\ DictKeys(d') = DictKeys(d)
  BY LookedGood DEF DictInv, Find
<1>2. Found(d, k) <=> val[k] # NoVal
  BY LookedGood, PresentMeansKey DEF DictInv
<1>3. last' = Answer("find", k, val[k]) /\ UNCHANGED <<val, can_resize, open>>
  BY <1>2 DEF Find
<1>4. DictInv' /\ Map = val /\ Map' = val'
  BY <1>1, <1>3, KeepInv, AnswerShape, KeysTyped DEF DictInv, TypeOK
<1> QED
  BY <1>3, <1>4 DEF KV!Find, KV!Answer, Answer

LEMMA RandomKeyStep ==
  ASSUME DictInv, RandomKey
  PROVE  DictInv' /\ KV!RandomKey
<1>1. Good(d') /\ DictKeys(d') = DictKeys(d)
  BY LookedGood DEF DictInv, RandomKey
<1>2. Sampled(d') = DictKeys(d)
  BY <1>1, SampledIsAll
<1>3. \/ DictKeys(d) = {} /\ last' = Answer("random", NoVal, NoVal)
      \/ \E k \in DictKeys(d) : last' = Answer("random", k, val[k])
  BY <1>2, UsedZeroMeansEmpty DEF DictInv, RandomKey
<1>4. UNCHANGED <<val, can_resize, open>>
  BY DEF RandomKey
<1>5. DictInv' /\ Map = val /\ Map' = val'
  BY <1>1, <1>3, <1>4, KeepInv, AnswerShape, KeysTyped DEF DictInv, TypeOK
<1>6. CASE DictKeys(d) = {} /\ last' = Answer("random", NoVal, NoVal)
  BY <1>4, <1>5, <1>6, PresentMeansKey DEF KV!RandomKey, KV!Present, KV!Answer, Answer
<1>7. ASSUME NEW k \in DictKeys(d), last' = Answer("random", k, val[k])
      PROVE  KV!RandomKey
  BY <1>4, <1>5, <1>7, PresentMeansKey, KeysTyped
  DEF KV!RandomKey, KV!Present, KV!Answer, Answer
<1> QED
  BY <1>3, <1>5, <1>6, <1>7

LEMMA EmptyStep ==
  ASSUME DictInv, Empty
  PROVE  DictInv' /\ KV!Empty
<1>1. Good(d') /\ DictKeys(d') = {}
  BY NewDictGood DEF Empty
<1>2. /\ val' = [k \in Keys |-> NoVal] /\ last' = Answer("empty", NoVal, NoVal)
      /\ UNCHANGED <<can_resize, open>>
  BY DEF Empty
<1>3. DictInv' /\ Map = val /\ Map' = val'
  BY <1>1, <1>2, KeepInv, AnswerShape, ValAssumption DEF DictInv, TypeOK
<1> QED
  BY <1>2, <1>3 DEF KV!Empty, KV!Answer, Answer

(* Resizes, explicit rehash calls and iterators change no key: the map     *)
(* stutters.                                                               *)
LEMMA HousekeepingStep ==
  ASSUME DictInv, Housekeeping
  PROVE  DictInv' /\ UNCHANGED KV!vars
<1>1. UNCHANGED <<val, last>> /\ can_resize' \in BOOLEAN /\ open' \in 0 .. MaxOpen
  BY ValAssumption
  DEF Housekeeping, ExpandTo, Resize, RehashCall, SetResize, IterBegin, IterEnd,
      DictInv, TypeOK
<1>2. Good(d') /\ DictKeys(d') = DictKeys(d)
  <2>1. ASSUME NEW size \in 1 .. MaxRequest, ExpandTo(size)
        PROVE  Good(d') /\ DictKeys(d') = DictKeys(d)
    BY <2>1, ExpandGood, DictAssumption DEF ExpandTo, DictInv
  <2>2. CASE Resize
    <3>1. /\ d.ht0.used \in Nat /\ d.ht0.used <= Cardinality(Keys)
          /\ Cardinality(Keys) \in Nat
      BY EntriesFinite, DictAssumption, FS_CardinalityType
      DEF DictInv, Good, GoodTable, Counted, TableOK
    <3>2. ResizeRequest(d) \in Nat /\ ResizeRequest(d) <= MaxRequest
      BY <3>1, DictAssumption DEF ResizeRequest
    <3> QED
      BY <2>2, <3>2, ExpandGood DEF Resize, DictInv
  <2>3. ASSUME NEW n \in Batches, RehashCall(n)
        PROVE  Good(d') /\ DictKeys(d') = DictKeys(d)
    BY <2>3, RehashGood DEF RehashCall, DictInv
  <2>4. ASSUME NEW b \in BOOLEAN, SetResize(b)
        PROVE  Good(d') /\ DictKeys(d') = DictKeys(d)
    BY <2>4 DEF SetResize, DictInv
  <2>5. ASSUME NEW i \in Int, d' = [d EXCEPT !.iterators = i]
        PROVE  Good(d') /\ DictKeys(d') = DictKeys(d)
    <3>1. d' = [ht0 |-> d.ht0, ht1 |-> d.ht1, rehashidx |-> d.rehashidx, iterators |-> i]
      BY <2>5 DEF DictInv, Good, DictOK
    <3> QED
      BY <3>1 DEF DictInv, Good, DictOK, IsRehashing, Front, DictKeys
  <2>6. CASE IterBegin
    BY <2>5, <2>6 DEF IterBegin, DictInv, Good, DictOK
  <2>7. CASE IterEnd
    BY <2>5, <2>7 DEF IterEnd, DictInv, Good, DictOK
  <2> QED
    BY <2>1, <2>2, <2>3, <2>4, <2>6, <2>7 DEF Housekeeping
<1>3. DictInv' /\ Map = val /\ Map' = val'
  BY <1>1, <1>2, KeepInv, KeysTyped DEF DictInv, TypeOK
<1> QED
  BY <1>1, <1>3 DEF KV!vars

LEMMA NextStep == DictInv /\ [Next]_vars => DictInv' /\ [KV!Next]_(KV!vars)
<1> SUFFICES ASSUME DictInv, [Next]_vars
             PROVE  DictInv' /\ [KV!Next]_(KV!vars)
  OBVIOUS
<1>1. ASSUME NEW k \in Keys, NEW v \in Vals, Add(k, v)
      PROVE  DictInv' /\ KV!Next
  BY <1>1, AddStep DEF KV!Next
<1>2. ASSUME NEW k \in Keys, NEW v \in Vals, Replace(k, v)
      PROVE  DictInv' /\ KV!Next
  BY <1>2, ReplaceStep DEF KV!Next
<1>3. ASSUME NEW k \in Keys, NEW v \in Vals, ReplaceRaw(k, v)
      PROVE  DictInv' /\ KV!Next
  BY <1>3, ReplaceRawStep DEF KV!Next
<1>4. ASSUME NEW k \in Keys, Delete(k)
      PROVE  DictInv' /\ KV!Next
  BY <1>4, DeleteStep DEF KV!Next
<1>5. ASSUME NEW k \in Keys, Find(k)
      PROVE  DictInv' /\ KV!Next
  BY <1>5, FindStep DEF KV!Next
<1>6. CASE RandomKey
  BY <1>6, RandomKeyStep DEF KV!Next
<1>7. CASE Empty
  BY <1>7, EmptyStep DEF KV!Next
<1>8. CASE Housekeeping
  BY <1>8, HousekeepingStep
<1>9. CASE UNCHANGED vars
  <2>1. Good(d') /\ DictKeys(d') = DictKeys(d)
    BY <1>9 DEF vars, DictInv
  <2>2. DictInv' /\ Map = val /\ Map' = val'
    BY <1>9, <2>1, KeepInv, KeysTyped DEF vars, DictInv, TypeOK
  <2> QED
    BY <1>9, <2>2 DEF vars, KV!vars
<1> QED
  BY <1>1, <1>2, <1>3, <1>4, <1>5, <1>6, <1>7, <1>8, <1>9 DEF Next, GrowNext, StoreOp

-----------------------------------------------------------------------------
(* The invariant of dict.c holds in every reachable state.                 *)
THEOREM DictInvariant == Spec => []DictInv
<1>1. DictInv /\ [Next]_vars => DictInv'
  BY NextStep
<1> QED
  BY <1>1, InitInv, PTL DEF Spec

(* dict, dictht and the answers keep their types (dict.h:54-79).           *)
THEOREM TypeCorrect == Spec => []TypeOK
<1>1. DictInv => TypeOK
  BY DEF DictInv
<1> QED
  BY <1>1, DictInvariant, PTL

(* Every entry is found in the one bucket its hash selects, in one table   *)
(* only (dict.c:499-510, 971-988); the used counters equal the number of   *)
(* entries (dict.c:249-285); the buckets a rehash has passed stay empty    *)
(* (dict.c:252-254).                                                       *)
THEOREM TablesAlwaysSound == Spec => []TablesSound
<1>1. DictInv => Reachable
  BY DEF DictInv, Reachable, Good, GoodTable
<1>2. DictInv => CountersExact
  BY DEF DictInv, CountersExact, Good, GoodTable
<1>3. DictInv => RehashFront
  BY DEF DictInv, RehashFront, Good
<1>4. DictInv => TablesSound
  BY <1>1, <1>2, <1>3 DEF TablesSound
<1> QED
  BY <1>4, DictInvariant, PTL

(* dictGetRandomKey can return every entry and always finds one            *)
(* (dict.c:633-649).                                                       *)
THEOREM SamplingAlwaysComplete == Spec => []SamplingComplete
<1>1. DictInv => SamplingComplete
  BY SampledIsAll DEF DictInv, SamplingComplete
<1> QED
  BY <1>1, DictInvariant, PTL

(* dict.c implements the map KeyValue.                                     *)
THEOREM DictImplementsMap == Spec => IsMap
<1>1. Init => KV!Init
  BY InitInv
<1>2. DictInv /\ [Next]_vars => [KV!Next]_(KV!vars)
  BY NextStep
<1> QED
  BY <1>1, <1>2, DictInvariant, PTL DEF Spec, IsMap, KV!Spec

-----------------------------------------------------------------------------
(***************************************************************************)
(* Iterators.  A running safe iterator keeps every entry in its table,     *)
(* provided nobody empties the dict under it.  The invariant needed beside *)
(* DictInv is that the code's counter counts the open iterators.           *)
(***************************************************************************)
(* Whatever of dict a is still in dict b is in the table it was in.        *)
Stays(a, b) ==
  /\ Entries(a.ht0) \cap DictKeys(b) \subseteq Entries(b.ht0)
  /\ Entries(a.ht1) \cap DictKeys(b) \subseteq Entries(b.ht1)

IterInv == DictInv /\ (EmptyMidIteration \/ open = d.iterators)

-----------------------------------------------------------------------------
(* What the operators do to the two tables while no rehash step is taken.  *)

LEMMA ExpandStays ==
  ASSUME NEW a, Good(a), NEW size
  PROVE  /\ Entries(Expand(a, size).ht0) = Entries(a.ht0) \/ Entries(a.ht0) = {}
         /\ Entries(a.ht1) \subseteq Entries(Expand(a, size).ht1)
<1> DEFINE n == NextPower(size)
<1>1. a = [ht0 |-> a.ht0, ht1 |-> a.ht1,
           rehashidx |-> a.rehashidx, iterators |-> a.iterators]
  BY DEF Good, DictOK
<1> HIDE DEF n
<1>2. CASE ~CanExpand(a, size)
  BY <1>2 DEF Expand
<1>3. CASE CanExpand(a, size) /\ a.ht0.size = 0
  <2>1. Expand(a, size) = [ht0 |-> NewTable(n), ht1 |-> a.ht1,
                           rehashidx |-> a.rehashidx, iterators |-> a.iterators]
    BY <1>1, <1>3 DEF Expand, n
  <2>2. Entries(a.ht0) = {}
    BY <1>3 DEF Entries
  <2> QED
    BY <2>1, <2>2
<1>4. CASE CanExpand(a, size) /\ a.ht0.size # 0
  <2>1. Expand(a, size).ht0 = a.ht0
    BY <1>1, <1>4 DEF Expand
  <2>2. Entries(a.ht1) = {}
    BY <1>4, NoTableGood DEF Good, CanExpand
  <2> QED
    BY <2>1, <2>2
<1> QED
  BY <1>2, <1>3, <1>4

LEMMA PrepareStays ==
  ASSUME NEW a, Good(a), a.iterators # 0, NEW c
  PROVE  /\ Entries(Prepare(a, c).ht0) = Entries(a.ht0) \/ Entries(a.ht0) = {}
         /\ Entries(a.ht1) \subseteq Entries(Prepare(a, c).ht1)
BY FrozenLooked, ExpandStays DEF Prepare, ExpandIfNeeded

LEMMA AddRawStays ==
  ASSUME NEW a, Good(a), a.iterators # 0, NEW c, NEW k \in Keys
  PROVE  Stays(a, AddRaw(a, k, c))
<1> DEFINE p == Prepare(a, c)
<1>1. /\ Good(p) /\ DictKeys(p) = DictKeys(a) /\ p.ht0.size > 0
      /\ Entries(p.ht0) = Entries(a.ht0) \/ Entries(a.ht0) = {}
      /\ Entries(a.ht1) \subseteq Entries(p.ht1)
  BY PrepareGood, PrepareStays
<1>2. CASE NoIndex(a, k, c)
  BY <1>1, <1>2 DEF AddRaw, Stays
<1>3. CASE ~NoIndex(a, k, c)
  <2>1. AddRaw(a, k, c) = IF IsRehashing(p) THEN [p EXCEPT !.ht1 = Insert(@, k)]
                          ELSE [p EXCEPT !.ht0 = Insert(@, k)]
    BY <1>3 DEF AddRaw
  <2>2. k \notin DictKeys(p)
    BY <1>1, <1>3, NoIndexMeansKey
  <2> HIDE DEF p
  <2>3. CASE IsRehashing(p)
    <3>1. /\ AddRaw(a, k, c).ht0 = p.ht0
          /\ AddRaw(a, k, c).ht1 = Insert(p.ht1, k)
      BY <1>1, <2>1, <2>3 DEF Good, DictOK
    <3>2. Entries(Insert(p.ht1, k)) = Entries(p.ht1) \cup {k}
      BY <1>1, <2>2, <2>3, InsertGood DEF Good, Front, DictKeys
    <3> QED
      BY <1>1, <3>1, <3>2 DEF Stays
  <2>4. CASE ~IsRehashing(p)
    <3>1. /\ AddRaw(a, k, c).ht0 = Insert(p.ht0, k)
          /\ AddRaw(a, k, c).ht1 = p.ht1
      BY <1>1, <2>1, <2>4 DEF Good, DictOK
    <3>2. Entries(Insert(p.ht0, k)) = Entries(p.ht0) \cup {k}
      BY <1>1, <2>2, InsertGood DEF Good, DictKeys
    <3> QED
      BY <1>1, <3>1, <3>2 DEF Stays
  <2> QED
    BY <2>3, <2>4
<1> QED
  BY <1>2, <1>3

LEMMA RemoveStays ==
  ASSUME NEW a, Good(a), a.iterators # 0, NEW k \in Keys
  PROVE  Stays(a, Remove(a, k))
<1>1. DictKeys(Remove(a, k)) = DictKeys(a) \ {k}
  BY RemoveGood
<1>2. Remove(a, k) = IF a.ht0.size = 0 THEN a
        ELSE IF InChain(a.ht0, k) THEN [a EXCEPT !.ht0 = Unlink(@, k)]
        ELSE IF IsRehashing(a) /\ InChain(a.ht1, k) THEN [a EXCEPT !.ht1 = Unlink(@, k)]
        ELSE a
  BY FrozenLooked DEF Remove
<1>3. /\ InChain(a.ht0, k) <=> k \in Entries(a.ht0)
      /\ InChain(a.ht1, k) <=> k \in Entries(a.ht1)
  BY ChainLookup DEF Good, GoodTable
<1>4. CASE Remove(a, k) = a
  BY <1>4 DEF Stays
<1>5. CASE Remove(a, k) = [a EXCEPT !.ht0 = Unlink(@, k)] /\ k \in Entries(a.ht0)
  <2>1. Remove(a, k).ht0 = Unlink(a.ht0, k) /\ Remove(a, k).ht1 = a.ht1
    BY <1>5 DEF Good, DictOK
  <2>2. Entries(Unlink(a.ht0, k)) = Entries(a.ht0) \ {k}
    BY <1>5, UnlinkGood DEF Good
  <2> QED
    BY <1>1, <2>1, <2>2 DEF Stays
<1>6. CASE Remove(a, k) = [a EXCEPT !.ht1 = Unlink(@, k)] /\ k \in Entries(a.ht1)
  <2>1. Remove(a, k).ht1 = Unlink(a.ht1, k) /\ Remove(a, k).ht0 = a.ht0
    BY <1>6 DEF Good, DictOK
  <2>2. Entries(Unlink(a.ht1, k)) = Entries(a.ht1) \ {k}
    BY <1>6, UnlinkGood DEF Good
  <2> QED
    BY <1>1, <2>1, <2>2 DEF Stays
<1> QED
  BY <1>2, <1>3, <1>4, <1>5, <1>6

-----------------------------------------------------------------------------
(* The steps of Dict. *)

LEMMA InitIterInv == Init => IterInv
BY InitInv, NewDictGood DEF Init, IterInv

(* The operations on keys leave both counts alone, dictEmpty resets the    *)
(* code's, an iterator changes both.                                       *)
LEMMA CountersAgree ==
  ASSUME DictInv, ~EmptyMidIteration, open = d.iterators, Next
  PROVE  open' = d'.iterators
<1>1. ASSUME NEW k \in Keys, NEW v \in Vals, Add(k, v)
      PROVE  open' = d'.iterators
  BY <1>1, AddRawGood DEF Add, DictInv
<1>2. ASSUME NEW k \in Keys, NEW v \in Vals, Replace(k, v)
      PROVE  open' = d'.iterators
  BY <1>2, AddRawGood, LookedGood DEF Replace, DictInv
<1>3. ASSUME NEW k \in Keys, NEW v \in Vals, ReplaceRaw(k, v)
      PROVE  open' = d'.iterators
  BY <1>3, AddRawGood, LookedGood DEF ReplaceRaw, DictInv
<1>4. ASSUME NEW k \in Keys, Delete(k)
      PROVE  open' = d'.iterators
  BY <1>4, RemoveGood DEF Delete, DictInv
<1>5. ASSUME NEW k \in Keys, Find(k)
      PROVE  open' = d'.iterators
  BY <1>5, LookedGood DEF Find, DictInv
<1>6. CASE RandomKey
  BY <1>6, LookedGood DEF RandomKey, DictInv
<1>7. CASE Empty
  BY <1>7, NewDictGood DEF Empty
<1>8. CASE Housekeeping
  <2>1. ASSUME NEW size \in 1 .. MaxRequest, ExpandTo(size)
        PROVE  open' = d'.iterators
    BY <2>1, ExpandIterators DEF ExpandTo, DictInv
  <2>2. CASE Resize
    BY <2>2, ExpandIterators DEF Resize, DictInv
  <2>3. ASSUME NEW n \in Batches, RehashCall(n)
        PROVE  open' = d'.iterators
    BY <2>3, RehashGood DEF RehashCall, DictInv
  <2>4. ASSUME NEW b \in BOOLEAN, SetResize(b)
        PROVE  open' = d'.iterators
    BY <2>4 DEF SetResize
  <2>5. CASE IterBegin
    BY <2>5 DEF IterBegin, DictInv, Good, DictOK
  <2>6. CASE IterEnd
    BY <2>6 DEF IterEnd, DictInv, Good, DictOK
  <2> QED
    BY <1>8, <2>1, <2>2, <2>3, <2>4, <2>5, <2>6 DEF Housekeeping
<1> QED
  BY <1>1, <1>2, <1>3, <1>4, <1>5, <1>6, <1>7, <1>8 DEF Next, GrowNext, StoreOp

LEMMA IterInvStep == IterInv /\ [Next]_vars => IterInv'
<1> SUFFICES ASSUME IterInv, [Next]_vars PROVE IterInv'
  OBVIOUS
<1>1. DictInv'
  BY NextStep DEF IterInv
<1>2. CASE Next
  BY <1>1, <1>2, CountersAgree DEF IterInv
<1>3. CASE UNCHANGED vars
  BY <1>1, <1>3 DEF IterInv, vars
<1> QED
  BY <1>2, <1>3

(* One step under an open iterator.                                        *)
LEMMA StepStays ==
  ASSUME DictInv, ~EmptyMidIteration, open = d.iterators, open > 0, Next,
         ~(\E n \in Batches : RehashCall(n))
  PROVE  Stays(d, d')
<1>1. Good(d) /\ d.iterators # 0
  BY DEF DictInv
<1>2. ASSUME NEW k \in Keys, NEW v \in Vals, Add(k, v)
      PROVE  Stays(d, d')
  BY <1>1, <1>2, AddRawStays DEF Add
<1>3. ASSUME NEW k \in Keys, NEW v \in Vals, Replace(k, v)
      PROVE  Stays(d, d')
  <2>1. Looked(AddRaw(d, k, can_resize)) = AddRaw(d, k, can_resize)
    BY <1>1, AddRawGood, FrozenLooked
  <2> QED
    BY <1>1, <1>3, <2>1, AddRawStays DEF Replace
<1>4. ASSUME NEW k \in Keys, NEW v \in Vals, ReplaceRaw(k, v)
      PROVE  Stays(d, d')
  <2>1. d' = d \/ d' = AddRaw(d, k, can_resize)
    BY <1>1, <1>4, FrozenLooked DEF ReplaceRaw
  <2> QED
    BY <1>1, <2>1, AddRawStays DEF Stays
<1>5. ASSUME NEW k \in Keys, Delete(k)
      PROVE  Stays(d, d')
  BY <1>1, <1>5, RemoveStays DEF Delete
<1>6. ASSUME d' = d PROVE Stays(d, d')
  BY <1>6 DEF Stays
<1>7. ASSUME NEW k \in Keys, Find(k)
      PROVE  Stays(d, d')
  BY <1>1, <1>6, <1>7, FrozenLooked DEF Find
<1>8. CASE RandomKey
  BY <1>1, <1>6, <1>8, FrozenLooked DEF RandomKey
<1>9. ~Empty
  BY DictAssumption DEF Empty, DictInv, TypeOK
<1>10. CASE Housekeeping
  <2>1. ASSUME NEW size, d' = Expand(d, size)
        PROVE  Stays(d, d')
    BY <1>1, <2>1, ExpandStays DEF Stays
  <2>2. ASSUME NEW i, d' = [d EXCEPT !.iterators = i]
        PROVE  Stays(d, d')
    <3>1. d'.ht0 = d.ht0 /\ d'.ht1 = d.ht1
      BY <1>1, <2>2 DEF Good, DictOK
    <3> QED
      BY <3>1 DEF Stays
  <2> QED
    BY <1>6, <1>10, <2>1, <2>2
    DEF Housekeeping, ExpandTo, Resize, SetResize, IterBegin, IterEnd
<1> QED
  BY <1>2, <1>3, <1>4, <1>5, <1>7, <1>8, <1>9, <1>10 DEF Next, GrowNext, StoreOp

-----------------------------------------------------------------------------
(* dict.c:309-316: while a safe iterator runs, no entry changes its table, *)
(* if no caller empties the dict or rehashes it explicitly meanwhile.      *)
THEOREM IteratorsFreeze ==
  ASSUME ~EmptyMidIteration
  PROVE  Spec => NoMoveWhileIterating
<1> DEFINE Stay == open > 0 /\ ~(\E n \in Batches : RehashCall(n)) =>
                     /\ Entries(d.ht0) \cap DictKeys(d)' \subseteq Entries(d'.ht0)
                     /\ Entries(d.ht1) \cap DictKeys(d)' \subseteq Entries(d'.ht1)
<1>1. IterInv /\ [Next]_vars => [Stay]_vars
  <2> SUFFICES ASSUME IterInv, Next, open > 0, ~(\E n \in Batches : RehashCall(n))
               PROVE  Stays(d, d')
    BY DEF Stays
  <2> QED
    BY StepStays DEF IterInv
<1> HIDE DEF Stay
<1>2. IterInv /\ [Next]_vars => IterInv'
  BY IterInvStep
<1>3. Spec => [][Stay]_vars
  BY <1>1, <1>2, InitIterInv, PTL DEF Spec
<1> QED
  BY <1>3 DEF NoMoveWhileIterating, Stay

-----------------------------------------------------------------------------
(***************************************************************************)
(* Load.  Every rehash step passes a bucket, and callers that grow the     *)
(* dict do not fill the new table before the old one is given up.          *)
(***************************************************************************)
(* What the operators do to the sizes of the tables and the front.         *)

LEMMA UsedIsCardinality ==
  ASSUME NEW a, Good(a)
  PROVE  Used(a) = Cardinality(DictKeys(a)) /\ Used(a) \in Nat
<1>1. /\ IsFiniteSet(Entries(a.ht0)) /\ IsFiniteSet(Entries(a.ht1))
      /\ Cardinality(Entries(a.ht0)) \in Nat /\ Cardinality(Entries(a.ht1)) \in Nat
      /\ a.ht0.used = Cardinality(Entries(a.ht0))
      /\ a.ht1.used = Cardinality(Entries(a.ht1))
  BY EntriesFinite DEF Good, GoodTable, Counted
<1>2. Cardinality(Entries(a.ht0) \cap Entries(a.ht1)) = 0
  BY FS_EmptySet DEF Good
<1> QED
  BY <1>1, <1>2, FS_Union DEF Used, DictKeys

LEMMA Shape ==
  ASSUME NEW a, Good(a)
  PROVE  /\ a = [ht0 |-> a.ht0, ht1 |-> a.ht1,
                 rehashidx |-> a.rehashidx, iterators |-> a.iterators]
         /\ a.ht0.size \in Nat /\ a.ht1.size \in Nat
         /\ a.ht0.used \in Nat /\ a.ht1.used \in Nat
         /\ IsRehashing(a) => a.rehashidx \in 0 .. a.ht0.size /\ a.ht0.size > 0
         /\ ~IsRehashing(a) => Used(a) = a.ht0.used
BY NoTableGood DEF Good, DictOK, TableOK, Front, Used, NoTable

(* Moving the front to p leaves the sizes alone, or gives the old table    *)
(* up: the latter when nothing is left in front of p.                      *)
LEMMA MoveShape ==
  ASSUME NEW a, Good(a), IsRehashing(a), NEW p \in a.rehashidx .. a.ht0.size
  PROVE  LET r == MoveTo(a, p)
         IN \/ ~IsRehashing(r) /\ r.ht0.size = a.ht1.size
            \/ /\ IsRehashing(r) /\ r.rehashidx = p /\ p < a.ht0.size
               /\ r.ht0.size = a.ht0.size /\ r.ht1.size = a.ht1.size
               /\ a.ht0.used # Cardinality(MovedKeys(a, p))
<1> DEFINE r == MoveTo(a, p)
           old == Drained(a.ht0, a, p)
           new == Filled(a.ht1, MovedKeys(a, p))
<1>1. /\ old.size = a.ht0.size /\ new.size = a.ht1.size
      /\ old.used = a.ht0.used - Cardinality(MovedKeys(a, p))
  BY DEF Drained, Filled
<1>2. r = IF old.used = 0
          THEN [a EXCEPT !.ht0 = new, !.ht1 = NoTable, !.rehashidx = -1]
          ELSE [a EXCEPT !.ht0 = old, !.ht1 = new, !.rehashidx = p]
  BY DEF MoveTo
<1>3. p = a.ht0.size => a.ht0.used = Cardinality(MovedKeys(a, p))
  <2>1. a.rehashidx \in 0 .. a.ht0.size /\ a.ht0.size \in Nat
    BY Shape
  <2>2. MovedKeys(a, a.ht0.size) = Entries(a.ht0)
    BY <2>1 DEF MovedKeys, Passed, Entries, Good, Front
  <2> QED
    BY <2>2 DEF Good, GoodTable, Counted
<1>4. p \in Int /\ p # -1 /\ p <= a.ht0.size
  BY Shape
<1> HIDE DEF r, new, old
<1>5. CASE old.used = 0
  <2>1. r = [ht0 |-> new, ht1 |-> NoTable, rehashidx |-> -1, iterators |-> a.iterators]
    BY <1>2, <1>5 DEF Good, DictOK
  <2> QED
    BY <1>1, <2>1 DEF IsRehashing, r
<1>6. CASE old.used # 0
  <2>1. r = [ht0 |-> old, ht1 |-> new, rehashidx |-> p, iterators |-> a.iterators]
    BY <1>2, <1>6 DEF Good, DictOK
  <2>2. a.ht0.used # Cardinality(MovedKeys(a, p))
    BY <1>1, <1>6, Shape
  <2>3. p < a.ht0.size
    BY <1>3, <1>4, <2>2, Shape
  <2> QED
    BY <1>1, <1>4, <2>1, <2>2, <2>3 DEF IsRehashing, r
<1> QED
  BY <1>5, <1>6

(* dict.c:249-285: one step on a rehashing dict passes at least a bucket.  *)
LEMMA StepAdvances ==
  ASSUME NEW a, Good(a), IsRehashing(a), a.iterators = 0
  PROVE  LET r == RehashStep(a)
         IN \/ ~IsRehashing(r) /\ r.ht0.size = a.ht1.size
            \/ /\ IsRehashing(r) /\ r.rehashidx > a.rehashidx
               /\ r.rehashidx < a.ht0.size
               /\ r.ht0.size = a.ht0.size /\ r.ht1.size = a.ht1.size
<1> DEFINE p == StopBucket(a, 1)
<1>1. p \in a.rehashidx .. a.ht0.size /\ StopsAt(a, 1, p)
  BY StopBucketRange
<1>2. RehashStep(a) = MoveTo(a, p)
  BY DEF RehashStep, Rehash
<1>3. a.rehashidx \in Int /\ a.ht0.size \in Nat
  BY Shape
<1>4. p = a.rehashidx => a.ht0.used = Cardinality(MovedKeys(a, p))
  <2> SUFFICES ASSUME p = a.rehashidx
               PROVE  a.ht0.used = Cardinality(MovedKeys(a, p))
    OBVIOUS
  <2>1. Passed(a, p) = {}
    BY <1>3 DEF Passed
  <2>2. /\ {i \in Passed(a, p) : a.ht0.table[i] # {}} = {}
        /\ {i \in Passed(a, p) : a.ht0.table[i] = {}} = {}
    BY <2>1
  <2>3. /\ Cardinality({i \in Passed(a, p) : a.ht0.table[i] # {}}) = 0
        /\ Cardinality({i \in Passed(a, p) : a.ht0.table[i] = {}}) = 0
    BY <2>2, FS_EmptySet
  <2>4. 1 * EmptyVisits # 0
    BY DictAssumption
  <2> HIDE DEF p
  <2> QED
    BY <1>1, <2>3, <2>4 DEF StopsAt
<1> HIDE DEF p
<1> QED
  BY <1>1, <1>2, <1>3, <1>4, MoveShape

(* dict.c:192-235: an expansion keeps the table entries are in.            *)
LEMMA ExpandShape ==
  ASSUME NEW a, Good(a), NEW c, WantsExpand(a, c)
  PROVE  LET r == ExpandIfNeeded(a, c)
         IN /\ a.ht0.size > 0 => /\ r.ht0.size = a.ht0.size
                                 /\ IsRehashing(r) /\ r.rehashidx = 0
                                 /\ r.ht1.size >= 2 * a.ht0.used
            /\ a.ht0.size = 0 => ~IsRehashing(r) /\ r.ht0.size > 0
<1> DEFINE size == ExpandRequest(a)
           n == NextPower(size)
<1>1. size \in Nat /\ size <= MaxRequest /\ CanExpand(a, size)
  BY WantedExpandSucceeds
<1>2. n \in Nat \ {0} /\ n >= size
  BY <1>1, NextPowerRange
<1>3. ~IsRehashing(a)
  BY DEF WantsExpand
<1>4. ExpandIfNeeded(a, c) = IF a.ht0.size = 0 THEN [a EXCEPT !.ht0 = NewTable(n)]
                             ELSE [a EXCEPT !.ht1 = NewTable(n), !.rehashidx = 0]
  BY <1>1 DEF ExpandIfNeeded, Expand
<1>5. NewTable(n).size = n
  BY DEF NewTable
<1>6. a.ht0.size > 0 => size = 2 * a.ht0.used
  BY Shape DEF ExpandRequest
<1> HIDE DEF n, size
<1> QED
  BY <1>2, <1>3, <1>4, <1>5, <1>6, Shape DEF IsRehashing

(* An insertion or a removal leaves the sizes and the front alone.         *)
LEMMA AddRawShape ==
  ASSUME NEW a, Good(a), NEW c, NEW k \in Keys
  PROVE  LET p == Prepare(a, c)
             r == AddRaw(a, k, c)
         IN /\ r.rehashidx = p.rehashidx
            /\ r.ht0.size = p.ht0.size /\ r.ht1.size = p.ht1.size
            /\ Used(r) = Used(p) \/ Used(r) = Used(p) + 1
            /\ ~IsRehashing(p) => r.ht0.used = Used(r)
<1> DEFINE p == Prepare(a, c)
           r == AddRaw(a, k, c)
<1>1. Good(p) /\ Good(r)
  BY PrepareGood, AddRawGood
<1>2. r = IF NoIndex(a, k, c) THEN p
          ELSE IF IsRehashing(p) THEN [p EXCEPT !.ht1 = Insert(@, k)]
          ELSE [p EXCEPT !.ht0 = Insert(@, k)]
  BY DEF AddRaw
<1>3. \A h : Insert(h, k).size = h.size /\ Insert(h, k).used = h.used + 1
  BY DEF Insert
<1> HIDE DEF p, r
<1>4. CASE r = p
  BY <1>1, <1>4, Shape DEF p, r
<1>5. CASE r = [p EXCEPT !.ht1 = Insert(@, k)] /\ IsRehashing(p)
  <2>1. /\ r.ht0 = p.ht0 /\ r.ht1 = Insert(p.ht1, k)
        /\ r.rehashidx = p.rehashidx
    BY <1>1, <1>5 DEF Good, DictOK
  <2> QED
    BY <1>1, <1>3, <1>5, <2>1, Shape DEF p, r, Used
<1>6. CASE r = [p EXCEPT !.ht0 = Insert(@, k)] /\ ~IsRehashing(p)
  <2>1. /\ r.ht0 = Insert(p.ht0, k) /\ r.ht1 = p.ht1
        /\ r.rehashidx = p.rehashidx
    BY <1>1, <1>6 DEF Good, DictOK
  <2>2. ~IsRehashing(r)
    BY <1>6, <2>1 DEF IsRehashing
  <2> QED
    BY <1>1, <1>3, <2>1, <2>2, Shape DEF p, r, Used
<1> QED
  BY <1>2, <1>4, <1>5, <1>6

LEMMA RemoveShape ==
  ASSUME NEW a, Good(a), a.ht0.size # 0, NEW k \in Keys
  PROVE  LET s == RehashStep(a)
             r == Remove(a, k)
         IN /\ r.rehashidx = s.rehashidx
            /\ r.ht0.size = s.ht0.size /\ r.ht1.size = s.ht1.size
            /\ Used(r) <= Used(s)
            /\ ~IsRehashing(s) => r.ht0.used = Used(r)
<1> DEFINE s == RehashStep(a)
           r == Remove(a, k)
<1>1. Good(s) /\ Good(r)
  BY RehashStepGood, RemoveGood
<1>2. \/ r = s
      \/ r = [s EXCEPT !.ht0 = Unlink(@, k)]
      \/ r = [s EXCEPT !.ht1 = Unlink(@, k)]
  BY DEF Remove
<1>3. \A h : Unlink(h, k).size = h.size /\ Unlink(h, k).used = h.used - 1
  BY DEF Unlink
<1> HIDE DEF s, r
<1>4. CASE r = s
  BY <1>1, <1>4, Shape DEF s, r, Used
<1>5. CASE r = [s EXCEPT !.ht0 = Unlink(@, k)]
  <2>1. r.ht0 = Unlink(s.ht0, k) /\ r.ht1 = s.ht1 /\ r.rehashidx = s.rehashidx
    BY <1>1, <1>5 DEF Good, DictOK
  <2> QED
    BY <1>1, <1>3, <2>1, Shape DEF s, r, Used, IsRehashing
<1>6. CASE r = [s EXCEPT !.ht1 = Unlink(@, k)]
  <2>1. r.ht0 = s.ht0 /\ r.ht1 = Unlink(s.ht1, k) /\ r.rehashidx = s.rehashidx
    BY <1>1, <1>6 DEF Good, DictOK
  <2> QED
    BY <1>1, <1>3, <2>1, Shape DEF s, r, Used, IsRehashing
<1> QED
  BY <1>2, <1>4, <1>5, <1>6

-----------------------------------------------------------------------------
(* Progress of the rehash.                                                 *)

Moves(a, b) == b.rehashidx > a.rehashidx \/ b.ht0.size = a.ht1.size

LEMMA LookedMoves ==
  ASSUME NEW a, Good(a), IsRehashing(a), a.iterators = 0, Used(a) > 0
  PROVE  Moves(a, Looked(a))
BY StepAdvances DEF Looked, Moves

LEMMA AddMoves ==
  ASSUME NEW a, Good(a), IsRehashing(a), a.iterators = 0, NEW c, NEW k \in Keys
  PROVE  Moves(a, AddRaw(a, k, c))
<1> DEFINE s == RehashStep(a)
           p == Prepare(a, c)
<1>1. Good(s) /\ p = ExpandIfNeeded(s, c)
  BY RehashStepGood DEF Prepare
<1>2. a.ht1.size > 0
  BY DEF Good, Front
<1>3. \/ ~IsRehashing(s) /\ s.ht0.size = a.ht1.size
      \/ IsRehashing(s) /\ s.rehashidx > a.rehashidx
  BY StepAdvances
<1> HIDE DEF s
<1>4. Moves(a, p)
  <2>1. CASE WantsExpand(s, c)
    BY <1>1, <1>2, <1>3, <2>1, ExpandShape DEF Moves, WantsExpand
  <2>2. CASE ~WantsExpand(s, c)
    BY <1>1, <1>3, <2>2 DEF Moves, ExpandIfNeeded
  <2> QED
    BY <2>1, <2>2
<1> HIDE DEF p
<1> QED
  BY <1>4, AddRawShape DEF Moves, p

LEMMA RemoveMoves ==
  ASSUME NEW a, Good(a), IsRehashing(a), a.iterators = 0, NEW k \in Keys
  PROVE  Moves(a, Remove(a, k))
<1>1. a.ht0.size # 0
  BY Shape
<1> QED
  BY <1>1, StepAdvances, RemoveShape DEF Moves

-----------------------------------------------------------------------------
(* The load: Load and Fits of Dict, of any dict a.  A rehash step makes    *)
(* room for the entry an addition then puts in.                            *)

LoadOf(a) ==
  IF IsRehashing(a)
  THEN a.rehashidx < a.ht0.size /\ Used(a) + a.ht0.size - a.rehashidx <= a.ht1.size + 1
  ELSE a.ht0.used <= a.ht0.size

FitsOf(a) == Used(a) <= IF IsRehashing(a) THEN a.ht1.size ELSE a.ht0.size

RoomOf(a) ==
  IF IsRehashing(a)
  THEN a.rehashidx < a.ht0.size /\ Used(a) + a.ht0.size - a.rehashidx <= a.ht1.size
  ELSE Used(a) <= a.ht0.size

LEMMA RoomLoads ==
  ASSUME NEW a, Good(a), RoomOf(a)
  PROVE  LoadOf(a) /\ FitsOf(a)
BY Shape, UsedIsCardinality DEF RoomOf, LoadOf, FitsOf

LEMMA StepMakesRoom ==
  ASSUME NEW a, Good(a), LoadOf(a), a.iterators = 0
  PROVE  RoomOf(RehashStep(a))
<1> DEFINE s == RehashStep(a)
<1>1. /\ Good(s) /\ Used(s) = Used(a) /\ Used(a) \in Nat
  BY RehashStepGood, UsedIsCardinality
<1>2. CASE ~IsRehashing(a)
  BY <1>2, Shape DEF RehashStep, Rehash, LoadOf, RoomOf
<1>3. CASE IsRehashing(a)
  <2>1. \/ ~IsRehashing(s) /\ s.ht0.size = a.ht1.size
        \/ /\ IsRehashing(s) /\ s.rehashidx > a.rehashidx /\ s.rehashidx < a.ht0.size
           /\ s.ht0.size = a.ht0.size /\ s.ht1.size = a.ht1.size
    BY <1>3, StepAdvances
  <2>2. /\ a.rehashidx < a.ht0.size
        /\ Used(a) + a.ht0.size - a.rehashidx <= a.ht1.size + 1
    BY <1>3 DEF LoadOf
  <2>3. a.rehashidx \in Int /\ a.ht0.size \in Nat /\ a.ht1.size \in Nat
    BY <1>3, Shape
  <2>4. IsRehashing(s) => s.rehashidx \in Int
    BY <1>1, Shape
  <2> HIDE DEF s
  <2>5. RoomOf(s)
    BY <1>1, <2>1, <2>2, <2>3, <2>4 DEF RoomOf
  <2> QED
    BY <2>5 DEF s
<1> QED
  BY <1>2, <1>3

LEMMA LookedLoads ==
  ASSUME NEW a, Good(a), LoadOf(a), a.iterators = 0
  PROVE  LoadOf(Looked(a)) /\ FitsOf(Looked(a))
<1>1. CASE Used(a) = 0
  BY <1>1, Shape DEF Looked, FitsOf
<1>2. CASE Used(a) # 0
  BY <1>2, StepMakesRoom, RehashStepGood, RoomLoads DEF Looked
<1> QED
  BY <1>1, <1>2

LEMMA AddLoads ==
  ASSUME NEW a, Good(a), LoadOf(a), a.iterators = 0, NEW k \in Keys
  PROVE  LoadOf(AddRaw(a, k, TRUE)) /\ FitsOf(AddRaw(a, k, TRUE))
<1> DEFINE s == RehashStep(a)
           p == Prepare(a, TRUE)
           r == AddRaw(a, k, TRUE)
<1>1. /\ Good(s) /\ Good(p) /\ Good(r) /\ p = ExpandIfNeeded(s, TRUE)
      /\ Used(p) = Used(s) /\ Used(s) \in Nat
  BY RehashStepGood, PrepareGood, AddRawGood, UsedIsCardinality DEF Prepare
<1>2. RoomOf(s)
  BY StepMakesRoom
<1>3. /\ r.rehashidx = p.rehashidx
      /\ r.ht0.size = p.ht0.size /\ r.ht1.size = p.ht1.size
      /\ Used(r) = Used(p) \/ Used(r) = Used(p) + 1
      /\ ~IsRehashing(p) => r.ht0.used = Used(r)
  BY AddRawShape
<1> HIDE DEF s, p, r
<1>4. /\ p.ht0.size \in Nat /\ p.ht1.size \in Nat /\ p.rehashidx \in Int
      /\ s.ht0.size \in Nat /\ s.ht0.used \in Nat
      /\ Used(p) = Used(s) /\ Used(p) \in Nat
  BY <1>1 DEF Good, DictOK, TableOK
<1>5. ~IsRehashing(s) => Used(s) = s.ht0.used
  BY <1>1, Shape
<1>6. \/ IsRehashing(p) /\ RoomOf(p)
      \/ ~IsRehashing(p) /\ Used(p) < p.ht0.size
  <2>1. CASE WantsExpand(s, TRUE) /\ s.ht0.size = 0
    <3>1. ~IsRehashing(p) /\ p.ht0.size > 0
      BY <1>1, <2>1, ExpandShape
    <3>2. Used(s) <= 0
      BY <1>2, <2>1 DEF RoomOf, WantsExpand
    <3> QED
      BY <1>4, <3>1, <3>2
  <2>2. CASE WantsExpand(s, TRUE) /\ s.ht0.size # 0
    <3>1. s.ht0.size > 0
      BY <1>4, <2>2
    <3>2. /\ IsRehashing(p) /\ p.rehashidx = 0 /\ p.ht0.size = s.ht0.size
          /\ p.ht1.size >= 2 * s.ht0.used
      BY <1>1, <2>2, <3>1, ExpandShape
    <3>3. ~IsRehashing(s) /\ s.ht0.used >= s.ht0.size
      BY <2>2 DEF WantsExpand
    <3>4. s.ht0.used <= s.ht0.size
      BY <1>2, <1>5, <3>3 DEF RoomOf
    <3> QED
      BY <1>4, <1>5, <3>1, <3>2, <3>3, <3>4 DEF RoomOf
  <2>3. CASE ~WantsExpand(s, TRUE)
    <3>1. p = s
      BY <1>1, <2>3 DEF ExpandIfNeeded
    <3>2. ~IsRehashing(s) => s.ht0.used < s.ht0.size
      BY <1>4, <2>3 DEF WantsExpand
    <3> QED
      BY <1>2, <1>5, <3>1, <3>2
  <2> QED
    BY <2>1, <2>2, <2>3
<1>7. IsRehashing(r) <=> IsRehashing(p)
  BY <1>3 DEF IsRehashing
<1>8. Used(r) \in Nat /\ Used(r) <= Used(p) + 1
  BY <1>3, <1>4
<1>9. ASSUME IsRehashing(p), RoomOf(p) PROVE LoadOf(r) /\ FitsOf(r)
  <2>1. /\ p.rehashidx < p.ht0.size
        /\ Used(p) + p.ht0.size - p.rehashidx <= p.ht1.size
    BY <1>9 DEF RoomOf
  <2>2. /\ r.rehashidx < r.ht0.size /\ Used(r) <= r.ht1.size
        /\ Used(r) + r.ht0.size - r.rehashidx <= r.ht1.size + 1
    BY <1>3, <1>4, <1>8, <2>1
  <2> QED
    BY <1>7, <1>9, <2>2 DEF LoadOf, FitsOf
<1>10. ASSUME ~IsRehashing(p), Used(p) < p.ht0.size PROVE LoadOf(r) /\ FitsOf(r)
  <2>1. Used(r) <= r.ht0.size /\ r.ht0.used = Used(r)
    BY <1>3, <1>4, <1>8, <1>10
  <2> QED
    BY <1>7, <1>10, <2>1 DEF LoadOf, FitsOf
<1> QED
  BY <1>6, <1>9, <1>10 DEF r

LEMMA RemoveLoads ==
  ASSUME NEW a, Good(a), LoadOf(a), a.iterators = 0, NEW k \in Keys
  PROVE  LoadOf(Remove(a, k)) /\ FitsOf(Remove(a, k))
<1> DEFINE s == RehashStep(a)
           r == Remove(a, k)
<1>1. CASE a.ht0.size = 0
  <2>1. Remove(a, k) = a
    BY <1>1 DEF Remove
  <2> QED
    BY <1>1, <2>1, Shape DEF LoadOf, FitsOf
<1>2. CASE a.ht0.size # 0
  <2>1. Good(s) /\ Good(r) /\ RoomOf(s) /\ Used(s) \in Nat /\ Used(r) \in Nat
    BY RehashStepGood, RemoveGood, StepMakesRoom, UsedIsCardinality
  <2>2. /\ r.rehashidx = s.rehashidx
        /\ r.ht0.size = s.ht0.size /\ r.ht1.size = s.ht1.size
        /\ Used(r) <= Used(s)
    BY <1>2, RemoveShape
  <2> HIDE DEF s, r
  <2>3. RoomOf(r)
    BY <2>1, <2>2, Shape DEF RoomOf, IsRehashing
  <2> QED
    BY <2>1, <2>3, RoomLoads DEF r
<1> QED
  BY <1>1, <1>2

-----------------------------------------------------------------------------
(* dict.c:238-244, 317-319: an addition, deletion or lookup on a rehashing *)
(* dict without iterators moves the front on or gives up the old table.    *)
THEOREM RehashesEnd == Spec => RehashProgress
<1> DEFINE P == IsRehashing(d) /\ d.iterators = 0 /\ Used(d) > 0 /\ ~FrontMoves
                  => ~ \E k \in Keys : Find(k) \/ Delete(k) \/ \E v \in Vals : Add(k, v)
<1>1. DictInv => P
  <2> SUFFICES ASSUME DictInv, IsRehashing(d), d.iterators = 0, Used(d) > 0,
                      NEW k \in Keys,
                      Find(k) \/ Delete(k) \/ \E v \in Vals : Add(k, v)
               PROVE  Moves(d, d')
    BY DEF FrontMoves, Moves
  <2>1. Good(d)
    BY DEF DictInv
  <2>2. CASE Find(k)
    BY <2>1, <2>2, LookedMoves DEF Find
  <2>3. CASE Delete(k)
    BY <2>1, <2>3, RemoveMoves DEF Delete
  <2>4. CASE \E v \in Vals : Add(k, v)
    BY <2>1, <2>4, AddMoves DEF Add
  <2> QED
    BY <2>2, <2>3, <2>4
<1> HIDE DEF P
<1>2. Spec => [][P]_vars
  BY <1>1, DictInvariant, PTL
<1> QED
  BY <1>2 DEF RehashProgress, P

(* dict.c:190-191, 935-944: callers that only add, replace, look up and    *)
(* delete, with resizing enabled and no iterator open, never hold more     *)
(* entries than the table they fill has buckets.                           *)
THEOREM LoadStaysBounded == Spec => GrowthKeepsLoad
<1> DEFINE P == Load /\ can_resize /\ d.iterators = 0 /\ ~(Load' /\ Fits') => ~GrowNext
<1>1. DictInv => P
  <2> SUFFICES ASSUME DictInv, LoadOf(d), can_resize, d.iterators = 0, GrowNext
               PROVE  LoadOf(d') /\ FitsOf(d')
    BY DEF Load, Fits, LoadOf, FitsOf
  <2>1. Good(d) /\ can_resize = TRUE
    BY DEF DictInv, TypeOK
  <2>2. ASSUME NEW k \in Keys, NEW v \in Vals, Add(k, v)
        PROVE  LoadOf(d') /\ FitsOf(d')
    BY <2>1, <2>2, AddLoads DEF Add
  <2>3. ASSUME NEW k \in Keys, NEW v \in Vals, Replace(k, v)
        PROVE  LoadOf(d') /\ FitsOf(d')
    <3> DEFINE add == AddRaw(d, k, TRUE)
    <3>1. LoadOf(add) /\ FitsOf(add) /\ Good(add) /\ add.iterators = 0
      BY <2>1, AddLoads, AddRawGood
    <3>2. d' = add \/ d' = Looked(add)
      BY <2>1, <2>3 DEF Replace
    <3> HIDE DEF add
    <3> QED
      BY <3>1, <3>2, LookedLoads
  <2>4. ASSUME NEW k \in Keys, Find(k)
        PROVE  LoadOf(d') /\ FitsOf(d')
    BY <2>1, <2>4, LookedLoads DEF Find
  <2>5. ASSUME NEW k \in Keys, Delete(k)
        PROVE  LoadOf(d') /\ FitsOf(d')
    BY <2>1, <2>5, RemoveLoads DEF Delete
  <2> QED
    BY <2>2, <2>3, <2>4, <2>5 DEF GrowNext, StoreOp
<1> HIDE DEF P
<1>2. Spec => [][P]_vars
  BY <1>1, DictInvariant, PTL
<1> QED
  BY <1>2 DEF GrowthKeepsLoad, P
=============================================================================
