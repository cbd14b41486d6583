-------------------------------- MODULE Dict --------------------------------
(***************************************************************************)
(* redis_dict/dict.c as a state machine: one action per public operation,  *)
(* each performing everything the C function does, the incremental rehash  *)
(* step and the automatic expansion included.  Callers are sequential.     *)
(* `open` counts the safe iterators callers have started and not released; *)
(* the code's own counter is d.iterators.                                  *)
(***************************************************************************)
EXTENDS DictOps

CONSTANTS Vals,              \* the values callers store
          NoVal,             \* "no value": an absent key
          MaxOpen,           \* bound: safe iterators open at once
          Batches,           \* bound: the n of explicit dictRehash(d, n) calls
          EmptyMidIteration  \* may callers empty the dict while they iterate?

ASSUME ValAssumption ==
  /\ NoVal \notin Vals
  /\ NoVal \notin Keys
  /\ MaxOpen \in Nat
  /\ Batches \subseteq Nat \ {0}
  /\ EmptyMidIteration \in BOOLEAN

VARIABLES d,           \* the dict
          val,         \* the value in each key's entry
          can_resize,  \* dict_can_resize
          open,        \* safe iterators between first dictNext and release
          last         \* the last call and its answer

vars == <<d, val, can_resize, open, last>>

Answer(op, k, r) == [op |-> op, key |-> k, res |-> r]

Init ==
  /\ d = NewDict
  /\ val = [k \in Keys |-> NoVal]
  /\ can_resize = TRUE
  /\ open = 0
  /\ last = Answer("create", NoVal, NoVal)

-----------------------------------------------------------------------------
Add(k, v) ==
  LET new == ~NoIndex(d, k, can_resize)
  IN /\ d' = AddRaw(d, k, can_resize)
     /\ val' = IF new THEN [val EXCEPT ![k] = v] ELSE val
     /\ last' = Answer("add", k, new)
     /\ UNCHANGED <<can_resize, open>>

(* dictAdd, and when that fails dictFind and an update of what it found,   *)
(* which crashes should nothing be found.                                  *)
Replace(k, v) ==
  LET new == ~NoIndex(d, k, can_resize)
      add == AddRaw(d, k, can_resize)
  IN /\ d' = IF new THEN add ELSE Looked(add)
     /\ val' = [val EXCEPT ![k] = v]
     /\ last' = IF new \/ Found(add, k) THEN Answer("replace", k, new)
                ELSE Answer("crash", k, NoVal)
     /\ UNCHANGED <<can_resize, open>>

(* dictFind, else dictAddRaw; the caller fills the entry it was given if   *)
(* that is new.                                                            *)
ReplaceRaw(k, v) ==
  LET hit == Found(d, k)
      new == ~hit /\ ~NoIndex(Looked(d), k, can_resize)
  IN /\ d' = IF hit THEN Looked(d) ELSE AddRaw(Looked(d), k, can_resize)
     /\ val' = IF new THEN [val EXCEPT ![k] = v] ELSE val
     /\ last' = Answer("raw", k, val'[k])
     /\ UNCHANGED <<can_resize, open>>

Delete(k) ==
  /\ d' = Remove(d, k)
  /\ val' = IF Removes(d, k) THEN [val EXCEPT ![k] = NoVal] ELSE val
  /\ last' = Answer("delete", k, Removes(d, k))
  /\ UNCHANGED <<can_resize, open>>

Find(k) ==
  /\ d' = Looked(d)
  /\ last' = Answer("find", k, IF Found(d, k) THEN val[k] ELSE NoVal)
  /\ UNCHANGED <<val, can_resize, open>>

RandomKey ==
  /\ d' = Looked(d)
  /\ IF Used(d) = 0
     THEN last' = Answer("random", NoVal, NoVal)
     ELSE \E k \in Sampled(d') : last' = Answer("random", k, val[k])
  /\ UNCHANGED <<val, can_resize, open>>

(* dictEmpty also forgets the iterators that are running. *)
Empty ==
  /\ open = 0 \/ EmptyMidIteration
  /\ d' = NewDict
  /\ val' = [k \in Keys |-> NoVal]
  /\ last' = Answer("empty", NoVal, NoVal)
  /\ UNCHANGED <<can_resize, open>>

-----------------------------------------------------------------------------
(* Operations that move entries but answer nothing about them *)

ExpandTo(size) ==
  /\ CanExpand(d, size)
  /\ d' = Expand(d, size)
  /\ UNCHANGED <<val, can_resize, open, last>>

Resize ==
  /\ can_resize /\ CanExpand(d, ResizeRequest(d))
  /\ d' = Expand(d, ResizeRequest(d))
  /\ UNCHANGED <<val, can_resize, open, last>>

(* An explicit dictRehash, or one round of dictRehashMilliseconds. *)
RehashCall(n) ==
  /\ IsRehashing(d)
  /\ d' = Rehash(d, n)
  /\ UNCHANGED <<val, can_resize, open, last>>

SetResize(b) ==
  /\ can_resize' = b
  /\ UNCHANGED <<d, val, open, last>>

(* The first dictNext of a safe iterator, and its release. *)
IterBegin ==
  /\ open < MaxOpen
  /\ open' = open + 1
  /\ d' = [d EXCEPT !.iterators = @ + 1]
  /\ UNCHANGED <<val, can_resize, last>>

IterEnd ==
  /\ open > 0
  /\ open' = open - 1
  /\ d' = [d EXCEPT !.iterators = @ - 1]
  /\ UNCHANGED <<val, can_resize, last>>

-----------------------------------------------------------------------------
(* What the mem server does with its dict (Z_my_work_mem/cmd.c). *)
StoreOp ==
  \/ \E k \in Keys, v \in Vals : Add(k, v) \/ Replace(k, v)
  \/ \E k \in Keys : Find(k)

GrowNext == StoreOp \/ \E k \in Keys : Delete(k)

Housekeeping ==
  \/ \E size \in 1 .. MaxRequest : ExpandTo(size)
  \/ Resize
  \/ \E n \in Batches : RehashCall(n)
  \/ \E b \in BOOLEAN : SetResize(b)
  \/ IterBegin
  \/ IterEnd

Next ==
  \/ GrowNext
  \/ \E k \in Keys, v \in Vals : ReplaceRaw(k, v)
  \/ RandomKey
  \/ Empty
  \/ Housekeeping

Spec == Init /\ [][Next]_vars

-----------------------------------------------------------------------------
(* Type invariant: the shape of dict, dictht and of what callers see. *)
TypeOK ==
  /\ DictOK(d)
  /\ val \in [Keys -> Vals \cup {NoVal}]
  /\ can_resize \in BOOLEAN
  /\ open \in 0 .. MaxOpen
  /\ DOMAIN last = {"op", "key", "res"}

(* dict.c:971-988, 499-510 and 420-447 search one bucket per table: every  *)
(* entry is in the bucket of its hash, in exactly one of the two tables,   *)
(* and ht1 is in use only while ht0 drains.                                *)
Reachable ==
  /\ Placed(d.ht0)
  /\ Placed(d.ht1)
  /\ Entries(d.ht0) \cap Entries(d.ht1) = {}
  /\ ~IsRehashing(d) => d.ht1 = NoTable

(* dict.c:249-285, 497 and 939 decide by the `used` counters: after any    *)
(* sequence of moves, insertions and removals they count the entries.      *)
CountersExact == Counted(d.ht0) /\ Counted(d.ht1)

(* dict.c:252-254 and 637-638, 717-719: while rehashing, nothing is left   *)
(* below rehashidx, so the assert holds and the skipped buckets are empty. *)
RehashFront == IsRehashing(d) => Front(d)

(* All three, after any mix of calls, the conditions the calls rely on.    *)
TablesSound == Reachable /\ CountersExact /\ RehashFront

(* dict.c:633-649: the do-while loops of dictGetRandomKey end, and can     *)
(* return any entry, because no entry lies outside the sampled buckets.    *)
SamplingComplete == Sampled(d) = DictKeys(d)

(* dict.c:309-316: while a safe iterator runs, no operation carries an     *)
(* entry from one table to the other (an explicit dictRehash does not      *)
(* check, its caller must).                                                *)
NoMoveWhileIterating ==
  [][open > 0 /\ ~(\E n \in Batches : RehashCall(n)) =>
       /\ Entries(d.ht0) \cap DictKeys(d)' \subseteq Entries(d'.ht0)
       /\ Entries(d.ht1) \cap DictKeys(d)' \subseteq Entries(d'.ht1)]_vars

(* dict.c:238-244, 317-319: every addition, deletion or lookup on a        *)
(* rehashing dict either gives up the old table or moves the front on, so  *)
(* a rehash lasts at most ht[0].size calls; the front never moves back.    *)
FrontMoves == d'.rehashidx > d.rehashidx \/ d'.ht0.size = d.ht1.size

RehashProgress ==
  [][IsRehashing(d) /\ d.iterators = 0 /\ Used(d) > 0 /\ ~FrontMoves
       => ~ \E k \in Keys : Find(k) \/ Delete(k) \/ \E v \in Vals : Add(k, v)]_vars

(* Each addition spends at least one bucket of ht0: what is left of it,    *)
(* with the entries there are, fits the new table and one more.            *)
Load ==
  IF IsRehashing(d)
  THEN d.rehashidx < d.ht0.size /\ Used(d) + d.ht0.size - d.rehashidx <= d.ht1.size + 1
  ELSE d.ht0.used <= d.ht0.size

(* dict.c:190-191, 935-944: a caller that adds, replaces, looks up and     *)
(* deletes, with resizing enabled and no iterator open, never fills the    *)
(* new table before the old one is given up: chains keep one entry on      *)
(* average, and no second rehash is needed while one is under way.         *)
Fits == Used(d) <= IF IsRehashing(d) THEN d.ht1.size ELSE d.ht0.size

GrowthKeepsLoad ==
  [][Load /\ can_resize /\ d.iterators = 0 /\ ~(Load' /\ Fits') => ~GrowNext]_vars

(* The dict seen as a map: refinement to KeyValue. *)
Map ==
  LET present == DictKeys(d)
  IN [k \in Keys |-> IF k \in present THEN val[k] ELSE NoVal]

KV == INSTANCE KeyValue WITH m <- Map

(* dict.c implements the map its callers expect, whatever the rehash, the  *)
(* resizes and the iterators do in between.                                *)
IsMap == KV!Spec
=============================================================================
