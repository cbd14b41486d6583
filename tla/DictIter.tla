------------------------------ MODULE DictIter ------------------------------
(***************************************************************************)
(* The safe iterators of redis_dict/dict.c, running while callers add,     *)
(* look up, delete and resize.  Inside a bucket the order of the chain is  *)
(* chosen as the iterator meets it; a key added meanwhile goes to the head *)
(* of its chain, so it is never behind the iterator's position in it.      *)
(***************************************************************************)
EXTENDS DictOps

CONSTANTS Iters,       \* iterator handles callers hold
          Null         \* a null entry pointer

ASSUME IterAssumption == Null \notin Keys /\ IsFiniteSet(Iters)

VARIABLES d,        \* the dict
          it,       \* the iterators
          crashed,  \* an iterator has followed a freed entry
          stray     \* an entry was deleted under an iterator that had not
                    \* just returned it, or was not alone

vars == <<d, it, crashed, stray>>

(* A dictIterator: table/index are its bucket; entry and next are its two  *)
(* entry pointers, behind the entries that follow next in the chain.       *)
(* freed says that next points to a deleted entry.  seen and due are what  *)
(* its user can observe: entries returned, entries present from the start. *)
Iterator ==
  [phase : {"idle", "inside", "ended"}, table : {0, 1}, index : Int,
   entry : Keys \cup {Null}, next : Keys \cup {Null}, behind : SUBSET Keys,
   freed : BOOLEAN, seen : SUBSET Keys, due : SUBSET Keys]

Idle == [phase |-> "idle", table |-> 0, index |-> -1, entry |-> Null,
         next |-> Null, behind |-> {}, freed |-> FALSE, seen |-> {}, due |-> {}]

Running(i) == it[i].phase \in {"inside", "ended"}

Init == d = NewDict /\ it = [i \in Iters |-> Idle] /\ crashed = FALSE /\ stray = FALSE

-----------------------------------------------------------------------------
(* The buckets dictNext still visits: the rest of its table, and then ht1  *)
(* if a rehash is under way.                                               *)
Ahead(i) ==
  LET t == it[i].table
      x == it[i].index
  IN  (IF t = 0 THEN {<<0, j>> : j \in x + 1 .. d.ht0.size - 1} ELSE {})
        \cup
      (IF t = 1 THEN {<<1, j>> : j \in x + 1 .. d.ht1.size - 1}
       ELSE IF IsRehashing(d) THEN {<<1, j>> : j \in 0 .. d.ht1.size - 1} ELSE {})

Chain(b) == IF b[1] = 0 THEN d.ht0.table[b[2]] ELSE d.ht1.table[b[2]]

Occupied(i) == {b \in Ahead(i) : Chain(b) # {}}

Before(a, b) == a[1] < b[1] \/ (a[1] = b[1] /\ a[2] < b[2])

(* What an iteration owes its user, fixed by its first dictNext.           *)
Due(r) == IF r.phase = "idle" THEN DictKeys(d) ELSE r.due

At(r, bucket, e, n, behind) ==
  [r EXCEPT !.phase = "inside", !.table = bucket[1], !.index = bucket[2],
            !.entry = e, !.next = n, !.behind = behind,
            !.seen = @ \cup {e}, !.due = Due(r)]

AtEnd(r) == [r EXCEPT !.phase = "ended", !.entry = Null, !.due = Due(r)]

Return(i, bucket, e, rest) ==
  \E n \in IF rest = {} THEN {Null} ELSE rest :
    it' = [it EXCEPT ![i] = At(@, bucket, e, n, rest \ {n})]

(* The first dictNext of a safe iterator stops the rehash steps.           *)
Count(i) ==
  d' = IF it[i].phase = "idle" THEN [d EXCEPT !.iterators = @ + 1] ELSE d

(* dictNext inside a chain: on to the saved next entry, whose own next is  *)
(* read now.                                                               *)
NextInChain(i) ==
  /\ it[i].phase = "inside" /\ it[i].next # Null
  /\ IF it[i].freed
     THEN crashed' = TRUE /\ UNCHANGED it
     ELSE /\ Return(i, <<it[i].table, it[i].index>>, it[i].next, it[i].behind)
          /\ UNCHANGED crashed
  /\ UNCHANGED <<d, stray>>

NextBucket(i) ==
  /\ it[i].phase \in {"idle", "inside"} /\ it[i].next = Null
  /\ \E b \in Occupied(i) :
       /\ \A c \in Occupied(i) : c = b \/ Before(b, c)
       /\ \E e \in Chain(b) : Return(i, b, e, Chain(b) \ {e})
  /\ Count(i)
  /\ UNCHANGED <<crashed, stray>>

NextEnd(i) ==
  /\ it[i].phase \in {"idle", "inside"} /\ it[i].next = Null
  /\ Occupied(i) = {}
  /\ it' = [it EXCEPT ![i] = AtEnd(@)]
  /\ Count(i)
  /\ UNCHANGED <<crashed, stray>>

(* dictReleaseIterator, at the end or half-way.                            *)
Release(i) ==
  /\ Running(i)
  /\ it' = [it EXCEPT ![i] = Idle]
  /\ d' = [d EXCEPT !.iterators = @ - 1]
  /\ UNCHANGED <<crashed, stray>>

-----------------------------------------------------------------------------
Add(k) ==
  /\ d' = AddRaw(d, k, TRUE)
  /\ UNCHANGED <<it, crashed, stray>>

Find ==
  /\ d' = Looked(d)
  /\ UNCHANGED <<it, crashed, stray>>

Resize ==
  /\ CanExpand(d, ResizeRequest(d))
  /\ d' = Expand(d, ResizeRequest(d))
  /\ UNCHANGED <<it, crashed, stray>>

(* dictExpand by a caller.                                                 *)
ExpandTo(size) ==
  /\ CanExpand(d, size)
  /\ d' = Expand(d, size)
  /\ UNCHANGED <<it, crashed, stray>>

WrongForget(r, k) ==
  [r EXCEPT !.freed = @ \/ r.entry = k \/ r.next = k,
            !.behind = @ \ {k}, !.seen = @ \ {k}, !.due = @ \ {k}]

(* The entry's memory is released: pointers to it dangle.                  *)
Forget(r, k) ==
  [r EXCEPT !.freed = @ \/ r.next = k,
            !.behind = @ \ {k}, !.seen = @ \ {k}, !.due = @ \ {k}]

(* The deletion dictNext provides for. *)
InTurn(k) ==
  \/ \A i \in Iters : ~Running(i)
  \/ \E i \in Iters : it[i].entry = k /\ \A j \in Iters \ {i} : ~Running(j)

Delete(k) ==
  /\ Removes(d, k)
  /\ d' = Remove(d, k)
  /\ it' = [i \in Iters |-> IF Running(i) THEN Forget(it[i], k) ELSE it[i]]
  /\ stray' = (stray \/ ~InTurn(k))
  /\ UNCHANGED crashed

Next ==
  /\ ~crashed
  /\ \/ \E i \in Iters : NextInChain(i) \/ NextBucket(i) \/ NextEnd(i) \/ Release(i)
     \/ \E k \in Keys : Add(k) \/ Delete(k)
     \/ Find
     \/ Resize
     \/ \E size \in {s \in Sizes : s <= MaxRequest} : ExpandTo(size)

Spec == Init /\ [][Next]_vars

-----------------------------------------------------------------------------
TypeOK ==
  /\ DictOK(d)
  /\ {crashed, stray} \subseteq BOOLEAN
  /\ it \in [Iters -> Iterator]

(* dict.h:87-90, dict.c:309-316: an iteration that has ended has returned  *)
(* every entry that was there from its first step to its last, although    *)
(* the dict grew or started a rehash in between.                           *)
IterationComplete ==
  \A i \in Iters : it[i].phase = "ended" => it[i].due \subseteq it[i].seen

(* dict.c:311-312: no entry is returned twice by one iteration (a deleted  *)
(* and re-added key is a new entry).                                       *)
NoDuplicates ==
  [][\A i \in Iters : (NextInChain(i) \/ NextBucket(i)) /\ ~crashed'
       => it'[i].entry \notin it[i].seen]_vars

(* Both: an iteration is of each entry that stays, once.                   *)
EachOnce == []IterationComplete /\ NoDuplicates

(* dict.c:605-607: saving the next entry lets the user delete the one just *)
(* returned, and callers that delete no other are safe.  (dict.h:87-90     *)
(* promises the same for every function.)                                  *)
NoFreedEntry == crashed => stray
=============================================================================
