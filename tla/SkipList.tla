------------------------------ MODULE SkipList ------------------------------
(***************************************************************************)
(* The skip list of data_structure/skiplist/skiplist.c: sorted chains over *)
(* each other, with spans that count the elements a link jumps over.       *)
(* Elements are compared by score, and different ones may have equal       *)
(* scores; a node is named after its obj, and the code's level[i] is i + 1.*)
(***************************************************************************)
EXTENDS Integers, Sequences, FiniteSets, SequencesExt, FiniteSetsExt

CONSTANTS Item,      \* the objects callers put into the list
          Score,     \* what cmp compares
          Probe,     \* scores of the objects callers ask with
          MaxLevel,  \* bound: ZSKIPLIST_MAXLEVEL
          Header, Null

ASSUME SkipAssumption ==
  /\ Score \in [Item -> Nat] /\ Probe \subseteq Nat
  /\ MaxLevel \in Nat \ {0} /\ {Header, Null} \cap Item = {}

VARIABLE zsl

Levels == 1 .. MaxLevel
Places == Item \cup {Header}

(* height is how many levels a node was allocated with, 0 when it is free. *)
SkipEmpty ==
  [level |-> 1, length |-> 0, tail |-> Null,
   forward |-> [i \in Levels |-> [x \in Places |-> Null]],
   span |-> [i \in Levels |-> [x \in Places |-> 0]],
   backward |-> [x \in Item |-> Null], height |-> [x \in Item |-> 0]]

SkipInit == zsl = SkipEmpty

-----------------------------------------------------------------------------
(* The search all functions share: from the highest level down, forward    *)
(* while Go allows the step to y, which makes n elements in all.  For each *)
(* level it gives the last node reached and how many elements that is.     *)
Path(l, Go(_, _)) ==
  LET path[i \in 1 .. l.level] ==
        LET ahead[at \in [x : Places, n : Nat]] ==
              LET next == [x |-> l.forward[i][at.x], n |-> at.n + l.span[i][at.x]]
              IN IF next.x # Null /\ Go(next.x, next.n) THEN ahead[next] ELSE at
        IN ahead[IF i = l.level THEN [x |-> Header, n |-> 0] ELSE path[i + 1]]
  IN path

Before(l, s) == Path(l, LAMBDA y, n : Score[y] < s)

Free(l) == {x \in Item : l.height[x] = 0}

(* The span of x on level i; that of the header on a level the list does   *)
(* not have yet is made the whole length.                                  *)
SpanAt(l, i, x) == IF i <= l.level THEN l.span[i][x] ELSE l.length

(* zslInsert, when zslRandomLevel returned h. *)
Inserted(l, o, h) ==
  LET path == Before(l, Score[o])
      At(i) == IF i <= l.level THEN path[i] ELSE [x |-> Header, n |-> 0]
      Gap(i) == At(1).n - At(i).n
      before == At(1).x
      after == l.forward[1][before]
  IN [level    |-> Max({l.level, h}),
      length   |-> l.length + 1,
      tail     |-> IF after = Null THEN o ELSE l.tail,
      forward  |-> [i \in Levels |->
                     IF i <= h THEN [l.forward[i] EXCEPT ![o] = l.forward[i][At(i).x], ![At(i).x] = o]
                     ELSE l.forward[i]],
      span     |-> [i \in Levels |->
                     IF i <= h THEN [l.span[i] EXCEPT ![o] = SpanAt(l, i, At(i).x) - Gap(i), ![At(i).x] = Gap(i) + 1]
                     ELSE IF i <= l.level THEN [l.span[i] EXCEPT ![At(i).x] = @ + 1]
                     ELSE l.span[i]],
      backward |-> [x \in Item |-> IF x = o THEN (IF before = Header THEN Null ELSE before)
                                   ELSE IF x = after THEN o ELSE l.backward[x]],
      height   |-> [l.height EXCEPT ![o] = h]]

(* What zslDeleteNode makes of the span of y, the last node before x on    *)
(* level i, and of the tail.                                               *)
SpanWithout(l, i, x, y) ==
  IF l.forward[i][y] = x THEN l.span[i][y] + l.span[i][x] - 1 ELSE l.span[i][y] - 1

TailWithout(l, x) == IF l.forward[1][x] = Null THEN l.backward[x] ELSE l.tail

(* zslDeleteNode and zslFreeNode. *)
NodeDeleted(l, x, update) ==
  LET after == l.forward[1][x]
      links == [i \in Levels |->
                 IF i <= l.level /\ l.forward[i][update[i].x] = x
                 THEN [l.forward[i] EXCEPT ![update[i].x] = l.forward[i][x], ![x] = Null]
                 ELSE l.forward[i]]
      spans == [i \in Levels |->
                 IF i > l.level THEN l.span[i]
                 ELSE [l.span[i] EXCEPT ![update[i].x] = SpanWithout(l, i, x, update[i].x), ![x] = 0]]
  IN [level    |-> Max({1} \cup {i \in 1 .. l.level : links[i][Header] # Null}),
      length   |-> l.length - 1,
      tail     |-> TailWithout(l, x),
      forward  |-> links,
      span     |-> spans,
      backward |-> [y \in Item |-> IF y = x THEN Null
                                   ELSE IF y = after THEN l.backward[x] ELSE l.backward[y]],
      height   |-> [l.height EXCEPT ![x] = 0]]

(* Deletes what follows update, one after the other while it is in doomed, *)
(* n nodes at most.                                                        *)
RECURSIVE DeleteWhile(_, _, _, _)
DeleteWhile(l, update, doomed, n) ==
  LET x == l.forward[1][update[1].x]
  IN IF n = 0 \/ x \notin doomed THEN l
     ELSE DeleteWhile(NodeDeleted(l, x, update), update, doomed, n - 1)

(* What zslDelete may leave.  Its loop ends with i = -1, and what it then   *)
(* compares with obj is not x's object but what the words before level[0]  *)
(* point to: x may be deleted or not, whether it matches or not, or the    *)
(* program fault, which is the end of it.                                  *)
Deletions(l, s) ==
  LET update == Before(l, s)
      x == l.forward[1][update[1].x]
  IN {l} \cup IF x = Null THEN {} ELSE {NodeDeleted(l, x, update)}

-----------------------------------------------------------------------------
(* A range: its ends, whether they are excluded, and whether the caller    *)
(* passed one object for both.                                             *)
Ranges == {r \in [min : Probe, max : Probe, minex : BOOLEAN, maxex : BOOLEAN, same : BOOLEAN] :
             r.same => r.min = r.max}

GteMin(x, r) == IF r.minex THEN Score[x] > r.min ELSE Score[x] >= r.min
LteMax(x, r) == IF r.maxex THEN Score[x] < r.max ELSE Score[x] <= r.max

IsInRange(l, r) ==
  /\ ~(r.same /\ (r.minex \/ r.maxex))
  /\ l.tail # Null /\ GteMin(l.tail, r)
  /\ l.forward[1][Header] # Null /\ LteMax(l.forward[1][Header], r)

FirstInRange(l, r) ==
  LET x == l.forward[1][Path(l, LAMBDA y, n : ~GteMin(y, r))[1].x]
  IN IF IsInRange(l, r) /\ LteMax(x, r) THEN x ELSE Null

LastInRange(l, r) ==
  LET x == Path(l, LAMBDA y, n : LteMax(y, r))[1].x
  IN IF IsInRange(l, r) /\ GteMin(x, r) THEN x ELSE Null

RangeDeleted(l, r) ==
  DeleteWhile(l, Path(l, LAMBDA y, n : ~GteMin(y, r)), {x \in Item : LteMax(x, r)}, l.length)

WrongRanksDeleted(l, start, end) ==
  LET path == Path(l, LAMBDA y, n : n < start)
  IN DeleteWhile(l, path, Item, Max({0, end + 1 - path[1].n}))
RanksDeleted(l, start, end) ==
  LET path == Path(l, LAMBDA y, n : n < start)
  IN DeleteWhile(l, path, Item, Max({0, end - path[1].n}))

(* zslGetRank and zslGetElementByRank return at the highest level that has *)
(* the answer.                                                             *)
GetRank(l, s) ==
  LET path == Path(l, LAMBDA y, n : Score[y] <= s)
      hits == {i \in 1 .. l.level : path[i].x # Header /\ Score[path[i].x] = s}
  IN IF hits = {} THEN 0 ELSE path[Max(hits)].n

GetElementByRank(l, rank) ==
  LET path == Path(l, LAMBDA y, n : n <= rank)
      hits == {i \in 1 .. l.level : path[i].n = rank}
  IN IF hits = {} THEN Null ELSE path[Max(hits)].x

-----------------------------------------------------------------------------
(* No object is inserted that is inside (skiplist.c:99-102). *)
zslInsert(o, h) == o \in Free(zsl) /\ zsl' = Inserted(zsl, o, h)

zslDelete(s) == zsl' \in Deletions(zsl, s)

zslDeleteRange(r) == zsl' = RangeDeleted(zsl, r)

(* Ranks are counted from 1. *)
zslDeleteRangeByRank(start, end) == zsl' = RanksDeleted(zsl, start, end)

SkipNext ==
  \/ \E o \in Item, h \in Levels : zslInsert(o, h)
  \/ \E s \in Probe : zslDelete(s)
  \/ \E r \in Ranges : zslDeleteRange(r)
  \/ \E start, end \in 1 .. Cardinality(Item) : zslDeleteRangeByRank(start, end)

SkipSpec == SkipInit /\ [][SkipNext]_zsl

-----------------------------------------------------------------------------
(* The elements on level i, in the order of its links. *)
Chain(l, i) ==
  LET from[x \in Places] ==
        IF l.forward[i][x] = Null THEN <<>> ELSE <<l.forward[i][x]>> \o from[l.forward[i][x]]
  IN from[Header]

Elements(l) == Chain(l, 1)

(* Type invariant. *)
SkipTypeOK ==
  /\ zsl.level \in Levels /\ zsl.length \in Nat /\ zsl.tail \in Item \cup {Null}
  /\ zsl.forward \in [Levels -> [Places -> Item \cup {Null}]]
  /\ zsl.span \in [Levels -> [Places -> Nat]]
  /\ zsl.backward \in [Item -> Item \cup {Null}]
  /\ zsl.height \in [Item -> 0 .. MaxLevel]

(* skiplist.c:94-162: however nodes are added and deleted, singly or in    *)
(* runs, each level is what level 1 leaves of the nodes tall enough, no    *)
(* link leaves a node above its height, the way back mirrors the way       *)
(* forward, and the list's level is that of its tallest link.              *)
SkipLinked ==
  LET all == Elements(zsl)
  IN /\ IsSorted(all, LAMBDA x, y : Score[x] <= Score[y])
     /\ ToSet(all) = Item \ Free(zsl) /\ Len(all) = zsl.length
     /\ \A i \in Levels : Chain(zsl, i) = SelectSeq(all, LAMBDA x : zsl.height[x] >= i)
     /\ \A k \in DOMAIN all : zsl.backward[all[k]] = IF k = 1 THEN Null ELSE all[k - 1]
     /\ zsl.tail = IF all = <<>> THEN Null ELSE Last(all)
     /\ zsl.level = Max({1} \cup {zsl.height[x] : x \in Item})

(* A link's span is the distance it covers, and that of the last one of a  *)
(* level the distance to the end: insertion above the list's level, and    *)
(* deletion below a link that jumps over the node, count on it.            *)
SpansExact ==
  LET all == Elements(zsl)
      Rank(x) == IF x = Header THEN 0
                 ELSE IF x = Null THEN zsl.length
                 ELSE CHOOSE k \in DOMAIN all : all[k] = x
  IN \A i \in 1 .. zsl.level : \A x \in {Header} \cup ToSet(Chain(zsl, i)) :
       zsl.span[i][x] = Rank(zsl.forward[i][x]) - Rank(x)

(* The shape of the list, whatever heights zslRandomLevel returned.        *)
SkipWellFormed == SkipTypeOK /\ SkipLinked /\ SpansExact

(* The searches answer as a search of level 1 would, for every range, also *)
(* the empty and the inverted ones; a rank found is that of an element     *)
(* that compares equal.                                                    *)
SkipAnswers ==
  LET all == Elements(zsl)
      In(r) == SelectSeq(all, LAMBDA x : GteMin(x, r) /\ LteMax(x, r))
  IN /\ \A r \in Ranges : /\ FirstInRange(zsl, r) = IF In(r) = <<>> THEN Null ELSE In(r)[1]
                          /\ LastInRange(zsl, r) = IF In(r) = <<>> THEN Null ELSE Last(In(r))
     /\ \A k \in 1 .. Cardinality(Item) :
          GetElementByRank(zsl, k) = IF k \in DOMAIN all THEN all[k] ELSE Null
     /\ \A s \in Probe :
          LET rank == GetRank(zsl, s)
          IN IF \E x \in ToSet(all) : Score[x] = s
             THEN rank \in DOMAIN all /\ Score[all[rank]] = s
             ELSE rank = 0

(* From any list a call changes the elements as it says and keeps the      *)
(* order of the rest; zslDelete takes at most the first element not below  *)
(* its object.                                                             *)
SkipContents ==
  LET all == Elements(zsl)
      Without(S) == SelectSeq(all, LAMBDA x : x \notin S)
  IN /\ \A o \in Free(zsl), h \in Levels :
          LET after == Elements(Inserted(zsl, o, h))
          IN \E k \in DOMAIN after :
               /\ after[k] = o /\ RemoveAt(after, k) = all
               /\ \A j \in DOMAIN after : j < k <=> Score[after[j]] < Score[o]
     /\ \A s \in Probe : \A l \in Deletions(zsl, s) :
          Elements(l) \in {all, RemoveFirstMatch(all, LAMBDA x : Score[x] >= s)}
     /\ \A r \in Ranges :
          Elements(RangeDeleted(zsl, r)) = Without({x \in Item : GteMin(x, r) /\ LteMax(x, r)})
     /\ \A start, end \in 1 .. Cardinality(Item) :
          Elements(RanksDeleted(zsl, start, end))
            = Without({all[k] : k \in DOMAIN all \cap (start .. end)})

(* skiplist.c:83-368: to its callers it is a sorted list.                  *)
SkipAsList == SkipAnswers /\ SkipContents
=============================================================================
