----------------------------- MODULE ListWalks ------------------------------
(***************************************************************************)
(* The loops of src/data_structure/kernel_struct/list.h over the lists of  *)
(* KernelLists and KernelHlists: forwards and backwards, from the head,    *)
(* from or behind an entry, and the "safe" ones, whose body may remove the *)
(* entry it is given.                                                      *)
(***************************************************************************)
EXTENDS KernelLists, KernelHlists, SequencesExt

(* Memory is finite.                                                       *)
ASSUME WalkAssumption == IsFiniteSet(Cell \cup Holder)

Cells == Cardinality(Cell \cup Holder)

(* A loop that does Step until it stays where it is, which a loop that     *)
(* meets no cell twice does after as many rounds as there are cells.       *)
Loop(Step(_), start) ==
  LET walk[k \in 0 .. Cells + 1] == IF k = 0 THEN start ELSE Step(walk[k - 1])
  IN walk[Cells + 1]

(* for (pos = first; pos != end; pos = to[pos]): the cells it meets.       *)
ForEach(to, first, end) ==
  LET Step(w) == IF w.pos = end THEN w
                 ELSE [pos |-> to[w.pos], seen |-> Append(w.seen, w.pos)]
  IN Loop(Step, [pos |-> first, seen |-> <<>>]).seen

ListForEach(l, head) == ForEach(l.next, l.next[head], head)
ListForEachPrev(l, head) == ForEach(l.prev, l.prev[head], head)
ListForEachContinue(l, pos, head) == ForEach(l.next, l.next[pos], head)
ListForEachContinueReverse(l, pos, head) == ForEach(l.prev, l.prev[pos], head)
ListForEachFrom(l, pos, head) == ForEach(l.next, pos, head)
ListForEachFromReverse(l, pos, head) == ForEach(l.prev, pos, head)
HlistForEach(l, h) == ForEach(l.pointer, l.pointer[h], HNull)
HlistForEachContinue(l, pos) == ForEach(l.pointer, l.pointer[pos], HNull)
HlistForEachFrom(l, pos) == ForEach(l.pointer, pos, HNull)

WrongListForEachSafe(l, head, gone) ==
  LET Step(w) ==
        IF w.pos \notin Cell \ {head} THEN w
        ELSE LET m == IF w.pos \in gone THEN ListDel(w.mem, w.pos) ELSE w.mem
             IN [mem |-> m, pos |-> m.next[w.pos], seen |-> Append(w.seen, w.pos)]
  IN Loop(Step, [mem |-> l, pos |-> l.next[head], seen |-> <<>>])

(* The safe loops: n is read before the body, which removes the entries of *)
(* gone.                                                                   *)
SafeLoop(l, first, head, gone) ==
  LET Step(w) ==
        IF w.pos = head THEN w
        ELSE LET m == IF w.pos \in gone THEN ListDel(w.mem, w.pos) ELSE w.mem
             IN [mem |-> m, pos |-> w.n, n |-> m.next[w.n], seen |-> Append(w.seen, w.pos)]
  IN Loop(Step, [mem |-> l, pos |-> first, n |-> l.next[first], seen |-> <<>>])

ListForEachSafe(l, head, gone) == SafeLoop(l, l.next[head], head, gone)
ListForEachSafeContinue(l, pos, head, gone) == SafeLoop(l, l.next[pos], head, gone)
ListForEachSafeFrom(l, pos, head, gone) == SafeLoop(l, pos, head, gone)

ListForEachSafeReverse(l, head, gone) ==
  LET Step(w) ==
        IF w.pos = head THEN w
        ELSE LET m == IF w.pos \in gone THEN ListDel(w.mem, w.pos) ELSE w.mem
             IN [mem |-> m, pos |-> w.n, n |-> m.prev[w.n], seen |-> Append(w.seen, w.pos)]
      first == l.prev[head]
  IN Loop(Step, [mem |-> l, pos |-> first, n |-> l.prev[first], seen |-> <<>>])

HlistForEachSafe(l, h, gone) ==
  LET Step(w) ==
        IF w.pos = HNull THEN w
        ELSE LET n == w.mem.pointer[w.pos]
             IN [mem |-> IF w.pos \in gone THEN HlistDel(w.mem, w.pos) ELSE w.mem,
                 pos |-> n, seen |-> Append(w.seen, w.pos)]
  IN Loop(Step, [mem |-> l, pos |-> l.pointer[h], seen |-> <<>>])

-----------------------------------------------------------------------------
(* What is left of s without the elements gone.                            *)
Left(s, gone) ==
  LET left[k \in 0 .. Len(s)] ==
        IF k = 0 THEN <<>>
        ELSE IF s[k] \in gone THEN left[k - 1]
        ELSE Append(left[k - 1], s[k])
  IN left[Len(s)]

(* A safe walk over list h, whose entries were s, met the entries it had   *)
(* to, in order, and left the list without those its body removed.         *)
Walked(walk, h, s, met, gone) == walk.seen = met /\ Represents(walk.mem, h, Left(s, gone))

(***************************************************************************)
(* Every loop of list.h (lines 489-661 and 800-849) meets the entries it   *)
(* promises, in order and each once, and a safe one also when its body     *)
(* removes any of them; the list it leaves is the list without them.       *)
(***************************************************************************)
ListLoops ==
  \A h \in live :
    LET s == lists[h]
        n == Len(s)
    IN /\ ListForEach(links, h) = s
       /\ ListForEachPrev(links, h) = Reverse(s)
       /\ \A gone \in SUBSET ToSet(s) :
            /\ Walked(ListForEachSafe(links, h, gone), h, s, s, gone)
            /\ Walked(ListForEachSafeReverse(links, h, gone), h, s, Reverse(s), gone)
       /\ \A i \in 1 .. n :
            LET from == SubSeq(s, i, n)
                behind == SubSeq(s, i + 1, n)
            IN /\ ListForEachContinue(links, s[i], h) = behind
               /\ ListForEachContinueReverse(links, s[i], h) = Reverse(SubSeq(s, 1, i - 1))
               /\ ListForEachFrom(links, s[i], h) = from
               /\ ListForEachFromReverse(links, s[i], h) = Reverse(SubSeq(s, 1, i))
               /\ \A gone \in SUBSET ToSet(behind) :
                    Walked(ListForEachSafeContinue(links, s[i], h, gone), h, s, behind, gone)
               /\ \A gone \in SUBSET ToSet(from) :
                    Walked(ListForEachSafeFrom(links, s[i], h, gone), h, s, from, gone)

HlistLoops ==
  \A h \in HlistHead :
    LET s == hlists[h]
        n == Len(s)
    IN /\ HlistForEach(hlinks, h) = s
       /\ \A i \in 1 .. n : /\ HlistForEachContinue(hlinks, s[i]) = SubSeq(s, i + 1, n)
                            /\ HlistForEachFrom(hlinks, s[i]) = SubSeq(s, i, n)
       /\ \A gone \in SUBSET ToSet(s) :
            LET walk == HlistForEachSafe(hlinks, h, gone)
            IN walk.seen = s /\ HRepresents(walk.mem, h, Left(s, gone))

(* No loop of list.h, over lists of either kind and whatever calls made    *)
(* them, misses an entry, meets one twice or out of its order, or leaves a *)
(* broken list.                                                            *)
LoopsComplete == ListLoops /\ HlistLoops
=============================================================================
