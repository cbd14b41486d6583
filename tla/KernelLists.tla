---------------------------- MODULE KernelLists -----------------------------
(***************************************************************************)
(* The doubly linked lists of src/data_structure/kernel_struct/list.h:     *)
(* every operation of struct list_head, on heads and entries that link to  *)
(* each other.  A head is a cell like an entry.  links is the memory; next *)
(* to it, lists says of every operation what it means on sequences, and    *)
(* live which heads are initialised.  Callers keep the rules the header    *)
(* states: an entry is on one list at most, and a list is not joined to    *)
(* itself.                                                                 *)
(***************************************************************************)
EXTENDS Integers, Sequences

CONSTANTS ListHead,          \* the struct list_head that stand for lists
          ListEntry,         \* those inside the entries
          Poison1, Poison2   \* LIST_POISON1 and LIST_POISON2

ASSUME ListAssumption ==
  /\ ListHead \cap ListEntry = {}
  /\ {Poison1, Poison2} \cap (ListHead \cup ListEntry) = {}

VARIABLES links,  \* next and prev of every cell
          lists,  \* the entries of each list, in order
          live    \* the heads that are initialised

listVars == <<links, lists, live>>

Cell == ListHead \cup ListEntry

(***************************************************************************)
(* The operations on the memory l.                                         *)
(***************************************************************************)
InitListHead(l, c) ==
  [next |-> [l.next EXCEPT ![c] = c], prev |-> [l.prev EXCEPT ![c] = c]]

AddBetween(l, new, prev, next) ==
  [next |-> [l.next EXCEPT ![new] = next, ![prev] = new],
   prev |-> [l.prev EXCEPT ![next] = new, ![new] = prev]]

DelBetween(l, prev, next) ==
  [next |-> [l.next EXCEPT ![prev] = next], prev |-> [l.prev EXCEPT ![next] = prev]]

ListAdd(l, new, head) == AddBetween(l, new, head, l.next[head])

ListAddTail(l, new, head) == AddBetween(l, new, l.prev[head], head)

DelEntry(l, entry) == DelBetween(l, l.prev[entry], l.next[entry])

ListDel(l, entry) ==
  LET m == DelEntry(l, entry)
  IN [next |-> [m.next EXCEPT ![entry] = Poison1], prev |-> [m.prev EXCEPT ![entry] = Poison2]]

ListDelInit(l, entry) == InitListHead(DelEntry(l, entry), entry)

WrongListReplace(l, old, new) ==
  LET m == [next |-> [l.next EXCEPT ![new] = l.next[old]],
            prev |-> [l.prev EXCEPT ![l.next[old]] = new]]
  IN [next |-> [m.next EXCEPT ![l.prev[old]] = new],
      prev |-> [m.prev EXCEPT ![new] = l.prev[old]]]

(* The four stores in their order: the second changes what the third reads *)
(* when old is alone.                                                      *)
ListReplace(l, old, new) ==
  LET m == [next |-> [l.next EXCEPT ![new] = l.next[old]],
            prev |-> [l.prev EXCEPT ![l.next[old]] = new]]
  IN [next |-> [m.next EXCEPT ![m.prev[old]] = new],
      prev |-> [m.prev EXCEPT ![new] = m.prev[old]]]

ListMove(l, entry, head) == ListAdd(DelEntry(l, entry), entry, head)

ListMoveTail(l, entry, head) == ListAddTail(DelEntry(l, entry), entry, head)

ListBulkMoveTail(l, head, first, last) ==
  LET m == DelBetween(l, l.prev[first], l.next[last])
  IN [next |-> [m.next EXCEPT ![m.prev[head]] = first, ![last] = head],
      prev |-> [m.prev EXCEPT ![first] = m.prev[head], ![head] = last]]

ListEmpty(l, head) == l.next[head] = head

ListIsSingular(l, head) == ~ListEmpty(l, head) /\ l.next[head] = l.prev[head]

ListRotateLeft(l, head) ==
  IF ListEmpty(l, head) THEN l ELSE ListMoveTail(l, l.next[head], head)

CutAfter(l, list, head, entry) ==
  LET first == l.next[head]
      rest == l.next[entry]
  IN [next |-> [l.next EXCEPT ![list] = first, ![entry] = list, ![head] = rest],
      prev |-> [l.prev EXCEPT ![first] = list, ![list] = entry, ![rest] = head]]

ListCutPosition(l, list, head, entry) ==
  IF \/ ListEmpty(l, head)
     \/ ListIsSingular(l, head) /\ l.next[head] # entry /\ head # entry
  THEN l
  ELSE IF entry = head THEN InitListHead(l, list)
  ELSE CutAfter(l, list, head, entry)

ListCutBefore(l, list, head, entry) ==
  IF l.next[head] = entry THEN InitListHead(l, list)
  ELSE LET first == l.next[head]
           last == l.prev[entry]
       IN [next |-> [l.next EXCEPT ![list] = first, ![last] = list, ![head] = entry],
           prev |-> [l.prev EXCEPT ![first] = list, ![list] = last, ![entry] = head]]

SpliceBetween(l, list, prev, next) ==
  LET first == l.next[list]
      last == l.prev[list]
  IN [next |-> [l.next EXCEPT ![prev] = first, ![last] = next],
      prev |-> [l.prev EXCEPT ![first] = prev, ![next] = last]]

ListSplice(l, list, head) ==
  IF ListEmpty(l, list) THEN l ELSE SpliceBetween(l, list, head, l.next[head])

ListSpliceTail(l, list, head) ==
  IF ListEmpty(l, list) THEN l ELSE SpliceBetween(l, list, l.prev[head], head)

ListSpliceInit(l, list, head) ==
  IF ListEmpty(l, list) THEN l
  ELSE InitListHead(SpliceBetween(l, list, head, l.next[head]), list)

ListSpliceTailInit(l, list, head) ==
  IF ListEmpty(l, list) THEN l
  ELSE InitListHead(SpliceBetween(l, list, l.prev[head], head), list)

(***************************************************************************)
(* What they mean on sequences.                                            *)
(***************************************************************************)
Without(s, i) == SubSeq(s, 1, i - 1) \o SubSeq(s, i + 1, Len(s))

OnLists == UNION {{lists[h][i] : i \in 1 .. Len(lists[h])} : h \in live}

Off == ListEntry \ OnLists

(***************************************************************************)
(* The calls.  i is the position of an entry of list h.                    *)
(***************************************************************************)
ListInit ==
  /\ links = [next |-> [c \in Cell |-> IF c \in ListHead THEN c ELSE Poison1],
              prev |-> [c \in Cell |-> IF c \in ListHead THEN c ELSE Poison2]]
  /\ lists = [h \in ListHead |-> <<>>]
  /\ live = ListHead

Initialise(h) ==
  /\ h \notin live
  /\ links' = InitListHead(links, h)
  /\ lists' = [lists EXCEPT ![h] = <<>>]
  /\ live' = live \cup {h}

Add(h, e) ==
  /\ links' = ListAdd(links, e, h)
  /\ lists' = [lists EXCEPT ![h] = <<e>> \o lists[h]]
  /\ UNCHANGED live

AddTail(h, e) ==
  /\ links' = ListAddTail(links, e, h)
  /\ lists' = [lists EXCEPT ![h] = Append(lists[h], e)]
  /\ UNCHANGED live

Delete(h, i) ==
  /\ \/ links' = ListDel(links, lists[h][i])
     \/ links' = ListDelInit(links, lists[h][i])
  /\ lists' = [lists EXCEPT ![h] = Without(lists[h], i)]
  /\ UNCHANGED live

(* list_replace, or list_replace_init, of an entry.                        *)
Replace(h, i, e) ==
  /\ LET replaced == ListReplace(links, lists[h][i], e)
     IN links' \in {replaced, InitListHead(replaced, lists[h][i])}
  /\ lists' = [lists EXCEPT ![h] = [lists[h] EXCEPT ![i] = e]]
  /\ UNCHANGED live

(* list_replace of a head: all its entries are now on g.                   *)
ReplaceHead(h, g) ==
  /\ g \notin live
  /\ links' = ListReplace(links, h, g)
  /\ lists' = [lists EXCEPT ![g] = lists[h], ![h] = <<>>]
  /\ live' = (live \ {h}) \cup {g}

Moved(h, i, g, tail) ==
  LET e == lists[h][i]
      left == [lists EXCEPT ![h] = Without(lists[h], i)]
  IN [left EXCEPT ![g] = IF tail THEN Append(left[g], e) ELSE <<e>> \o left[g]]

Move(h, i, g) ==
  /\ links' = ListMove(links, lists[h][i], g)
  /\ lists' = Moved(h, i, g, FALSE)
  /\ UNCHANGED live

MoveTail(h, i, g) ==
  /\ links' = ListMoveTail(links, lists[h][i], g)
  /\ lists' = Moved(h, i, g, TRUE)
  /\ UNCHANGED live

BulkMoveTail(h, i, j) ==
  LET s == lists[h]
  IN /\ i <= j
     /\ links' = ListBulkMoveTail(links, h, s[i], s[j])
     /\ lists' = [lists EXCEPT ![h] =
                    SubSeq(s, 1, i - 1) \o SubSeq(s, j + 1, Len(s)) \o SubSeq(s, i, j)]
     /\ UNCHANGED live

RotateLeft(h) ==
  /\ links' = ListRotateLeft(links, h)
  /\ lists' = [lists EXCEPT ![h] = IF lists[h] = <<>> THEN <<>>
                                   ELSE Append(Tail(lists[h]), Head(lists[h]))]
  /\ UNCHANGED live

(* The first i entries of h become list g, which loses what it had; an     *)
(* empty h is left alone, and then g is too.                               *)
CutPosition(h, i, g) ==
  LET s == lists[h]
  IN /\ links' = ListCutPosition(links, g, h, IF i = 0 THEN h ELSE s[i])
     /\ IF s = <<>>
        THEN UNCHANGED <<lists, live>>
        ELSE /\ lists' = [lists EXCEPT ![g] = SubSeq(s, 1, i), ![h] = SubSeq(s, i + 1, Len(s))]
             /\ live' = live \cup {g}

(* The entries before the i-th, which may be h itself, become list g.      *)
CutBefore(h, i, g) ==
  LET s == lists[h]
  IN /\ links' = ListCutBefore(links, g, h, IF i = Len(s) + 1 THEN h ELSE s[i])
     /\ lists' = [lists EXCEPT ![g] = SubSeq(s, 1, i - 1), ![h] = SubSeq(s, i, Len(s))]
     /\ live' = live \cup {g}

(* The entries of h join g, in front or behind; h is left as it was, and   *)
(* is then no list any more, or initialised.                               *)
Spliced(h, g, tail) ==
  [lists EXCEPT ![g] = IF tail THEN lists[g] \o lists[h] ELSE lists[h] \o lists[g],
                ![h] = <<>>]

Splice(h, g) ==
  /\ links' = ListSplice(links, h, g)
  /\ lists' = Spliced(h, g, FALSE)
  /\ live' = IF lists[h] = <<>> THEN live ELSE live \ {h}

SpliceTail(h, g) ==
  /\ links' = ListSpliceTail(links, h, g)
  /\ lists' = Spliced(h, g, TRUE)
  /\ live' = IF lists[h] = <<>> THEN live ELSE live \ {h}

SpliceInit(h, g) ==
  /\ links' = ListSpliceInit(links, h, g)
  /\ lists' = Spliced(h, g, FALSE)
  /\ UNCHANGED live

SpliceTailInit(h, g) ==
  /\ links' = ListSpliceTailInit(links, h, g)
  /\ lists' = Spliced(h, g, TRUE)
  /\ UNCHANGED live

ListNext ==
  \/ \E h \in ListHead : Initialise(h)
  \/ \E h \in live : RotateLeft(h)
  \/ \E h \in live : \E e \in Off : Add(h, e) \/ AddTail(h, e)
  \/ \E h \in live : \E g \in ListHead \ {h} :
       \/ ReplaceHead(h, g)
       \/ \E i \in 0 .. Len(lists[h]) : CutPosition(h, i, g)
       \/ \E i \in 1 .. Len(lists[h]) + 1 : CutBefore(h, i, g)
  \/ \E h \in live : \E i \in 1 .. Len(lists[h]) :
       \/ Delete(h, i)
       \/ \E e \in Off : Replace(h, i, e)
       \/ \E g \in live : Move(h, i, g) \/ MoveTail(h, i, g)
       \/ \E j \in 1 .. Len(lists[h]) : BulkMoveTail(h, i, j)
  \/ \E h \in live : \E g \in live \ {h} :
       Splice(h, g) \/ SpliceTail(h, g) \/ SpliceInit(h, g) \/ SpliceTailInit(h, g)

ListSpec == ListInit /\ [][ListNext]_listVars

-----------------------------------------------------------------------------
(* The i-th cell of the ring of head h and entries s: h itself before the  *)
(* first entry and behind the last.                                        *)
At(h, s, i) == IF i \in 1 .. Len(s) THEN s[i] ELSE h

Represents(l, h, s) ==
  \A i \in 0 .. Len(s) : /\ l.next[At(h, s, i)] = At(h, s, i + 1)
                         /\ l.prev[At(h, s, i + 1)] = At(h, s, i)

ListTypeOK ==
  /\ links \in [next : [Cell -> Cell \cup {Poison1, Poison2}],
                prev : [Cell -> Cell \cup {Poison1, Poison2}]]
  /\ lists \in [ListHead -> Seq(ListEntry)]
  /\ live \subseteq ListHead

(* No entry is twice on a list or on two of them.                          *)
OnOneList ==
  \A h, g \in live : \A i \in 1 .. Len(lists[h]), j \in 1 .. Len(lists[g]) :
    lists[h][i] = lists[g][j] => h = g /\ i = j

(***************************************************************************)
(* After any sequence of calls, the links of every initialised head form   *)
(* the ring of exactly the entries, in the order, that the calls mean on   *)
(* sequences, in both directions: the stores of list.h lines 67-421, whose *)
(* cells may coincide (an empty list, a neighbour, the head itself).       *)
(***************************************************************************)
ListsLinked ==
  /\ OnOneList
  /\ \A h \in live : Represents(links, h, lists[h])
=============================================================================
