---------------------------- MODULE KernelHlists ----------------------------
(***************************************************************************)
(* The lists with a one-word head of src/data_structure/kernel_struct/     *)
(* list.h: struct hlist_head and struct hlist_node.  A node's pprev is the *)
(* address of the pointer that leads to it, named here by the head or the  *)
(* node that holds that pointer.  hlinks is the memory; hlists says of     *)
(* every operation what it means on sequences, and fake which nodes are    *)
(* their own list.  Callers keep the rules of the header.                  *)
(***************************************************************************)
EXTENDS Integers, Sequences

CONSTANTS HlistHead, HlistNode,
          HNull, HPoison1, HPoison2

ASSUME HlistAssumption ==
  /\ HlistHead \cap HlistNode = {}
  /\ {HNull, HPoison1, HPoison2} \cap (HlistHead \cup HlistNode) = {}
  /\ HNull \notin {HPoison1, HPoison2}

VARIABLES hlinks,  \* first of the heads, next and pprev of the nodes
          hlists,  \* the nodes of each list, in order
          fake     \* the nodes hlist_add_fake was called on

hlistVars == <<hlinks, hlists, fake>>

Holder == HlistHead \cup HlistNode

(***************************************************************************)
(* The operations on the memory l: pointer is first or next, by holder.    *)
(***************************************************************************)
InitHlistNode(l, n) ==
  [pointer |-> [l.pointer EXCEPT ![n] = HNull], pprev |-> [l.pprev EXCEPT ![n] = HNull]]

HlistUnhashed(l, n) == l.pprev[n] = HNull

HlistEmpty(l, h) == l.pointer[h] = HNull

(* pprev of n becomes holder, if there is a node n.                        *)
Backward(pprev, n, holder) == IF n = HNull THEN pprev ELSE [pprev EXCEPT ![n] = holder]

WrongHlistUnlink(l, n) ==
  [l EXCEPT !.pointer = [l.pointer EXCEPT ![l.pprev[n]] = l.pointer[n]]]

HlistUnlink(l, n) ==
  [pointer |-> [l.pointer EXCEPT ![l.pprev[n]] = l.pointer[n]],
   pprev |-> Backward(l.pprev, l.pointer[n], l.pprev[n])]

HlistDel(l, n) ==
  LET m == HlistUnlink(l, n)
  IN [pointer |-> [m.pointer EXCEPT ![n] = HPoison1], pprev |-> [m.pprev EXCEPT ![n] = HPoison2]]

HlistDelInit(l, n) == IF HlistUnhashed(l, n) THEN l ELSE InitHlistNode(HlistUnlink(l, n), n)

HlistAddHead(l, n, h) ==
  LET first == l.pointer[h]
  IN [pointer |-> [l.pointer EXCEPT ![n] = first, ![h] = n],
      pprev |-> [Backward(l.pprev, first, n) EXCEPT ![n] = h]]

HlistAddBefore(l, n, next) ==
  LET holder == l.pprev[next]
  IN [pointer |-> [l.pointer EXCEPT ![n] = next, ![holder] = n],
      pprev |-> [l.pprev EXCEPT ![n] = holder, ![next] = n]]

HlistAddBehind(l, n, prev) ==
  LET next == l.pointer[prev]
  IN [pointer |-> [l.pointer EXCEPT ![n] = next, ![prev] = n],
      pprev |-> Backward([l.pprev EXCEPT ![n] = prev], next, n)]

HlistAddFake(l, n) == [l EXCEPT !.pprev = [l.pprev EXCEPT ![n] = n]]

HlistFake(l, n) == l.pprev[n] = n

HlistIsSingularNode(l, n, h) == l.pointer[n] = HNull /\ l.pprev[n] = h

HlistMoveList(l, old, new) ==
  LET first == l.pointer[old]
  IN [pointer |-> [l.pointer EXCEPT ![new] = first, ![old] = HNull],
      pprev |-> Backward(l.pprev, first, new)]

(***************************************************************************)
(* The calls, and what they mean on sequences.                             *)
(***************************************************************************)
HWithout(s, i) == SubSeq(s, 1, i - 1) \o SubSeq(s, i + 1, Len(s))

HInserted(s, i, n) == SubSeq(s, 1, i - 1) \o <<n>> \o SubSeq(s, i, Len(s))

Hashed == fake \cup UNION {{hlists[h][i] : i \in 1 .. Len(hlists[h])} : h \in HlistHead}

Unhashed == HlistNode \ Hashed

HlistInit ==
  /\ hlinks = [pointer |-> [c \in Holder |-> HNull], pprev |-> [n \in HlistNode |-> HNull]]
  /\ hlists = [h \in HlistHead |-> <<>>]
  /\ fake = {}

AddHead(h, n) ==
  /\ hlinks' = HlistAddHead(hlinks, n, h)
  /\ hlists' = [hlists EXCEPT ![h] = HInserted(hlists[h], 1, n)]
  /\ UNCHANGED fake

AddBefore(h, i, n) ==
  /\ hlinks' = HlistAddBefore(hlinks, n, hlists[h][i])
  /\ hlists' = [hlists EXCEPT ![h] = HInserted(hlists[h], i, n)]
  /\ UNCHANGED fake

AddBehind(h, i, n) ==
  /\ hlinks' = HlistAddBehind(hlinks, n, hlists[h][i])
  /\ hlists' = [hlists EXCEPT ![h] = HInserted(hlists[h], i + 1, n)]
  /\ UNCHANGED fake

HDelete(h, i) ==
  /\ hlinks' \in {HlistDel(hlinks, hlists[h][i]), HlistDelInit(hlinks, hlists[h][i])}
  /\ hlists' = [hlists EXCEPT ![h] = HWithout(hlists[h], i)]
  /\ UNCHANGED fake

(* Deleting a node that says it is on no list, which hlist_del_init may.   *)
DeleteUnhashed(n) ==
  /\ HlistUnhashed(hlinks, n)
  /\ hlinks' = HlistDelInit(hlinks, n)
  /\ UNCHANGED <<hlists, fake>>

(* Only a node whose next is NULL can be faked and later deleted.          *)
AddFake(n) ==
  /\ hlinks.pointer[n] = HNull
  /\ hlinks' = HlistAddFake(hlinks, n)
  /\ fake' = fake \cup {n}
  /\ UNCHANGED hlists

DeleteFake(n) ==
  /\ hlinks' \in {HlistDel(hlinks, n), HlistDelInit(hlinks, n)}
  /\ fake' = fake \ {n}
  /\ UNCHANGED hlists

MoveList(h, g) ==
  /\ hlinks' = HlistMoveList(hlinks, h, g)
  /\ hlists' = [hlists EXCEPT ![g] = hlists[h], ![h] = <<>>]
  /\ UNCHANGED fake

InitNode(n) ==
  /\ hlinks' = InitHlistNode(hlinks, n)
  /\ UNCHANGED <<hlists, fake>>

HlistNext ==
  \/ \E n \in Unhashed : InitNode(n) \/ AddFake(n) \/ DeleteUnhashed(n)
  \/ \E n \in fake : DeleteFake(n)
  \/ \E h \in HlistHead :
       \/ \E n \in Unhashed : AddHead(h, n)
       \/ \E g \in HlistHead \ {h} : MoveList(h, g)
       \/ \E i \in 1 .. Len(hlists[h]) :
            \/ HDelete(h, i)
            \/ \E n \in Unhashed : AddBefore(h, i, n) \/ AddBehind(h, i, n)

HlistSpec == HlistInit /\ [][HlistNext]_hlistVars

-----------------------------------------------------------------------------
(* The i-th holder of list s of head h: h, then the nodes, then NULL.      *)
HAt(h, s, i) == IF i = 0 THEN h ELSE IF i \in 1 .. Len(s) THEN s[i] ELSE HNull

HRepresents(l, h, s) ==
  /\ \A i \in 0 .. Len(s) : l.pointer[HAt(h, s, i)] = HAt(h, s, i + 1)
  /\ \A i \in 1 .. Len(s) : l.pprev[s[i]] = HAt(h, s, i - 1)

(***************************************************************************)
(* After any sequence of calls each head leads to exactly the nodes, in    *)
(* the order, that the calls mean on sequences; every pprev is the address *)
(* of the pointer that leads to the node; and the questions hlist_fake and *)
(* hlist_is_singular_node, which look at one pointer without a walk, are   *)
(* answered rightly.  list.h lines 689-796, where a node may be the first, *)
(* the last, or its own predecessor.                                       *)
(***************************************************************************)
HlistsLinked ==
  /\ \A h \in HlistHead : HRepresents(hlinks, h, hlists[h])
  /\ \A n \in Hashed :
       /\ HlistFake(hlinks, n) <=> n \in fake
       /\ \A h \in HlistHead : HlistIsSingularNode(hlinks, n, h) <=> hlists[h] = <<n>>
=============================================================================
