------------------------------- MODULE RbTree -------------------------------
(***************************************************************************)
(* The red-black tree of data_structure/kernel_struct (rbtree.c, rbtree.h, *)
(* rbtree_augmented.h) as a value, and its functions as operators.  Beside *)
(* the tree an operator records, in log, the stores to links and root it   *)
(* makes, in program order: readers without a lock see them one at a time. *)
(* The code's mirrored branches are one, for a side and its opposite.      *)
(***************************************************************************)
EXTENDS BinaryTrees, FiniteSetsExt

CONSTANTS Node,  \* the entries callers own, each with an rb_node in it
          Key,   \* an entry's key; entries may have equal keys
          Val    \* an entry's value; aug is the largest in a subtree

ASSUME RbAssumption == Key \in [Node -> Nat] /\ Val \in [Node -> Nat] /\ Nil \notin Node

NoLinks == [s \in Sides |-> [n \in Node |-> Nil]]

(* red is the set of red nodes, the colour bit of __rb_parent_color.       *)
EmptyTree ==
  [root |-> Nil, leftmost |-> Nil, link |-> NoLinks, parent |-> [n \in Node |-> Nil],
   red |-> {}, aug |-> [n \in Node |-> 0], log |-> <<>>]

-----------------------------------------------------------------------------
(* Stores. *)
SetLink(t, n, side, to) ==
  [t EXCEPT !.link[side][n] = to, !.log = Append(@, [at |-> n, side |-> side, to |-> to])]

SetRoot(t, to) ==
  [t EXCEPT !.root = to, !.log = Append(@, [at |-> Nil, side |-> "root", to |-> to])]

WrongSetParent(t, n, p) == t
SetParent(t, n, p) == [t EXCEPT !.parent[n] = p]

SetParentColor(t, n, p, color) ==
  [t EXCEPT !.parent[n] = p,
            !.red = IF color = "red" THEN @ \cup {n} ELSE @ \ {n}]

SetBlack(t, n) == [t EXCEPT !.red = @ \ {n}]
ColorOf(t, n) == IF n \in t.red THEN "red" ELSE "black"

(* new gets the __rb_parent_color of old. *)
CopyParentColor(t, old, new) == SetParentColor(t, new, t.parent[old], ColorOf(t, old))

(* if (n) rb_set_parent_color(n, p, RB_BLACK) *)
AdoptBlack(t, n, p) == IF n = Nil THEN t ELSE SetParentColor(t, n, p, "black")

SideOf(t, n, p) == IF t.link["left"][p] = n THEN "left" ELSE "right"

ChangeChild(t, old, new, p) ==
  IF p = Nil THEN SetRoot(t, new) ELSE SetLink(t, p, SideOf(t, old, p), new)

RotateSetParents(t, old, new, color) ==
  LET p == t.parent[old]
  IN ChangeChild(SetParentColor(CopyParentColor(t, old, new), old, new, color), old, new, p)

-----------------------------------------------------------------------------
(* The augmented value: the callbacks RB_DECLARE_CALLBACKS makes of        *)
(* rbtree_test.c's augment_recompute.                                      *)
AugOf(t, n) == Max({Val[n]} \cup {t.aug[c] : c \in Children(t.link, n)})

AugCopy(t, old, new) == [t EXCEPT !.aug[new] = t.aug[old]]

AugRotate(t, old, new) ==
  LET copied == AugCopy(t, old, new) IN [copied EXCEPT !.aug[old] = AugOf(copied, old)]

RECURSIVE AugPropagate(_, _, _)
AugPropagate(t, n, stop) ==
  IF n = stop \/ AugOf(t, n) = t.aug[n] THEN t
  ELSE AugPropagate([t EXCEPT !.aug[n] = AugOf(t, n)], t.parent[n], stop)

-----------------------------------------------------------------------------
(* Left rotation at n for side = "left", right rotation for "right": as    *)
(* the code writes it everywhere, its opposite child is returned to it     *)
(* first, then n is hung under that child; parents and colours follow.     *)
WrongRotateLinks(t, n, up, side) ==
  SetLink(SetLink(t, up, side, n), n, Opposite(side), t.link[side][up])
RotateLinks(t, n, up, side) ==
  SetLink(SetLink(t, n, Opposite(side), t.link[side][up]), up, side, n)

(* __rb_insert from the red node n with parent p. *)
RECURSIVE InsertColor(_, _, _)
InsertColor(t, n, p) ==
  IF p = Nil THEN SetParentColor(t, n, Nil, "black")
  ELSE IF p \notin t.red THEN t
  ELSE
  LET g == t.parent[p]
      side == IF p # t.link["right"][g] THEN "left" ELSE "right"
      uncle == t.link[Opposite(side)][g]
  IN IF uncle # Nil /\ uncle \in t.red
     THEN LET flipped == SetParentColor(SetParentColor(t, uncle, g, "black"), p, g, "black")
              up == t.parent[g]
          IN InsertColor(SetParentColor(flipped, g, up, "red"), g, up)
     ELSE LET inner == n = t.link[Opposite(side)][p]
              mid == t.link[side][n]
              case2 == IF ~inner THEN t
                       ELSE AugRotate(SetParentColor(AdoptBlack(RotateLinks(t, p, n, side), mid, p),
                                                     p, n, "red"), p, n)
              top == IF inner THEN n ELSE p
              moved == case2.link[Opposite(side)][top]
              case3 == AdoptBlack(RotateLinks(case2, g, top, Opposite(side)), moved, g)
          IN AugRotate(RotateSetParents(case3, g, top, "red"), g, top)

RbLink(t, n, p, side) ==
  LET fresh == [t EXCEPT !.link["left"][n] = Nil, !.link["right"][n] = Nil,
                         !.log = @ \o <<[at |-> n, side |-> "left", to |-> Nil],
                                        [at |-> n, side |-> "right", to |-> Nil]>>]
      red == SetParentColor(fresh, n, p, "red")
  IN IF p = Nil THEN SetRoot(red, n) ELSE SetLink(red, p, side, n)

(* The order of the callers' insert functions and of less *)
GoesLeft(n, p) == Key[n] < Key[p]

(* Their walk: where n belongs, and whether it went left all the way.      *)
RECURSIVE PlaceOf(_, _, _, _)
PlaceOf(t, n, p, leftmost) ==
  LET side == IF GoesLeft(n, p) THEN "left" ELSE "right"
      next == t.link[side][p]
      first == leftmost /\ side = "left"
  IN IF next = Nil THEN [parent |-> p, side |-> side, leftmost |-> first]
     ELSE PlaceOf(t, n, next, first)

Place(t, n) ==
  IF t.root = Nil THEN [parent |-> Nil, side |-> "root", leftmost |-> TRUE]
  ELSE PlaceOf(t, n, t.root, TRUE)

(* On its way down an augmented insertion raises the values it passes.     *)
RECURSIVE Passed(_, _)
Passed(t, p) == IF p = Nil THEN {} ELSE {p} \cup Passed(t, t.parent[p])

RbInsert(t, n) ==
  LET place == Place(t, n)
      raised == [m \in Node |-> IF m = n THEN Val[n]
                                ELSE IF m \in Passed(t, place.parent) THEN Max({t.aug[m], Val[n]})
                                ELSE t.aug[m]]
      linked == RbLink([t EXCEPT !.aug = raised, !.log = <<>>], n, place.parent, place.side)
      first == [linked EXCEPT !.leftmost = IF place.leftmost THEN n ELSE @]
  IN InsertColor(first, n, place.parent)

-----------------------------------------------------------------------------
(* Walks. *)
RECURSIVE Deepest(_, _, _), ClimbFrom(_, _, _), LeftDeepest(_, _)

Deepest(t, n, side) == IF t.link[side][n] = Nil THEN n ELSE Deepest(t, t.link[side][n], side)

ClimbFrom(t, n, side) ==
  LET p == t.parent[n]
  IN IF p # Nil /\ n = t.link[side][p] THEN ClimbFrom(t, p, side) ELSE p

(* rb_next for side = "right", rb_prev for "left". *)
Neighbour(t, n, side) ==
  IF t.link[side][n] # Nil THEN Deepest(t, t.link[side][n], Opposite(side))
  ELSE ClimbFrom(t, n, side)

(* rb_first and rb_last *)
Extreme(t, side) == IF t.root = Nil THEN Nil ELSE Deepest(t, t.root, side)

LeftDeepest(t, n) ==
  IF t.link["left"][n] # Nil THEN LeftDeepest(t, t.link["left"][n])
  ELSE IF t.link["right"][n] # Nil THEN LeftDeepest(t, t.link["right"][n])
  ELSE n

FirstPostorder(t) == IF t.root = Nil THEN Nil ELSE LeftDeepest(t, t.root)

NextPostorder(t, n) ==
  LET p == t.parent[n]
  IN IF p # Nil /\ n = t.link["left"][p] /\ t.link["right"][p] # Nil
     THEN LeftDeepest(t, t.link["right"][p])
     ELSE p

-----------------------------------------------------------------------------
(* ____rb_erase_color: the paths through p and its child n are one black   *)
(* node short.                                                             *)
RECURSIVE EraseColor(_, _, _)
EraseColor(t, n, p) ==
  LET side == IF n # t.link["right"][p] THEN "left" ELSE "right"
      other == Opposite(side)
      Black(m) == m = Nil \/ m \notin t.red
      s0 == t.link[other][p]
      between == t.link[side][s0]
      case1 == IF Black(s0) THEN t
               ELSE AugRotate(RotateSetParents(SetParentColor(RotateLinks(t, p, s0, side),
                                                              between, p, "black"),
                                               p, s0, "red"), p, s0)
      sibling == IF Black(s0) THEN s0 ELSE between
      far == case1.link[other][sibling]
      near == case1.link[side][sibling]
      flipped == SetParentColor(case1, sibling, p, "red")
      case3 == IF ~Black(far) THEN case1
               ELSE AugRotate(AdoptBlack(SetLink(RotateLinks(case1, sibling, near, other), p, other, near),
                                         case1.link[other][near], sibling), sibling, near)
      top == IF Black(far) THEN near ELSE sibling
      outer == IF Black(far) THEN sibling ELSE far
      moved == case3.link[side][top]
      hung == SetParentColor(RotateLinks(case3, p, top, side), outer, top, "black")
      kept == IF moved = Nil THEN hung ELSE SetParent(hung, moved, p)
  IN IF Black(far) /\ Black(near)
     THEN IF p \in flipped.red THEN SetBlack(flipped, p)
          ELSE IF flipped.parent[p] = Nil THEN flipped
          ELSE EraseColor(flipped, p, flipped.parent[p])
     ELSE AugRotate(RotateSetParents(kept, p, top, "black"), p, top)

(* __rb_erase_augmented for a node with at most one child: the tree, and   *)
(* the node below which a black one is missing now.                        *)
EraseShallow(t, n) ==
  LET left == t.link["left"][n]
      child == IF left = Nil THEN t.link["right"][n] ELSE left
      p == t.parent[n]
      cut == ChangeChild(t, n, child, p)
      done == IF child = Nil THEN cut ELSE CopyParentColor(cut, n, child)
  IN [tree |-> AugPropagate(done, p, Nil),
      short |-> IF child = Nil /\ n \notin t.red THEN p ELSE Nil]

(* The same for one with two: its successor takes its place.               *)
EraseDeep(t, n) ==
  LET right == t.link["right"][n]
      s == Deepest(t, right, "left")
      child2 == t.link["right"][s]
      p == IF s = right THEN s ELSE CHOOSE m \in Node : t.link["left"][m] = s
      taken == IF s = right THEN AugCopy(t, n, s)
               ELSE AugPropagate(
                      AugCopy(SetParent(SetLink(SetLink(t, p, "left", child2), s, "right", right),
                                        right, s), n, s), p, s)
      left == t.link["left"][n]
      joined == ChangeChild(SetParent(SetLink(taken, s, "left", left), left, s), n, s, t.parent[n])
      colored == AdoptBlack(CopyParentColor(joined, n, s), child2, p)
  IN [tree |-> AugPropagate(colored, s, Nil),
      short |-> IF child2 = Nil /\ s \notin joined.red THEN p ELSE Nil]

(* rb_erase_augmented_cached, with ____rb_erase_color.  What is left in the *)
(* erased node is not kept.                                                *)
RbErase(t, n) ==
  LET first == [t EXCEPT !.leftmost = IF n = @ THEN Neighbour(t, n, "right") ELSE @, !.log = <<>>]
      cut == IF Nil \in {t.link[s][n] : s \in Sides} THEN EraseShallow(first, n) ELSE EraseDeep(first, n)
      done == IF cut.short = Nil THEN cut.tree ELSE EraseColor(cut.tree, Nil, cut.short)
  IN [done EXCEPT !.link["left"][n] = Nil, !.link["right"][n] = Nil, !.parent[n] = Nil,
                  !.red = @ \ {n}, !.aug[n] = 0]

(* rb_replace_node_cached and rb_replace_node_rcu: new takes the place of  *)
(* old; the caller has copied the rest of the entry.                       *)
RbReplace(t, old, new) ==
  LET copied == SetLink(SetLink([CopyParentColor(t, old, new) EXCEPT !.aug[new] = t.aug[old], !.log = <<>>],
                                new, "right", t.link["right"][old]), new, "left", t.link["left"][old])
      adopted == [copied EXCEPT !.parent = [m \in Node |->
                    IF m \in Children(t.link, old) THEN new ELSE @[m]]]
      done == ChangeChild(adopted, old, new, t.parent[old])
  IN [done EXCEPT !.leftmost = IF @ = old THEN new ELSE @,
                  !.link["left"][old] = Nil, !.link["right"][old] = Nil, !.parent[old] = Nil,
                  !.red = @ \ {old}, !.aug[old] = 0]
=============================================================================
