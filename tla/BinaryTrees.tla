---------------------------- MODULE BinaryTrees -----------------------------
(***************************************************************************)
(* What the two red-black trees of data_structure/ have to look like.  A   *)
(* tree is a root and, for both sides, the links of its nodes.             *)
(***************************************************************************)
EXTENDS Integers, Sequences, FiniteSets, SequencesExt

CONSTANT Nil  \* the null pointer

Sides == {"left", "right"}
Opposite(side) == IF side = "left" THEN "right" ELSE "left"

Children(link, n) == {link[s][n] : s \in Sides} \ {Nil}

(* No walk along the links of the nodes runs for ever: what can be settled *)
(* from the leaves upwards is everything.                                  *)
Loopless(link, nodes) ==
  LET settled[S \in SUBSET nodes] ==
        LET T == {n \in nodes : Children(link, n) \subseteq S}
        IN IF T = S THEN S ELSE settled[T]
  IN settled[{}] = nodes

(* The following are meant for links without a loop.                       *)
RECURSIVE Inorder(_, _), Postorder(_, _), BlackHeights(_, _, _)

Inorder(link, n) ==
  IF n = Nil THEN <<>>
  ELSE Inorder(link, link["left"][n]) \o <<n>> \o Inorder(link, link["right"][n])

Postorder(link, n) ==
  IF n = Nil THEN <<>>
  ELSE Postorder(link, link["left"][n]) \o Postorder(link, link["right"][n]) \o <<n>>

(* How many black nodes the paths from n down to a null link have.         *)
BlackHeights(link, red, n) ==
  IF n = Nil THEN {0}
  ELSE {h + (IF n \in red THEN 0 ELSE 1) :
          h \in UNION {BlackHeights(link, red, link[s][n]) : s \in Sides}}

(* The five rules of a red-black tree (rbtree.c:31-40).                    *)
RedBlack(link, red, root) ==
  LET nodes == ToSet(Inorder(link, root))
  IN /\ root \notin red
     /\ \A n \in nodes \cap red : Children(link, n) \cap red = {}
     /\ Cardinality(BlackHeights(link, red, root)) = 1
=============================================================================
