----------------------------- MODULE MCOrdered ------------------------------
(***************************************************************************)
(* Instances of SkipList, JswTree and RbLatch for TLC.  The structures     *)
(* have nothing to do with each other: a behaviour is of one of them, the  *)
(* others stay as they are created.                                        *)
(***************************************************************************)
EXTENDS SkipList, JswTree, RbLatch

CONSTANTS TreeNode,  \* bound: the entries of one tree
          EndNode,   \* bound: the entries used of a tree of them all
          LatchNode  \* bound: the entries under a latch

VARIABLE subject

structures == <<zsl, jsw, latched, usable, tree, mem, copy, done, target, odd, reader>>

(* Trees of all entries, high enough for an erasure to be mended two       *)
(* levels up: inserted upwards, downwards, and from both ends.             *)
Count == Cardinality(Node)
Upwards == [i \in 1 .. Count |-> i]
Downwards == [i \in 1 .. Count |-> Count + 1 - i]
Inwards == [i \in 1 .. Count |-> IF i % 2 = 1 THEN (i + 1) \div 2 ELSE Count + 1 - i \div 2]
FullTree(order) == FoldLeft(RbInsert, EmptyTree, order)

Init ==
  /\ SkipInit /\ JswInit
  /\ \/ subject \in {"skiplist", "jsw", "rbtree"} /\ RbInit(FALSE, TreeNode, EmptyTree)
     \/ /\ subject = "rbtree"
        /\ \E order \in {Upwards, Downwards, Inwards} : RbInit(FALSE, EndNode, FullTree(order))
     \/ subject = "latch" /\ RbInit(TRUE, LatchNode, EmptyTree)

Next ==
  /\ UNCHANGED subject
  /\ \/ subject = "skiplist" /\ SkipNext /\ UNCHANGED <<jsw, rbVars>>
     \/ subject = "jsw" /\ JswNext /\ UNCHANGED <<zsl, rbVars>>
     \/ subject \in {"rbtree", "latch"} /\ RbNext /\ UNCHANGED <<zsl, jsw>>

Spec == Init /\ [][Next]_<<subject, structures>>

(* The calls are tried on the lists of the behaviours that are about them. *)
ListAsList == subject = "skiplist" => SkipAsList

(***************************************************************************)
(* After any sequence of calls each structure is well formed: see the      *)
(* parts' own definitions.                                                 *)
(***************************************************************************)
WellFormed == SkipWellFormed /\ JswWellFormed /\ RbWellFormed

(***************************************************************************)
(* A call on either tree adds or removes what it was given, nothing else.  *)
(***************************************************************************)
Contents == JswContents /\ RbContents

(* Two elements compare equal; probes lie between scores and on them.      *)
MCScore == [x \in Item |-> IF x <= 2 THEN 2 ELSE 2 * (x - 1)]

(* Two entries have equal keys and values; values do not follow keys.      *)
MCKey == [n \in Node |-> IF n <= 2 THEN 1 ELSE n]
MCVal == [n \in Node |-> (3 * ((n + 1) \div 2)) % 5]
=============================================================================
