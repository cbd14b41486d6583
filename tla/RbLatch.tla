------------------------------ MODULE RbLatch -------------------------------
(***************************************************************************)
(* The users of RbTree: one tree whose caller inserts, erases and replaces *)
(* entries, or two under a latch (rbtree_latch.h) with a reader that takes *)
(* no lock.  A call's stores reach memory one at a time, in program order. *)
(* seqcount_t and its barriers are not in the repository: they are taken   *)
(* to be the counter and the order their names say.                        *)
(***************************************************************************)
EXTENDS RbTree

CONSTANT Idle  \* no call is running, no lookup either

VARIABLES latched,  \* two trees and a reader, or one tree
          usable,   \* bound: the entries the running callers use
          tree,     \* each tree after the running call; log has its stores
          mem,      \* links and root of tree[0] and tree[1] in memory
          copy,     \* the tree the call is storing to
          done,     \* how many of its stores are done
          target,   \* the entry the call is about
          odd,      \* seq & 1
          reader    \* latch_tree_find

rbVars == <<latched, usable, tree, mem, copy, done, target, odd, reader>>

(* key: what is looked up; at: the node the walk has got to; bumped: seq   *)
(* is no longer what it was; absent: at some time of the lookup no entry   *)
(* had the key; held: entries whose erasure had not ended when the lookup  *)
(* began, which RCU keeps from reuse (rbtree_latch.h:162).                 *)
NoLookup == [key |-> Idle, at |-> Idle, idx |-> 0, bumped |-> FALSE, absent |-> FALSE, held |-> {}]

(* Callers start with the tree t, inserted before. *)
RbInit(two, entries, t) ==
  /\ latched = two /\ usable = entries
  /\ tree = [t EXCEPT !.log = <<>>]
  /\ mem = [c \in 0 .. 1 |-> [root |-> t.root, link |-> t.link]]
  /\ copy = Idle /\ done = 0 /\ target = Nil /\ odd = 0
  /\ reader = NoLookup

Members(t) == ToSet(Inorder(t.link, t.root))
Looking == reader # NoLookup

(* Entries that are in both trees for certain.                             *)
Settled == Members(tree) \ {target}
HasKey(entries, k) == \E n \in entries : Key[n] = k

-----------------------------------------------------------------------------
(* A writer's calls; calls of writers are serialized (rbtree_latch.h:165). *)
(* raw_write_seqcount_latch turns readers to the tree not written to.      *)
WrongBumped == reader
Bumped == IF Looking THEN [reader EXCEPT !.bumped = TRUE] ELSE reader

Turn ==
  IF latched THEN odd' = 1 - odd /\ reader' = Bumped
  ELSE UNCHANGED <<odd, reader>>

(* The call computes t from tree; its stores are still to be done.         *)
Call(t, n) ==
  /\ target' = n /\ copy' = 0 /\ done' = 0
  /\ tree' = t
  /\ UNCHANGED <<latched, usable, mem>>

(* latch_tree_insert, or the insertion into one tree *)
Insert(n) ==
  /\ copy = Idle /\ n \notin Members(tree) \cup reader.held
  /\ Call(RbInsert(tree, n), n)
  /\ Turn

(* latch_tree_erase, rb_erase *)
Erase(n) ==
  /\ copy = Idle /\ n \in Members(tree)
  /\ Call(RbErase(tree, n), n)
  /\ IF latched
     THEN /\ odd' = 1 - odd
          /\ reader' = IF ~Looking THEN reader
                       ELSE [Bumped EXCEPT !.held = @ \cup {n},
                               !.absent = @ \/ ~HasKey(Members(tree) \ {n}, reader.key)]
     ELSE UNCHANGED <<odd, reader>>

Replace(old, new) ==
  /\ copy = Idle /\ ~latched
  /\ old \in Members(tree) /\ new \notin Members(tree)
  /\ Key[old] = Key[new] /\ Val[old] = Val[new]
  /\ Call(RbReplace(tree, old, new), old)
  /\ UNCHANGED <<odd, reader>>

Stored(m, store) ==
  IF store.at = Nil THEN [m EXCEPT !.root = store.to]
  ELSE [m EXCEPT !.link[store.side][store.at] = store.to]

Store ==
  /\ copy # Idle /\ done < Len(tree.log)
  /\ mem' = [mem EXCEPT ![copy] = Stored(@, tree.log[done + 1])]
  /\ done' = done + 1
  /\ UNCHANGED <<latched, usable, tree, copy, target, odd, reader>>

(* The same call on tree[1], which looks as tree[0] did: the same stores.  *)
SecondTree ==
  /\ latched /\ copy = 0 /\ done = Len(tree.log)
  /\ copy' = 1 /\ done' = 0
  /\ Turn
  /\ UNCHANGED <<latched, usable, tree, mem, target>>

(* What nobody can reach any more is its owner's again.                    *)
Reclaimed(m, kept) ==
  [m EXCEPT !.link = [s \in Sides |-> [n \in Node |-> IF n \in kept THEN @[s][n] ELSE Nil]]]

Return ==
  /\ copy = (IF latched THEN 1 ELSE 0) /\ done = Len(tree.log)
  /\ copy' = Idle /\ done' = 0 /\ target' = Nil
  /\ tree' = [tree EXCEPT !.log = <<>>]
  /\ mem' = [c \in 0 .. 1 |-> Reclaimed(mem[c], Members(tree) \cup reader.held)]
  /\ UNCHANGED <<latched, usable, odd, reader>>

-----------------------------------------------------------------------------
(* latch_tree_find: read seq, walk down the tree it names, read seq again. *)
LookupStart(k) ==
  /\ latched /\ ~Looking
  /\ reader' = [key |-> k, at |-> Idle, idx |-> odd, bumped |-> FALSE,
                absent |-> ~HasKey(Settled, k),
                held |-> {target} \ (Members(tree) \cup {Nil})]
  /\ UNCHANGED <<latched, usable, tree, mem, copy, done, target, odd>>

Found == reader.at \in {Nil} \cup {n \in Node : Key[n] = reader.key}

ReadRoot ==
  /\ Looking /\ reader.at = Idle
  /\ reader' = [reader EXCEPT !.at = mem[reader.idx].root]
  /\ UNCHANGED <<latched, usable, tree, mem, copy, done, target, odd>>

ReadLink ==
  /\ Looking /\ reader.at # Idle /\ ~Found
  /\ LET side == IF reader.key < Key[reader.at] THEN "left" ELSE "right"
     IN reader' = [reader EXCEPT !.at = mem[reader.idx].link[side][reader.at]]
  /\ UNCHANGED <<latched, usable, tree, mem, copy, done, target, odd>>

LookupEnd ==
  /\ Looking /\ Found
  /\ IF reader.bumped
     THEN /\ reader' = [reader EXCEPT !.at = Idle, !.idx = odd, !.bumped = FALSE]
          /\ UNCHANGED mem
     ELSE /\ reader' = NoLookup
          /\ mem' = IF copy # Idle THEN mem
                    ELSE [c \in 0 .. 1 |-> Reclaimed(mem[c], Members(tree))]
  /\ UNCHANGED <<latched, usable, tree, copy, done, target, odd>>

RbNext ==
  \/ \E n \in usable : Insert(n) \/ Erase(n)
  \/ \E old, new \in usable : Replace(old, new)
  \/ Store \/ SecondTree \/ Return
  \/ \E n \in usable : LookupStart(Key[n])
  \/ ReadRoot \/ ReadLink \/ LookupEnd

-----------------------------------------------------------------------------
(* Type invariant, and that memory holds between the calls what the last   *)
(* of them was to make of it, in both trees of a latch.                    *)
RbTypeOK ==
  /\ latched \in BOOLEAN /\ usable \subseteq Node
  /\ {tree.root, tree.leftmost} \subseteq Node \cup {Nil}
  /\ tree.link \in [Sides -> [Node -> Node \cup {Nil}]]
  /\ tree.parent \in [Node -> Node \cup {Nil}]
  /\ tree.red \subseteq Node /\ tree.aug \in [Node -> Nat]
  /\ \A c \in 0 .. 1 : mem[c].link \in [Sides -> [Node -> Node \cup {Nil}]]
  /\ copy \in {Idle, 0, 1} /\ done \in 0 .. Len(tree.log)
  /\ target \in Node \cup {Nil} /\ odd \in 0 .. 1
  /\ reader.at \in Node \cup {Nil, Idle} /\ reader.held \subseteq usable
  /\ copy = Idle => \A c \in IF latched THEN {0, 1} ELSE {0} :
       /\ mem[c].root = tree.root
       /\ \A s \in Sides, n \in Node : tree.link[s][n] \in {Nil, mem[c].link[s][n]}

(* rbtree.c:50-60: "we must not inadvertently cause (temporary) loops in   *)
(* the tree structure": after every single store a lookup without a lock   *)
(* still comes to an end, from wherever it is, erased entries included.    *)
StoresLoopless == \A c \in 0 .. 1 : Loopless(mem[c].link, Node)

(* rbtree.c:31-40 and the callers' order: after any sequence of calls the  *)
(* tree is a sorted red-black tree.                                        *)
RbBalanced ==
  copy = Idle =>
    /\ Loopless(tree.link, Node)
    /\ RedBlack(tree.link, tree.red, tree.root)
    /\ IsSorted(Inorder(tree.link, tree.root), LAMBDA a, b : Key[a] <= Key[b])

(* rbtree.c:502-676: the walks of rb_first, rb_last, rb_next, rb_prev and  *)
(* the postorder ones, which go up by parent pointers rebalancing has      *)
(* moved about, meet every entry once, in order; rb_leftmost is rb_first.  *)
RbWalks ==
  copy = Idle /\ Loopless(tree.link, Node) =>
    LET in == Inorder(tree.link, tree.root)
        post == Postorder(tree.link, tree.root)
        Last1(s) == IF s = <<>> THEN Nil ELSE s[Len(s)]
        At(s, i) == IF i \in DOMAIN s THEN s[i] ELSE Nil
    IN /\ \A n \in ToSet(in) : tree.parent[n] = Nil <=> n = tree.root
       /\ \A n \in ToSet(in) : \A c \in Children(tree.link, n) : tree.parent[c] = n
       /\ Extreme(tree, "left") = At(in, 1) /\ tree.leftmost = At(in, 1)
       /\ Extreme(tree, "right") = Last1(in)
       /\ \A i \in DOMAIN in : /\ Neighbour(tree, in[i], "right") = At(in, i + 1)
                               /\ Neighbour(tree, in[i], "left") = At(in, i - 1)
       /\ FirstPostorder(tree) = At(post, 1)
       /\ \A i \in DOMAIN post : NextPostorder(tree, post[i]) = At(post, i + 1)

(* rbtree_augmented.h: rotations, the successor's move and the propagation *)
(* leave each node with the largest value of its subtree.                  *)
AugmentedExact ==
  copy = Idle /\ Loopless(tree.link, Node) =>
    \A n \in Members(tree) :
      tree.aug[n] = Max({Val[m] : m \in ToSet(Inorder(tree.link, n))})

(* Links, colours, parents, leftmost and augmented values between calls.   *)
RbWellFormed == RbTypeOK /\ RbBalanced /\ RbWalks /\ AugmentedExact

(* A call adds or removes its entry, puts it behind those of equal key,    *)
(* and leaves the order of all others as it was.                           *)
RbContents ==
  [][LET before == Inorder(tree.link, tree.root)
         after == Inorder(tree'.link, tree'.root)
     IN /\ \A n \in usable : Insert(n) =>
             \E i \in 1 .. Len(after) :
               /\ after[i] = n /\ RemoveAt(after, i) = before
               /\ \A j \in i + 1 .. Len(after) : Key[after[j]] > Key[n]
        /\ \A n \in usable : Erase(n) => after = Remove(before, n)
        /\ \A old, new \in usable : Replace(old, new) => after = ReplaceAll(before, old, new)]_rbVars

(* rbtree_latch.h:16-28: a lookup, whatever is stored while it walks, only *)
(* meets entries that are in the trees or may still be read; one that      *)
(* returns an entry returns one with the key; one that returns null does   *)
(* so only if there was no such entry at some time while it ran.           *)
LookupTrue ==
  Looking =>
    /\ reader.at \in Members(tree) \cup reader.held \cup {target, Nil, Idle}
    /\ (reader.at = Nil /\ ~reader.bumped) => reader.absent
=============================================================================
