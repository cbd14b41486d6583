------------------------------ MODULE JswTree -------------------------------
(***************************************************************************)
(* The red-black tree of data_structure/red_black/jsw_rbtree.c, which      *)
(* rebalances on its way down and keeps no parent pointers: insertion,     *)
(* removal, search, the traversals and the release of the whole tree.      *)
(* A node is named after the data it holds, which is what removal relies   *)
(* on when it moves the data of one node into another.                     *)
(***************************************************************************)
EXTENDS BinaryTrees

CONSTANTS Data,      \* what is stored, compared as numbers
          False,     \* the false root of insertion and removal, head in the code
          MaxDrift   \* bound: how far size is off the number of nodes

ASSUME JswAssumption ==
  Data \subseteq Nat /\ False \notin Data /\ Nil \notin Data /\ MaxDrift \in Nat

VARIABLE jsw  \* root, link, red nodes, size

JswEmpty ==
  [root |-> Nil, link |-> [s \in Sides |-> [n \in Data \cup {False} |-> Nil]],
   red |-> {}, size |-> 0]

JswInit == jsw = JswEmpty

-----------------------------------------------------------------------------
(* link[cmp < 0], and the side of a child *)
Toward(n, x) == IF n < x THEN "right" ELSE "left"
SideIn(t, p, n) == IF t.link["right"][p] = n THEN "right" ELSE "left"

Hang(t, n, side, to) == [t EXCEPT !.link[side][n] = to]
Paint(t, n, red) == [t EXCEPT !.red = IF red THEN @ \cup {n} ELSE @ \ {n}]

(* A rotation gives the tree and the node that is on top afterwards. *)
JswSingle(t, n, dir) ==
  LET save == t.link[Opposite(dir)][n]
      moved == Hang(Hang(t, n, Opposite(dir), t.link[dir][save]), save, dir, n)
  IN [tree |-> Paint(Paint(moved, n, TRUE), save, FALSE), top |-> save]

JswDouble(t, n, dir) ==
  LET first == JswSingle(t, t.link[Opposite(dir)][n], Opposite(dir))
  IN JswSingle(Hang(first.tree, n, Opposite(dir), first.top), n, dir)

WithHead(t) == Hang(t, False, "right", t.root)

(* The root is read from the false one and painted black. *)
WithoutHead(t) ==
  LET root == t.link["right"][False]
  IN [Hang(t, False, "right", Nil) EXCEPT !.root = root, !.red = @ \ {root}]

-----------------------------------------------------------------------------
(* The loop of jsw_rbinsert: q below p below g below h (the code's t).     *)
RECURSIVE InsertDown(_, _, _)
InsertDown(t, x, at) ==
  LET fresh == at.q = Nil
      q == IF fresh THEN x ELSE at.q
      split == ~fresh /\ \A s \in Sides : t.link[s][q] \in t.red
      grown == IF fresh THEN Paint(Hang(t, at.p, at.dir, q), q, TRUE)
               ELSE IF split THEN [t EXCEPT !.red = (@ \ Children(t.link, q)) \cup {q}]
               ELSE t
      dir2 == SideIn(grown, at.h, at.g)
      turned == IF q = grown.link[at.last][at.p]
                THEN JswSingle(grown, at.g, Opposite(at.last))
                ELSE JswDouble(grown, at.g, Opposite(at.last))
      fixed == IF {q, at.p} \subseteq grown.red THEN Hang(turned.tree, at.h, dir2, turned.top)
               ELSE grown
      dir == Toward(q, x)
  IN IF q = x THEN fixed
     ELSE InsertDown(fixed, x,
            [h |-> IF at.g = Nil THEN at.h ELSE at.g, g |-> at.p, p |-> q,
             q |-> fixed.link[dir][q], dir |-> dir, last |-> at.dir])

JswInsert(t, x) ==
  LET down == IF t.root = Nil THEN [t EXCEPT !.root = x]
              ELSE WithoutHead(InsertDown(WithHead(t), x,
                     [h |-> False, g |-> Nil, p |-> Nil, q |-> t.root,
                      dir |-> "left", last |-> "left"]))
  IN [down EXCEPT !.size = @ + 1]

-----------------------------------------------------------------------------
(* Removal pushes a red node down: what it does at q, whose parent is p    *)
(* and grandparent g, before it goes on in direction dir.  It gives the    *)
(* tree and the parent of q afterwards; a rotation at q changes both.      *)
Lowered(t, p, q, last, dir) ==
  LET down == JswSingle(t, q, dir)
  IN [tree |-> Hang(down.tree, p, last, down.top), p |-> down.top]

Pushed(t, g, p, q, last, dir) ==
  LET s == t.link[Opposite(last)][p]
      turn == IF t.link[last][s] \in t.red THEN JswDouble(t, p, last) ELSE JswSingle(t, p, last)
      above == Hang(turn.tree, g, SideIn(t, g, p), turn.top)
  IN IF q \in t.red \/ t.link[dir][q] \in t.red THEN [tree |-> t, p |-> p]
     ELSE IF t.link[Opposite(dir)][q] \in t.red
     THEN Lowered(t, p, q, last, dir)
     ELSE IF s = Nil THEN [tree |-> t, p |-> p]
     ELSE IF \A d \in Sides : t.link[d][s] \notin t.red
     THEN [tree |-> [t EXCEPT !.red = (@ \ {p}) \cup {s, q}], p |-> p]
     ELSE [tree |-> [above EXCEPT !.red = (@ \cup {q, turn.top}) \ Children(above.link, turn.top)],
           p |-> p]

(* The loop of jsw_rberase ends at the node q that will be unlinked; found *)
(* is whether it has met the data (the code's f).                          *)
RECURSIVE EraseDown(_, _, _)
EraseDown(t, x, at) ==
  LET q == t.link[at.dir][at.q]
      dir == Toward(q, x)
      pushed == Pushed(t, at.p, at.q, q, at.dir, dir)
  IN IF q = Nil THEN [tree |-> t, p |-> at.p, q |-> at.q, found |-> at.found]
     ELSE EraseDown(pushed.tree, x,
                    [p |-> pushed.p, q |-> q, dir |-> dir, found |-> at.found \/ q = x])

(* q is unlinked, the node that holds x takes its data, and q is freed: q  *)
(* stands where x stood.                                                   *)
Unlinked(t, x, p, q) ==
  LET child == IF t.link["left"][q] = Nil THEN t.link["right"][q] ELSE t.link["left"][q]
      cut == Hang(t, p, SideIn(t, p, q), child)
  IN [cut EXCEPT
        !.link = [s \in Sides |-> [n \in Data \cup {False} |->
                   LET to == cut.link[s][IF n = q THEN x ELSE n]
                   IN IF n = x \/ (n = q /\ x = q) THEN Nil ELSE IF to = x THEN q ELSE to]],
        !.red = (@ \ {x, q}) \cup (IF x # q /\ x \in @ THEN {q} ELSE {})]

WrongJswErase(t, x) ==
  LET down == EraseDown(WithHead(t), x,
                        [p |-> Nil, q |-> False, dir |-> "right", found |-> FALSE])
  IN IF t.root = Nil THEN t
     ELSE [WithoutHead(Unlinked(down.tree, x, down.p, down.q)) EXCEPT !.size = @ - 1]
JswErase(t, x) ==
  LET down == EraseDown(WithHead(t), x,
                        [p |-> Nil, q |-> False, dir |-> "right", found |-> FALSE])
      left == IF down.found THEN Unlinked(down.tree, x, down.p, down.q) ELSE down.tree
  IN IF t.root = Nil THEN t ELSE [WithoutHead(left) EXCEPT !.size = @ - 1]

-----------------------------------------------------------------------------
(* jsw_rbfind *)
RECURSIVE FindFrom(_, _, _)
FindFrom(t, n, x) ==
  IF n = Nil \/ n = x THEN n ELSE FindFrom(t, t.link[Toward(n, x)][n], x)

JswFind(t, x) == FindFrom(t, t.root, x)

(* A traversal object: the node it is at and the path to it. *)
RECURSIVE Along(_, _, _), Back(_, _, _)
Along(t, w, dir) ==
  LET next == t.link[dir][w.it]
  IN IF next = Nil THEN w ELSE Along(t, [it |-> next, path |-> Append(w.path, w.it)], dir)

Start(t, dir) ==
  IF t.root = Nil THEN [it |-> Nil, path |-> <<>>]
  ELSE Along(t, [it |-> t.root, path |-> <<>>], dir)

Back(t, w, dir) ==
  IF w.path = <<>> THEN [it |-> Nil, path |-> <<>>]
  ELSE LET up == [it |-> Last(w.path), path |-> Front(w.path)]
       IN IF w.it = t.link[dir][up.it] THEN Back(t, up, dir) ELSE up

Move(t, w, dir) ==
  IF t.link[dir][w.it] = Nil THEN Back(t, w, dir)
  ELSE Along(t, [it |-> t.link[dir][w.it], path |-> Append(w.path, w.it)], Opposite(dir))

(* jsw_rbdelete: the data it releases, in order. *)
RECURSIVE Released(_, _)
Released(t, it) ==
  IF it = Nil THEN <<>>
  ELSE LET save == t.link["left"][it]
       IN IF save = Nil THEN <<it>> \o Released(t, t.link["right"][it])
          ELSE Released(Hang(Hang(t, it, "left", t.link["right"][save]), save, "right", it), save)

-----------------------------------------------------------------------------
Nodes(t) == ToSet(Inorder(t.link, t.root))
Drifted(t) ==
  LET off == t.size - Cardinality(Nodes(t)) IN off > MaxDrift \/ off < -MaxDrift

(* Duplicates may be passed, and data that is not there.  size is a size_t: *)
(* its -1 is SIZE_MAX.                                                     *)
jsw_rbinsert(x) == jsw' = JswInsert(jsw, x) /\ ~Drifted(jsw')
jsw_rberase(x) == jsw' = JswErase(jsw, x) /\ ~Drifted(jsw')

JswNext == \E x \in Data : jsw_rbinsert(x) \/ jsw_rberase(x)

JswSpec == JswInit /\ [][JswNext]_jsw

-----------------------------------------------------------------------------
(* Type invariant, and that a removal takes its node out of the tree and   *)
(* no other with it: what is outside has no links and no colour left.      *)
JswTypeOK ==
  /\ jsw.root \in Data \cup {Nil} /\ jsw.red \subseteq Data /\ jsw.size \in Int
  /\ jsw.link \in [Sides -> [Data \cup {False} -> Data \cup {Nil}]]
  /\ Loopless(jsw.link, Data) =>
       \A n \in Data \ Nodes(jsw) : Children(jsw.link, n) = {} /\ n \notin jsw.red

(* jsw_rbtree.c:234-412: the rotations made on the way down, before it is  *)
(* known where the walk ends, or that it ends at a duplicate or at nothing *)
(* to remove, leave a sorted red-black tree.                               *)
JswBalanced ==
  /\ Loopless(jsw.link, Data)
  /\ RedBlack(jsw.link, jsw.red, jsw.root)
  /\ IsSorted(Inorder(jsw.link, jsw.root), <)

(* A call adds or removes its data and nothing else, and later searches    *)
(* find all there is.                                                      *)
JswContents ==
  [][/\ \A x \in Data : jsw_rbinsert(x) => Nodes(jsw') = Nodes(jsw) \cup {x}
     /\ \A x \in Data : jsw_rberase(x) => Nodes(jsw') = Nodes(jsw) \ {x}
     /\ \A x \in Data : JswFind(jsw', x) = (IF x \in Nodes(jsw') THEN x ELSE Nil)]_jsw

(* jsw_rbtree.c:470-577: a traversal from the smallest or the largest data *)
(* returns all in order, turns round anywhere and ends; the release of a   *)
(* tree, which rotates it into a list, releases all once.                  *)
JswTraversal ==
  LET in == Inorder(jsw.link, jsw.root)
      At(i) == IF i \in DOMAIN in THEN in[i] ELSE Nil
      up[i \in 1 .. Len(in)] == IF i = 1 THEN Start(jsw, "left") ELSE Move(jsw, up[i - 1], "right")
      down == Start(jsw, "right")
  IN Loopless(jsw.link, Data) =>
       /\ \A i \in DOMAIN in : /\ up[i].it = in[i]
                               /\ Move(jsw, up[i], "right").it = At(i + 1)
                               /\ Move(jsw, up[i], "left").it = At(i - 1)
       /\ down.it = At(Len(in))
       /\ in # <<>> => Move(jsw, down, "left").it = At(Len(in) - 1)
       /\ Released(jsw, jsw.root) = in

(* The tree after any calls, as rebalancing and the traversals need it.    *)
JswWellFormed == JswTypeOK /\ JswBalanced /\ JswTraversal
=============================================================================
