----------------------------- MODULE MCDictWalk -----------------------------
(* Instances of DictScan, and of the iterators of DictIter in it, for TLC. *)
EXTENDS DictScan, TLC

CONSTANTS k1, k2, k3, k4, i1, i2

(* k1, k2 and k3 share a bucket of 2; k1 and k2 also one of 4. *)
MCHash ==
  LET h == k1 :> 0 @@ k2 :> 4 @@ k3 :> 2 @@ k4 :> 1
  IN [k \in Keys |-> h[k]]

IterSymmetry == Permutations(Iters)
=============================================================================
