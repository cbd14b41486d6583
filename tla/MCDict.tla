------------------------------- MODULE MCDict -------------------------------
(* Instances of Dict for TLC: which keys collide at which table size. *)
EXTENDS Dict, TLC

CONSTANTS k1, k2, k3, k4

(* k1, k2 and k3 share a bucket of 2; k1 and k2 also one of 4, never of 8. *)
MCHash ==
  LET h == k1 :> 0 @@ k2 :> 4 @@ k3 :> 2 @@ k4 :> 1
  IN [k \in Keys |-> h[k]]

ValueSymmetry == Permutations(Vals)

(* No action reads the answer of an earlier call. *)
WithoutAnswer == <<d, val, can_resize, open>>
=============================================================================
