------------------------------ MODULE KeyValue ------------------------------
(***************************************************************************)
(* What redis_dict/dict.c promises to its callers: a finite map from keys  *)
(* to values, one answer per call, and nothing else.  `last` is the answer *)
(* of the most recent call together with the call it answers, so that an   *)
(* implementation cannot hide a wrong answer behind another call.          *)
(***************************************************************************)
CONSTANTS Keys,   \* the keys callers use
          Vals,   \* the values they store
          NoVal   \* the answer "there is no such key"

VARIABLES m,      \* the map; m[k] = NoVal means that k is absent
          last    \* the last answered call

vars == <<m, last>>

Answer(op, k, r) == [op |-> op, key |-> k, res |-> r]

Present(k) == m[k] # NoVal

Init ==
  /\ m = [k \in Keys |-> NoVal]
  /\ last = Answer("create", NoVal, NoVal)

(* Adding never overwrites: a present key makes the call fail. *)
Add(k, v) ==
  /\ m' = IF Present(k) THEN m ELSE [m EXCEPT ![k] = v]
  /\ last' = Answer("add", k, ~Present(k))

Replace(k, v) ==
  /\ m' = [m EXCEPT ![k] = v]
  /\ last' = Answer("replace", k, ~Present(k))

(* The raw variant hands out the entry; only a new one is filled. *)
ReplaceRaw(k, v) ==
  /\ m' = IF Present(k) THEN m ELSE [m EXCEPT ![k] = v]
  /\ last' = Answer("raw", k, m'[k])

Delete(k) ==
  /\ m' = [m EXCEPT ![k] = NoVal]
  /\ last' = Answer("delete", k, Present(k))

Find(k) ==
  /\ last' = Answer("find", k, m[k])
  /\ UNCHANGED m

(* Any present key may be sampled; an empty map has none to offer. *)
RandomKey ==
  /\ \/ \E k \in Keys : Present(k) /\ last' = Answer("random", k, m[k])
     \/ (\A k \in Keys : ~Present(k)) /\ last' = Answer("random", NoVal, NoVal)
  /\ UNCHANGED m

Empty ==
  /\ m' = [k \in Keys |-> NoVal]
  /\ last' = Answer("empty", NoVal, NoVal)

Next ==
  \/ \E k \in Keys, v \in Vals : Add(k, v) \/ Replace(k, v) \/ ReplaceRaw(k, v)
  \/ \E k \in Keys : Delete(k) \/ Find(k)
  \/ RandomKey
  \/ Empty

Spec == Init /\ [][Next]_vars
=============================================================================
