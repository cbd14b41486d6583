------------------------------ MODULE DictScan ------------------------------
(***************************************************************************)
(* dictScan (redis_dict/dict.c): the scan that keeps no state in the dict. *)
(* Its caller hands back the cursor of the call before while other callers *)
(* do what DictIter lets them do: resize, rehash, add, delete, iterate.    *)
(* A cursor is an unsigned long; Width bits of it are kept, enough for the *)
(* index of any table, and its sums wrap as the unsigned long's do.        *)
(***************************************************************************)
EXTENDS DictIter

CONSTANTS Width,   \* bound: bits of a cursor
          Beside   \* bound: iterators that run beside a scan

(* The powers of two in the range of a cursor.                             *)
Pow2[i \in 0 .. Width] == IF i = 0 THEN 1 ELSE 2 * Pow2[i - 1]

ASSUME ScanAssumption ==
  /\ Width \in Nat /\ Beside \in Nat
  /\ \A s \in Sizes : \E b \in 0 .. Width : s = Pow2[b]

VARIABLE scan  \* the scan of one caller

(* missing is what the scan owes its caller: entries present since its     *)
(* first call and not returned yet.  folded says that a call has met two   *)
(* tables, one at least four times as large as the other, while its cursor *)
(* pointed into the part of the larger that is beyond the smaller's size.  *)
NoScan == [phase |-> "none", cursor |-> 0, missing |-> {}, folded |-> FALSE]

scanVars == <<d, it, crashed, stray, scan>>

Crowded == scan.phase = "going" /\ Cardinality({i \in Iters : Running(i)}) > Beside

ScanInit == Init /\ scan = NoScan

-----------------------------------------------------------------------------
Bit(v, i) == (v \div Pow2[i]) % 2

(* rev: the bits of v in the opposite order.  lowest[n] is that of its n   *)
(* lowest bits.                                                            *)
Reversed(v) ==
  LET lowest[n \in 0 .. Width] ==
        IF n = 0 THEN 0 ELSE 2 * lowest[n - 1] + Bit(v, n - 1)
  IN lowest

Rev(v) == Reversed(v)[Width]

WrongNextCursor(v, size) == Rev(Rev(Pow2[Width] - size + (v % size)))

(* v |= ~m0, and an increment from the highest bit of the mask downwards.  *)
NextCursor(v, size) == Rev((Rev(Pow2[Width] - size + (v % size)) + 1) % Pow2[Width])

WrongExpansions(v, small, large) == {v % large}

(* The buckets of the larger table the inner loop visits: from the cursor, *)
(* adding the smaller size, until the bits between the masks are zero.     *)
Expansions(v, small, large) ==
  {j \in 0 .. large - 1 : j % small = v % small /\ j >= v % large}

Smaller == IF IsRehashing(d) /\ d.ht1.size < d.ht0.size THEN d.ht1 ELSE d.ht0
Larger  == IF d.ht1.size < d.ht0.size THEN d.ht0 ELSE d.ht1

Emitted(v) ==
  Smaller.table[v % Smaller.size]
    \cup IF IsRehashing(d)
         THEN UNION {Larger.table[j] : j \in Expansions(v, Smaller.size, Larger.size)}
         ELSE {}

Folds(v) ==
  /\ IsRehashing(d)
  /\ Larger.size >= 4 * Smaller.size
  /\ v % Larger.size >= Smaller.size

(* One call with cursor v; the caller stops at cursor 0.                   *)
Visit(v, missing, folded) ==
  IF Used(d) = 0 THEN [NoScan EXCEPT !.phase = "over", !.folded = folded]
  ELSE LET next == NextCursor(v, Smaller.size)
       IN [phase   |-> IF next = 0 THEN "over" ELSE "going",
           cursor  |-> next,
           missing |-> missing \ Emitted(v),
           folded  |-> folded \/ Folds(v)]

ScanFirst ==
  /\ scan.phase # "going"
  /\ scan' = Visit(0, DictKeys(d), FALSE)
  /\ UNCHANGED vars
  /\ ~Crowded'

ScanNext ==
  /\ scan.phase = "going"
  /\ scan' = Visit(scan.cursor, scan.missing, scan.folded)
  /\ UNCHANGED vars

(* What the scan owes does not include what is deleted under it.           *)
Others ==
  /\ Next
  /\ scan' = IF scan.phase = "going" THEN [scan EXCEPT !.missing = @ \cap DictKeys(d')]
             ELSE NoScan
  /\ ~Crowded'

WalkNext == Others \/ (~crashed /\ (ScanFirst \/ ScanNext))

WalkSpec == ScanInit /\ [][WalkNext]_scanVars

-----------------------------------------------------------------------------
(* dict.c:778-780: a scan returns every entry that is there from its start *)
(* to its end, whatever is added, deleted, resized and rehashed meanwhile. *)
ScanComplete == scan.phase = "over" => scan.missing = {}

(* dict.c:887-909: that holds for every scan but one that meets a rehash,  *)
(* up or down, between two tables whose sizes differ fourfold or more      *)
(* while its cursor points past the smaller size.                          *)
ScanCompleteUnfolded == scan.phase = "over" /\ ~scan.folded => scan.missing = {}

(* dict.c:911-920: whatever the tables became since its call before, the   *)
(* next call of a scan ends it or takes it ahead, seen from the highest    *)
(* bit of the cursor.                                                      *)
CallAdvances ==
  scan.phase = "going" =>
    LET next == Visit(scan.cursor, scan.missing, scan.folded)
    IN next.phase = "over" \/ Rev(next.cursor) > Rev(scan.cursor)

(* It does after every step, and what others do between two calls takes no *)
(* scan back; as Rev has 2^Width values, a scan ends after as many calls.  *)
Advances ==
  /\ CallAdvances'
  /\ scan.phase = "going" =>
       \/ ScanNext /\ (scan'.phase = "over" \/ Rev(scan'.cursor) > Rev(scan.cursor))
       \/ Others /\ scan'.phase = "going" /\ scan'.cursor = scan.cursor

ScanAdvances == [][Advances]_scanVars

=============================================================================
