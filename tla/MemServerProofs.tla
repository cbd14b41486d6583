--------------------------- MODULE MemServerProofs ---------------------------
(***************************************************************************)
(* What MemServer keeps for any clients, keys and number of commands: the  *)
(* values allocated are those in the dict, a client with replies waiting   *)
(* is registered for AE_WRITABLE, and clients get the replies they are due *)
(* unless a write was cut or a value overwritten.  In front of it, what    *)
(* RespParser keeps for any commands and buffer: the commands executed are *)
(* those sent, while reads leave the header lines whole.                   *)
(***************************************************************************)
EXTENDS MemServer, RespParser, SequenceTheorems, FiniteSetTheorems,
        WellFoundedInduction, TLAPS

Kinds == {"ok", "err", "value"}

Units == (Kinds \cup {"freed"}) \X (Objects \cup {NoValue}) \X (1 .. Full)

(* A response between two rounds of the sending loop: the items before cur *)
(* are sent, those behind it are not begun.                                *)
ResponseOK(r) ==
  /\ r = [kind |-> r.kind, obj |-> r.obj, cur |-> r.cur, pos |-> r.pos]
  /\ r.kind \in Kinds /\ r.obj \in Objects \cup {NoValue}
  /\ r.pos \in Seq(0 .. Full)
  /\ Len(r.pos) = IF r.obj = NoValue THEN 1 ELSE 2
  /\ r.cur \in 1 .. Len(r.pos)
  /\ \A j \in 1 .. Len(r.pos) : /\ j < r.cur => r.pos[j] = Full
                                /\ j > r.cur => r.pos[j] = 0

Unsent(r) == r.cur = 1 /\ \A j \in 1 .. Len(r.pos) : r.pos[j] = 0

(* Only the first response of a queue has been begun.                      *)
QueueOK(q) ==
  /\ Len(q) \in Nat /\ q = [i \in 1 .. Len(q) |-> q[i]]
  /\ \A i \in 1 .. Len(q) : ResponseOK(q[i]) /\ (i > 1 => Unsent(q[i]))

-----------------------------------------------------------------------------
(* What the operations do to one response.                                 *)
LEMMA NewResponse ==
  ASSUME NEW kind \in Kinds, NEW obj \in Objects \cup {NoValue}
  PROVE  /\ ResponseOK(Response(kind, obj)) /\ Unsent(Response(kind, obj))
         /\ Response(kind, obj).obj = obj /\ Response(kind, obj).kind = kind
<1>1. CASE obj = NoValue
  <2>1. <<0>> \in Seq(0 .. Full) /\ Len(<<0>>) = 1 /\ <<0>>[1] = 0
    BY DEF Full
  <2> QED
    BY <1>1, <2>1 DEF Response, ResponseOK, Unsent
<1>2. CASE obj # NoValue
  <2>1. <<0, 0>> \in Seq(0 .. Full) /\ Len(<<0, 0>>) = 2 /\ <<0, 0>>[1] = 0 /\ <<0, 0>>[2] = 0
    BY DEF Full
  <2> QED
    BY <1>2, <2>1 DEF Response, ResponseOK, Unsent
<1> QED
  BY <1>1, <1>2

(* Current, of a response instead of a queue.                              *)
Moved(r) == IF r.pos[r.cur] >= Full THEN [r EXCEPT !.cur = r.cur + 1] ELSE r

LEMMA MovedOK ==
  ASSUME NEW r, ResponseOK(r)
  PROVE  /\ Moved(r).kind = r.kind /\ Moved(r).obj = r.obj /\ Moved(r).pos = r.pos
         /\ Finished(Moved(r)) => \A j \in 1 .. Len(r.pos) : r.pos[j] = Full
         /\ ~Finished(Moved(r)) =>
              ResponseOK(Moved(r)) /\ Moved(r).pos[Moved(r).cur] \in 0 .. Full - 1
<1>0. /\ r.pos \in Seq(0 .. Full) /\ Len(r.pos) \in Nat
      /\ r.cur \in 1 .. Len(r.pos) /\ r.cur \in Nat
  BY DEF ResponseOK
<1>1. /\ r.pos[r.cur] \in 0 .. Full /\ Len(r.pos) \in Nat /\ r.cur \in Nat
      /\ \A j \in 1 .. Len(r.pos) : r.pos[j] \in 0 .. Full
  BY <1>0, ElementOfSeq
<1>2. CASE r.pos[r.cur] >= Full
  <2>1. r.pos[r.cur] = Full
    BY <1>1, <1>2 DEF Full
  <2>2. Moved(r) = [kind |-> r.kind, obj |-> r.obj, cur |-> r.cur + 1, pos |-> r.pos]
    BY <1>2 DEF Moved, ResponseOK
  <2>3. ASSUME Finished(Moved(r)), NEW j \in 1 .. Len(r.pos)
        PROVE  r.pos[j] = Full
    <3>1. r.cur = Len(r.pos)
      BY <2>2, <2>3, <1>0 DEF Finished
    <3>2. j < r.cur \/ j = r.cur
      BY <3>1, <1>0
    <3>3. j < r.cur => r.pos[j] = Full
      BY DEF ResponseOK
    <3> QED
      BY <3>2, <3>3, <2>1
  <2>4. ASSUME ~Finished(Moved(r))
        PROVE  ResponseOK(Moved(r)) /\ Moved(r).pos[Moved(r).cur] \in 0 .. Full - 1
    <3>1. r.cur + 1 \in 1 .. Len(r.pos)
      BY <2>2, <2>4, <1>0 DEF Finished
    <3>2. r.pos[r.cur + 1] = 0
      BY <3>1, <1>1 DEF ResponseOK
    <3>3. \A j \in 1 .. Len(r.pos) : /\ j < r.cur + 1 => r.pos[j] = Full
                                     /\ j > r.cur + 1 => r.pos[j] = 0
      BY <2>1, <1>1 DEF ResponseOK
    <3>4. ResponseOK(Moved(r))
      BY <2>2, <3>1, <3>3 DEF ResponseOK
    <3> QED
      BY <2>2, <3>2, <3>4 DEF Full
  <2> QED
    BY <2>2, <2>3, <2>4
<1>3. CASE ~(r.pos[r.cur] >= Full)
  <2>1. Moved(r) = r
    BY <1>3 DEF Moved
  <2>2. ~Finished(r)
    BY <1>1 DEF Finished, ResponseOK
  <2>3. r.pos[r.cur] \in 0 .. Full - 1
    BY <1>1, <1>3 DEF Full, ResponseOK
  <2> QED
    BY <2>1, <2>2, <2>3
<1> QED
  BY <1>2, <1>3

LEMMA AdvancedOK ==
  ASSUME NEW r, ResponseOK(r), NEW n \in 1 .. Full - r.pos[r.cur], r.pos[r.cur] \in 0 .. Full
  PROVE  /\ ResponseOK(Advanced(r, n))
         /\ Advanced(r, n).kind = r.kind /\ Advanced(r, n).obj = r.obj
         /\ Advanced(r, n).cur = r.cur
         /\ Len(Advanced(r, n).pos) = Len(r.pos)
         /\ \A j \in 1 .. Len(r.pos) :
              Advanced(r, n).pos[j] = IF j = r.cur THEN r.pos[j] + n ELSE r.pos[j]
<1> DEFINE p == [r.pos EXCEPT ![r.cur] = r.pos[r.cur] + n]
<1>1. r.pos \in Seq(0 .. Full) /\ Len(r.pos) \in Nat /\ r.cur \in 1 .. Len(r.pos)
  BY DEF ResponseOK
<1>2. r.pos[r.cur] + n \in 0 .. Full
  BY DEF Full
<1>3. p \in Seq(0 .. Full) /\ Len(p) = Len(r.pos)
      /\ \A j \in 1 .. Len(r.pos) : p[j] = IF j = r.cur THEN r.pos[j] + n ELSE r.pos[j]
  BY <1>1, <1>2, ExceptSeq
<1> HIDE DEF p
<1>4. Advanced(r, n) = [kind |-> r.kind, obj |-> r.obj, cur |-> r.cur, pos |-> p]
  BY DEF Advanced, ResponseOK, p
<1>5. ResponseOK(Advanced(r, n))
  BY <1>1, <1>3, <1>4 DEF ResponseOK
<1> QED
  BY <1>3, <1>4, <1>5

-----------------------------------------------------------------------------
(* Where replies lie in what a client is due: g is what it has been sent,  *)
(* t what it is due, and the wires of the responses in q are the end of t, *)
(* from offset to offset; g ends within the first of them.                 *)
Sent(r) == IF r.obj = NoValue THEN r.pos[1] ELSE r.pos[1] + r.pos[2]

Begins(g, t) ==
  /\ g \in Seq(Units) /\ t \in Seq(Units) /\ Len(g) <= Len(t)
  /\ \A k \in 1 .. Len(g) : g[k] = t[k]

Laid(t, r, from, to) ==
  /\ from \in Nat /\ to = from + Len(Wire(r)) /\ to <= Len(t)
  /\ \A k \in 1 .. Len(Wire(r)) : t[from + k] = Wire(r)[k]

Offsets(g, t, q, off) ==
  /\ off[Len(q) + 1] = Len(t)
  /\ Len(g) = off[1] + (IF q = <<>> THEN 0 ELSE Sent(q[1]))
  /\ \A i \in 1 .. Len(q) : Laid(t, q[i], off[i], off[i + 1])

OnWire(g, t, q) == \E off : Offsets(g, t, q, off)

LEMMA WireShape ==
  ASSUME NEW r, ResponseOK(r)
  PROVE  /\ Wire(r) \in Seq(Units) /\ Len(Wire(r)) = 2 * Len(r.pos)
         /\ \A k \in 1 .. 2 * Len(r.pos) :
              Wire(r)[k] = IF k <= 2 THEN Unit(r, 1, k) ELSE Unit(r, 2, k - 2)
<1>1. ASSUME NEW item \in 1 .. 2, NEW i \in 1 .. 2
      PROVE  Unit(r, item, i) \in Units
  BY DEF Unit, Units, ResponseOK, Full
<1>2. ASSUME NEW item \in 1 .. 2
      PROVE  /\ Item(r, item) \in Seq(Units) /\ Len(Item(r, item)) = 2
             /\ \A k \in 1 .. 2 : Item(r, item)[k] = Unit(r, item, k)
  BY <1>1 DEF Item, Full
<1>3. CASE r.obj = NoValue
  <2>1. Wire(r) = Item(r, 1) /\ Len(r.pos) = 1
    BY <1>3 DEF Wire, ResponseOK
  <2> QED
    BY <2>1, <1>2
<1>4. CASE r.obj # NoValue
  <2>1. Wire(r) = Item(r, 1) \o Item(r, 2) /\ Len(r.pos) = 2
    BY <1>4 DEF Wire, ResponseOK
  <2> DEFINE a == Item(r, 1)
             b == Item(r, 2)
  <2>2. /\ a \in Seq(Units) /\ Len(a) = 2 /\ b \in Seq(Units) /\ Len(b) = 2
        /\ \A k \in 1 .. 2 : a[k] = Unit(r, 1, k) /\ b[k] = Unit(r, 2, k)
    BY <1>2
  <2> HIDE DEF a, b
  <2>3. /\ a \o b \in Seq(Units) /\ Len(a \o b) = 4
        /\ \A k \in 1 .. 4 : (a \o b)[k] = IF k <= 2 THEN a[k] ELSE b[k - 2]
    <3>1. /\ a \o b \in Seq(Units) /\ Len(a \o b) = Len(a) + Len(b)
          /\ \A k \in 1 .. Len(a) + Len(b) :
               (a \o b)[k] = IF k <= Len(a) THEN a[k] ELSE b[k - Len(a)]
      BY <2>2, ConcatProperties
    <3> QED
      BY <3>1, <2>2
  <2>4. ASSUME NEW k \in 1 .. 4
        PROVE  (a \o b)[k] = IF k <= 2 THEN Unit(r, 1, k) ELSE Unit(r, 2, k - 2)
    <3>1. CASE k <= 2
      <4>1. k \in 1 .. 2
        BY <3>1
      <4> QED
        BY <3>1, <4>1, <2>2, <2>3
    <3>2. CASE ~(k <= 2)
      <4>1. k - 2 \in 1 .. 2
        BY <3>2
      <4> QED
        BY <3>2, <4>1, <2>2, <2>3
    <3> QED
      BY <3>1, <3>2
  <2> QED
    BY <2>1, <2>3, <2>4 DEF a, b
<1> QED
  BY <1>3, <1>4

LEMMA WireOf ==
  ASSUME NEW r, NEW s, s.kind = r.kind, s.obj = r.obj
  PROVE  Wire(s) = Wire(r)
BY DEF Wire, Item, Unit

(* A sequence whose first n elements are t keeps what lies in t.           *)
LEMMA StaysLaid ==
  ASSUME NEW t \in Seq(Units), NEW u \in Seq(Units), Len(t) <= Len(u),
         \A k \in 1 .. Len(t) : u[k] = t[k],
         NEW r, ResponseOK(r), NEW from, NEW to, Laid(t, r, from, to)
  PROVE  Laid(u, r, from, to)
<1>1. Len(Wire(r)) \in Nat /\ Len(t) \in Nat /\ Len(u) \in Nat
  BY WireShape
<1>2. \A k \in 1 .. Len(Wire(r)) : from + k \in 1 .. Len(t)
  BY <1>1 DEF Laid
<1> QED
  BY <1>1, <1>2 DEF Laid

(* ResponseInsert.                                                         *)
LEMMA EnqueuedOnWire ==
  ASSUME NEW g, NEW t, Begins(g, t), NEW q, QueueOK(q), OnWire(g, t, q),
         NEW r, ResponseOK(r), Unsent(r),
         NEW p, QueueOK(p), Len(p) = Len(q) + 1,
         \A i \in 1 .. Len(q) : p[i] = q[i], p[Len(p)] = r
  PROVE  Begins(g, t \o Wire(r)) /\ OnWire(g, t \o Wire(r), p)
<1> DEFINE w == Wire(r)
           u == t \o w
<1>0. Len(q) \in Nat /\ Len(p) \in Nat
  BY DEF QueueOK
<1>1. w \in Seq(Units) /\ Len(w) \in Nat
  BY WireShape
<1>2. g \in Seq(Units) /\ t \in Seq(Units) /\ Len(g) \in Nat /\ Len(t) \in Nat /\ Len(g) <= Len(t)
  BY DEF Begins
<1>3. /\ u \in Seq(Units) /\ Len(u) = Len(t) + Len(w)
      /\ \A k \in 1 .. Len(t) + Len(w) : u[k] = IF k <= Len(t) THEN t[k] ELSE w[k - Len(t)]
  BY <1>1, <1>2, ConcatProperties
<1> HIDE DEF u, w
<1>4. \A k \in 1 .. Len(t) : u[k] = t[k]
  BY <1>1, <1>2, <1>3
<1>5. \A k \in 1 .. Len(w) : u[Len(t) + k] = w[k]
  BY <1>1, <1>2, <1>3
<1>6. Begins(g, u)
  <2>1. \A k \in 1 .. Len(g) : u[k] = g[k]
    BY <1>2, <1>4 DEF Begins
  <2> QED
    BY <2>1, <1>1, <1>2, <1>3 DEF Begins
<1>7. PICK off : Offsets(g, t, q, off)
  BY DEF OnWire
<1> DEFINE new == [i \in 1 .. Len(p) + 1 |-> IF i = Len(p) + 1 THEN Len(u) ELSE off[i]]
<1>8. Laid(u, r, Len(t), Len(u))
  BY <1>1, <1>2, <1>3, <1>5 DEF Laid, w
<1>9. /\ new[Len(p) + 1] = Len(u) /\ \A i \in 1 .. Len(p) : new[i] = off[i]
  BY <1>0
<1> HIDE DEF new
<1>10. ASSUME NEW i \in 1 .. Len(p)
       PROVE  Laid(u, p[i], new[i], new[i + 1])
  <2>1. CASE i = Len(p)
    <3>1. new[i] = Len(t) /\ new[i + 1] = Len(u) /\ p[i] = r
      BY <2>1, <1>0, <1>7, <1>9 DEF Offsets
    <3> QED
      BY <3>1, <1>8
  <2>2. CASE i # Len(p)
    <3>1. i \in 1 .. Len(q) /\ i + 1 \in 1 .. Len(p)
      BY <2>2, <1>0
    <3>2. new[i] = off[i] /\ new[i + 1] = off[i + 1] /\ p[i] = q[i]
      BY <3>1, <1>9
    <3>3. Laid(t, q[i], off[i], off[i + 1]) /\ ResponseOK(q[i])
      BY <3>1, <1>7 DEF Offsets, QueueOK
    <3>4. Len(t) <= Len(u)
      BY <1>1, <1>2, <1>3
    <3> QED
      BY <3>2, <3>3, <3>4, <1>2, <1>3, <1>4, StaysLaid
  <2> QED
    BY <2>1, <2>2
<1>11. Len(g) = new[1] + (IF p = <<>> THEN 0 ELSE Sent(p[1]))
  <2>1. p # <<>> /\ new[1] = off[1]
    BY <1>0, <1>9
  <2>2. CASE q = <<>>
    <3>1. p[1] = r /\ Sent(r) = 0
      BY <2>2, <1>0 DEF Sent, Unsent, ResponseOK
    <3> QED
      BY <2>1, <2>2, <3>1, <1>7 DEF Offsets
  <2>3. CASE q # <<>>
    <3>1. 1 \in 1 .. Len(q)
      BY <2>3, <1>0 DEF QueueOK
    <3>2. p[1] = q[1]
      BY <3>1
    <3> QED
      BY <2>1, <2>3, <3>2, <1>7 DEF Offsets
  <2> QED
    BY <2>2, <2>3
<1>12. Offsets(g, u, p, new)
  BY <1>9, <1>10, <1>11 DEF Offsets
<1> QED
  BY <1>6, <1>12 DEF OnWire, u, w

SameTail(p, q) == Len(p) = Len(q) /\ \A i \in 2 .. Len(q) : p[i] = q[i]

Carries(w, r, s, n) ==
  w \in Seq(Units) /\ Len(w) = n /\ \A k \in 1 .. n : w[k] = Wire(r)[s + k]

(* A round of the sending loop: n units of the first response.             *)
LEMMA SentOnWire ==
  ASSUME NEW g, NEW t, Begins(g, t), NEW q, QueueOK(q), q # <<>>, OnWire(g, t, q),
         NEW r, ResponseOK(r), r.kind = q[1].kind, r.obj = q[1].obj,
         NEW n \in Nat, Sent(r) = Sent(q[1]) + n, Sent(r) <= Len(Wire(r)),
         NEW w, Carries(w, r, Sent(q[1]), n),
         NEW p, QueueOK(p), p[1] = r, SameTail(p, q)
  PROVE  Begins(g \o w, t) /\ OnWire(g \o w, t, p)
<1> DEFINE s == Sent(q[1])
           h == g \o w
<1>0. /\ Len(q) \in Nat /\ Len(p) = Len(q) /\ 1 \in 1 .. Len(q) /\ ResponseOK(q[1])
      /\ w \in Seq(Units) /\ Len(w) = n
  BY DEF QueueOK, SameTail, Carries
<1>1. Wire(r) = Wire(q[1]) /\ Len(Wire(r)) \in Nat
  BY <1>0, WireOf, WireShape
<1>2. s \in Nat
  <2>1. q[1].pos \in Seq(0 .. Full) /\ Len(q[1].pos) = IF q[1].obj = NoValue THEN 1 ELSE 2
    BY <1>0 DEF ResponseOK
  <2>2. \A j \in 1 .. Len(q[1].pos) : q[1].pos[j] \in 0 .. Full
    BY <2>1, ElementOfSeq
  <2>3. CASE q[1].obj = NoValue
    BY <2>1, <2>2, <2>3 DEF Sent, Full
  <2>4. CASE q[1].obj # NoValue
    BY <2>1, <2>2, <2>4 DEF Sent, Full
  <2> QED
    BY <2>3, <2>4
<1>3. g \in Seq(Units) /\ t \in Seq(Units) /\ Len(g) \in Nat /\ Len(t) \in Nat
  BY DEF Begins
<1>4. PICK off : Offsets(g, t, q, off)
  BY DEF OnWire
<1>5. Laid(t, r, off[1], off[2]) /\ Len(g) = off[1] + s
  BY <1>0, <1>1, <1>4 DEF Offsets, Laid
<1> HIDE DEF s
<1>6. /\ h \in Seq(Units) /\ Len(h) = Len(g) + n
      /\ \A k \in 1 .. Len(g) + n : h[k] = IF k <= Len(g) THEN g[k] ELSE w[k - Len(g)]
  <2>1. /\ h \in Seq(Units) /\ Len(h) = Len(g) + Len(w)
        /\ \A k \in 1 .. Len(g) + Len(w) : h[k] = IF k <= Len(g) THEN g[k] ELSE w[k - Len(g)]
    <3>1. g \in Seq(Units) /\ w \in Seq(Units)
      BY <1>3 DEF Carries
    <3> QED
      BY <3>1, ConcatProperties
  <2> HIDE DEF h
  <2> QED
    BY <1>0, <2>1
<1> HIDE DEF h
<1>7. s + n <= Len(Wire(r)) /\ Sent(r) = s + n
  BY DEF s
<1>a. /\ off[1] \in Nat /\ off[1] + Len(Wire(r)) <= Len(t)
      /\ \A k \in 1 .. Len(Wire(r)) : t[off[1] + k] = Wire(r)[k]
  BY <1>1, <1>3, <1>5 DEF Laid
<1> HIDE DEF h
<1>b. /\ off[1] \in Nat /\ Len(g) \in Nat /\ Len(g) = off[1] + s /\ Len(h) = Len(g) + n
      /\ Len(Wire(r)) \in Nat /\ s + n <= Len(Wire(r))
  BY <1>a, <1>1, <1>3, <1>5, <1>6, <1>7
<1>c. ASSUME NEW x \in 1 .. n
      PROVE  s + x \in 1 .. Len(Wire(r))
  <2>1. x \in Nat /\ 1 <= x /\ x <= n
    OBVIOUS
  <2> QED
    BY <2>1, <1>b, <1>2
<1>8. Len(h) <= Len(t)
  BY <1>a, <1>b, <1>2, <1>3
<1>9. ASSUME NEW k \in 1 .. Len(h)
      PROVE  h[k] = t[k]
  <2>1. CASE k <= Len(g)
    BY <2>1, <1>3, <1>6 DEF Begins
  <2>2. CASE ~(k <= Len(g))
    <3>1. k - Len(g) \in 1 .. n /\ s + (k - Len(g)) \in 1 .. Len(Wire(r))
          /\ off[1] + (s + (k - Len(g))) = k
      <4>1. k \in Len(g) + 1 .. Len(g) + n
        BY <2>2, <1>b
      <4>2. k - Len(g) \in 1 .. n
        BY <4>1, <1>b
      <4>3. off[1] + (s + (k - Len(g))) = k
        BY <4>1, <1>b, <1>2, SMTT(30)
      <4>4. s + (k - Len(g)) \in 1 .. Len(Wire(r))
        BY <4>2, <1>c
      <4> QED
        BY <4>2, <4>3, <4>4
    <3>2. h[k] = w[k - Len(g)]
      <4>1. k \in 1 .. Len(g) + n
        BY <1>b
      <4>2. h[k] = IF k <= Len(g) THEN g[k] ELSE w[k - Len(g)]
        BY <4>1, <1>6
      <4> QED
        BY <4>2, <2>2
    <3>3. w[k - Len(g)] = Wire(r)[s + (k - Len(g))]
      BY <3>1 DEF s, Carries
    <3>4. t[off[1] + (s + (k - Len(g)))] = Wire(r)[s + (k - Len(g))]
      BY <3>1, <1>a
    <3> QED
      BY <3>1, <3>2, <3>3, <3>4
  <2> QED
    BY <2>1, <2>2
<1>10. Offsets(h, t, p, off)
  <2>1. ASSUME NEW i \in 1 .. Len(p)
        PROVE  Laid(t, p[i], off[i], off[i + 1])
    <3>1. CASE i = 1
      BY <3>1, <1>5
    <3>2. CASE i # 1
      <4>1. i \in 2 .. Len(q) /\ i \in 1 .. Len(q)
        BY <3>2, <1>0
      <4>2. p[i] = q[i] /\ Laid(t, q[i], off[i], off[i + 1])
        BY <4>1, <1>4 DEF Offsets, SameTail
      <4> QED
        BY <4>2
    <3> QED
      BY <3>1, <3>2
  <2>2. Len(h) = off[1] + Sent(p[1]) /\ p # <<>>
    <3>1. Len(h) = off[1] + Sent(p[1])
      BY <1>b, <1>2, <1>7
    <3>2. p # <<>>
      BY <1>0
    <3> QED
      BY <3>1, <3>2
  <2>3. off[Len(p) + 1] = Len(t)
    BY <1>0, <1>4 DEF Offsets
  <2> QED
    BY <2>1, <2>2, <2>3 DEF Offsets
<1> QED
  BY <1>3, <1>6, <1>8, <1>9, <1>10 DEF Begins, OnWire, h

(* ResponseDeleteHead, of a response that is sent wholly.                  *)
LEMMA TailOnWire ==
  ASSUME NEW g, NEW t, Begins(g, t), NEW q, QueueOK(q), q # <<>>, OnWire(g, t, q),
         Sent(q[1]) = Len(Wire(q[1])),
         NEW p, QueueOK(p), Len(p) = Len(q) - 1,
         \A i \in 1 .. Len(p) : p[i] = q[i + 1]
  PROVE  OnWire(g, t, p)
<1>0. Len(q) \in Nat /\ Len(p) \in Nat /\ 1 \in 1 .. Len(q) /\ ResponseOK(q[1])
  BY DEF QueueOK
<1>1. PICK off : Offsets(g, t, q, off)
  BY DEF OnWire
<1> DEFINE new == [i \in 1 .. Len(q) |-> off[i + 1]]
<1>2. \A i \in 1 .. Len(q) : new[i] = off[i + 1]
  OBVIOUS
<1> HIDE DEF new
<1>3. Laid(t, q[1], off[1], off[2]) /\ Len(g) = off[1] + Len(Wire(q[1]))
  BY <1>0, <1>1 DEF Offsets
<1>4. Len(g) = new[1]
  BY <1>0, <1>2, <1>3 DEF Laid
<1>5. new[Len(p) + 1] = Len(t)
  BY <1>0, <1>1, <1>2 DEF Offsets
<1>6. ASSUME NEW i \in 1 .. Len(p)
      PROVE  Laid(t, p[i], new[i], new[i + 1])
  <2>1. i \in 1 .. Len(q) /\ i + 1 \in 1 .. Len(q)
    BY <1>0
  <2> QED
    BY <2>1, <1>1, <1>2 DEF Offsets
<1>7. Len(g) = new[1] + (IF p = <<>> THEN 0 ELSE Sent(p[1]))
  <2>1. CASE p = <<>>
    BY <2>1, <1>0, <1>3, <1>4 DEF Laid
  <2>2. CASE p # <<>>
    <3>1. 1 \in 1 .. Len(p) /\ 2 \in 1 .. Len(q) /\ p[1] = q[2]
      BY <2>2, <1>0 DEF QueueOK
    <3>2. Unsent(q[2]) /\ ResponseOK(q[2])
      BY <3>1 DEF QueueOK
    <3>3. Sent(q[2]) = 0
      BY <3>2 DEF Sent, Unsent, ResponseOK
    <3>4. Len(g) \in Nat
      BY DEF Begins
    <3> QED
      BY <2>2, <3>1, <3>3, <3>4, <1>4
  <2> QED
    BY <2>1, <2>2
<1>8. Offsets(g, t, p, new)
  BY <1>5, <1>6, <1>7 DEF Offsets
<1> QED
  BY <1>8 DEF OnWire

-----------------------------------------------------------------------------
(* What the operations do to one queue.                                    *)
LEMMA QueueIsSeq ==
  ASSUME NEW q, QueueOK(q), NEW S
  PROVE  q \in Seq({q[i] : i \in 1 .. Len(q)} \cup S)
BY DEF QueueOK

LEMMA AppendedQueue ==
  ASSUME NEW q, QueueOK(q), NEW r, ResponseOK(r), Unsent(r)
  PROVE  /\ QueueOK(Append(q, r)) /\ Len(Append(q, r)) = Len(q) + 1
         /\ \A i \in 1 .. Len(q) : Append(q, r)[i] = q[i]
         /\ Append(q, r)[Len(q) + 1] = r
<1> DEFINE S == {q[i] : i \in 1 .. Len(q)} \cup {r}
           p == Append(q, r)
<1>0. Len(q) \in Nat
  BY DEF QueueOK
<1>1. q \in Seq(S) /\ r \in S
  BY QueueIsSeq
<1> HIDE DEF S
<1>2. /\ p \in Seq(S) /\ Len(p) = Len(q) + 1
      /\ \A i \in 1 .. Len(q) : p[i] = q[i]
      /\ p[Len(q) + 1] = r
  BY <1>1, AppendProperties
<1> HIDE DEF p
<1>3. p = [i \in 1 .. Len(p) |-> p[i]]
  BY <1>2
<1>4. ASSUME NEW i \in 1 .. Len(p)
      PROVE  ResponseOK(p[i]) /\ (i > 1 => Unsent(p[i]))
  <2>1. CASE i \in 1 .. Len(q)
    BY <2>1, <1>2 DEF QueueOK
  <2>2. CASE i = Len(q) + 1
    BY <2>2, <1>2
  <2> QED
    BY <2>1, <2>2, <1>0, <1>2
<1>5. QueueOK(p)
  BY <1>0, <1>2, <1>3, <1>4 DEF QueueOK
<1> QED
  BY <1>2, <1>5 DEF p

LEMMA TailQueue ==
  ASSUME NEW q, QueueOK(q), q # <<>>
  PROVE  /\ Head(q) = q[1] /\ ResponseOK(q[1])
         /\ QueueOK(Tail(q)) /\ Len(Tail(q)) = Len(q) - 1
         /\ \A i \in 1 .. Len(q) - 1 : Tail(q)[i] = q[i + 1]
<1> DEFINE S == {q[i] : i \in 1 .. Len(q)} \cup {}
           p == Tail(q)
<1>0. Len(q) \in Nat /\ 1 \in 1 .. Len(q)
  BY DEF QueueOK
<1>1. q \in Seq(S)
  BY QueueIsSeq
<1> HIDE DEF S
<1>2. /\ p \in Seq(S) /\ Len(p) = Len(q) - 1 /\ Head(q) = q[1]
      /\ \A i \in 1 .. Len(q) - 1 : p[i] = q[i + 1]
  BY <1>1, HeadTailProperties
<1> HIDE DEF p
<1>3. p = [i \in 1 .. Len(p) |-> p[i]]
  BY <1>2
<1>4. ASSUME NEW i \in 1 .. Len(p)
      PROVE  ResponseOK(p[i]) /\ (i > 1 => Unsent(p[i]))
  <2>1. i \in 1 .. Len(q) - 1 /\ i + 1 \in 1 .. Len(q) /\ i + 1 > 1
    BY <1>0, <1>2
  <2> QED
    BY <2>1, <1>2 DEF QueueOK
<1>5. QueueOK(p)
  BY <1>0, <1>2, <1>3, <1>4 DEF QueueOK
<1> QED
  BY <1>0, <1>2, <1>5 DEF p, QueueOK

LEMMA HeadReplaced ==
  ASSUME NEW q, QueueOK(q), q # <<>>, NEW r, ResponseOK(r)
  PROVE  /\ QueueOK(<<r>> \o Tail(q)) /\ (<<r>> \o Tail(q))[1] = r
         /\ SameTail(<<r>> \o Tail(q), q)
<1> DEFINE T == Tail(q)
           S == {T[i] : i \in 1 .. Len(T)} \cup {r}
           p == <<r>> \o T
<1>0. Len(q) \in Nat /\ 1 \in 1 .. Len(q)
  BY DEF QueueOK
<1>1. /\ QueueOK(T) /\ Len(T) = Len(q) - 1
      /\ \A i \in 1 .. Len(q) - 1 : T[i] = q[i + 1]
  BY TailQueue
<1> HIDE DEF T
<1>2. T \in Seq(S) /\ <<r>> \in Seq(S) /\ Len(<<r>>) = 1 /\ <<r>>[1] = r
  <2>1. T \in Seq(S)
    BY <1>1, QueueIsSeq
  <2>2. r \in S
    OBVIOUS
  <2> HIDE DEF S
  <2> QED
    BY <2>1, <2>2
<1> HIDE DEF S
<1>3. /\ p \in Seq(S) /\ Len(p) = Len(<<r>>) + Len(T)
      /\ \A i \in 1 .. Len(<<r>>) + Len(T) :
           p[i] = IF i <= Len(<<r>>) THEN <<r>>[i] ELSE T[i - Len(<<r>>)]
  BY <1>2, ConcatProperties
<1> HIDE DEF p
<1>4. Len(p) = Len(q) /\ p[1] = r
  BY <1>0, <1>1, <1>2, <1>3
<1>5. ASSUME NEW i \in 2 .. Len(q)
      PROVE  p[i] = q[i]
  <2>1. i \in 1 .. Len(<<r>>) + Len(T) /\ i - 1 \in 1 .. Len(q) - 1 /\ (i - 1) + 1 = i /\ ~(i <= 1)
    BY <1>0, <1>1, <1>2
  <2>2. p[i] = T[i - 1]
    BY <2>1, <1>2, <1>3
  <2> QED
    BY <2>1, <2>2, <1>1
<1>6. ASSUME NEW i \in 1 .. Len(p)
      PROVE  ResponseOK(p[i]) /\ (i > 1 => Unsent(p[i]))
  <2>1. CASE i = 1
    BY <2>1, <1>4
  <2>2. CASE i # 1
    <3>1. i \in 2 .. Len(q) /\ i \in 1 .. Len(q) /\ i > 1
      BY <2>2, <1>0, <1>4
    <3> QED
      BY <3>1, <1>5 DEF QueueOK
  <2> QED
    BY <2>1, <2>2
<1>7. p = [i \in 1 .. Len(p) |-> p[i]]
  BY <1>3
<1>8. QueueOK(p)
  BY <1>0, <1>4, <1>6, <1>7 DEF QueueOK
<1>9. SameTail(p, q)
  BY <1>4, <1>5 DEF SameTail
<1> QED
  BY <1>4, <1>8, <1>9 DEF p, T

-----------------------------------------------------------------------------
(* What a step may do to the queue of client c.                            *)
Leaves(c) ==
  /\ queue'[c] = queue[c] /\ due'[c] = due[c] /\ got'[c] = got[c]
  /\ conn'[c] = conn[c] \/ (conn[c] = "new" /\ conn'[c] = "open")

Enqueues(c) ==
  /\ conn[c] = "open" /\ conn'[c] = "open" /\ got'[c] = got[c]
  /\ \E kind \in Kinds, obj \in live \cup {NoValue} :
       /\ queue'[c] = Append(queue[c], Response(kind, obj))
       /\ due'[c] = due[c] \o Wire(Response(kind, obj))
       /\ obj # NoValue => live' = live

Writes(c) ==
  /\ queue[c] # <<>> /\ conn'[c] = conn[c] /\ due'[c] = due[c] /\ live' = live
  /\ LET r == Moved(Head(queue[c]))
     IN /\ ~Finished(r)
        /\ \E n \in 1 .. Len(Handed(r)) :
             /\ n < Len(Handed(r)) => c \in short'
             /\ got'[c] = got[c] \o SubSeq(Handed(r), 1, n)
             /\ queue'[c] = <<Advanced(r, n)>> \o Tail(queue[c])

Blocks(c) ==
  /\ queue[c] # <<>> /\ conn'[c] = conn[c] /\ due'[c] = due[c] /\ got'[c] = got[c]
  /\ ~Finished(Moved(Head(queue[c])))
  /\ queue'[c] = <<Moved(Head(queue[c]))>> \o Tail(queue[c])

Drops(c) ==
  /\ queue[c] # <<>> /\ conn'[c] = conn[c] /\ due'[c] = due[c] /\ got'[c] = got[c]
  /\ Finished(Moved(Head(queue[c])))
  /\ queue'[c] = Tail(queue[c])

Closes(c) ==
  /\ conn'[c] = "closed" /\ queue'[c] = <<>> /\ due'[c] = due[c] /\ got'[c] = got[c]

(* A value that a client waits for is freed only when the client becomes   *)
(* stale.                                                                  *)
Spares(c) ==
  /\ c \in stale => c \in stale'
  /\ c \in short => c \in short'
  /\ c \notin stale' =>
       \A i \in 1 .. Len(queue[c]) :
         LET o == queue[c][i].obj
         IN o \in live /\ Awaits(queue[c][i], {o}) => o \in live'

-----------------------------------------------------------------------------
StoreOK ==
  /\ conn \in [Clients -> {"new", "open", "closed"}]
  /\ asked \in [Clients -> 0 .. MaxRequests]
  /\ store \in [Keys -> Objects \cup {NoValue}]
  /\ live = {store[k] : k \in Keys} \ {NoValue}

(* An object is named after a command that was received, and is the value  *)
(* of one key only.                                                        *)
ObjectsOK ==
  /\ \A k \in Keys : store[k] # NoValue => store[k][2] <= asked[store[k][1]]
  /\ \A k, m \in Keys : store[k] = store[m] /\ store[k] # NoValue => k = m

Tables ==
  /\ queue = [c \in Clients |-> queue[c]]
  /\ due = [c \in Clients |-> due[c]] /\ got = [c \in Clients |-> got[c]]
  /\ writable \subseteq Clients /\ sending \in Clients \cup {NoClient}

Unfreed(q) ==
  \A i \in 1 .. Len(q) : q[i].obj # NoValue /\ q[i].pos[2] < Full => q[i].obj \in live

WholeItems(q) ==
  \A i \in 1 .. Len(q) : \A j \in 1 .. Len(q[i].pos) : q[i].pos[j] \in {0, Full}

ClientOK(c) ==
  /\ QueueOK(queue[c])
  /\ conn[c] # "open" => queue[c] = <<>>
  /\ c \notin stale => Unfreed(queue[c])
  /\ c \notin short => WholeItems(queue[c])
  /\ c \notin stale \cup short =>
       /\ Begins(got[c], due[c])
       /\ conn[c] # "closed" => OnWire(got[c], due[c], queue[c])

ServerInv ==
  /\ StoreOK /\ ObjectsOK /\ Tables /\ WaitingIsArmed
  /\ \A c \in Clients : ClientOK(c)

LEMMA ServerInit == Init => ServerInv
<1> SUFFICES ASSUME Init PROVE ServerInv
  OBVIOUS
<1>1. StoreOK /\ ObjectsOK /\ Tables /\ WaitingIsArmed
  BY ServerAssumption DEF Init, StoreOK, ObjectsOK, Tables, WaitingIsArmed, NoClient
<1>2. ASSUME NEW c \in Clients
      PROVE  ClientOK(c)
  <2>1. /\ queue[c] = <<>> /\ due[c] = <<>> /\ got[c] = <<>> /\ Len(<<>>) = 0
        /\ <<>> \in Seq(Units)
    BY DEF Init
  <2>2. QueueOK(<<>>) /\ Begins(<<>>, <<>>)
    BY <2>1 DEF QueueOK, Begins
  <2>3. Offsets(<<>>, <<>>, <<>>, <<0>>)
    BY DEF Offsets
  <2> QED
    BY <2>1, <2>2, <2>3 DEF ClientOK, Unfreed, WholeItems, OnWire
<1> QED
  BY <1>1, <1>2 DEF ServerInv

-----------------------------------------------------------------------------
(* One write of a whole item.                                              *)
LEMMA ItemCarried ==
  ASSUME NEW r, ResponseOK(r), r.pos[r.cur] = 0, r.cur = 2 => r.obj \in live
  PROVE  /\ Len(Handed(r)) = Full
         /\ Sent(Advanced(r, Full)) = Sent(r) + Full
         /\ Sent(Advanced(r, Full)) <= Len(Wire(Advanced(r, Full)))
         /\ Carries(SubSeq(Handed(r), 1, Full), Advanced(r, Full), Sent(r), Full)
<1> DEFINE a == Advanced(r, Full)
           w == SubSeq(Handed(r), 1, Full)
<1>1. /\ Len(r.pos) = (IF r.obj = NoValue THEN 1 ELSE 2) /\ r.cur \in 1 .. Len(r.pos)
      /\ \A j \in 1 .. Len(r.pos) : /\ j < r.cur => r.pos[j] = Full
                                    /\ j > r.cur => r.pos[j] = 0
  BY DEF ResponseOK
<1>2. Full \in 1 .. Full - r.pos[r.cur] /\ r.pos[r.cur] \in 0 .. Full
  BY DEF Full
<1>3. /\ ResponseOK(a) /\ a.kind = r.kind /\ a.obj = r.obj /\ Len(a.pos) = Len(r.pos)
      /\ \A j \in 1 .. Len(r.pos) : a.pos[j] = IF j = r.cur THEN r.pos[j] + Full ELSE r.pos[j]
  BY <1>2, AdvancedOK
<1>4. /\ Len(Wire(a)) = 2 * Len(r.pos)
      /\ \A k \in 1 .. 2 * Len(r.pos) :
           Wire(a)[k] = IF k <= 2 THEN Unit(a, 1, k) ELSE Unit(a, 2, k - 2)
  BY <1>3, WireShape
<1> HIDE DEF a
<1>5. /\ Len(Handed(r)) = 2
      /\ \A k \in 1 .. 2 : Handed(r)[k] = InMemory(r, r.cur, k)
  BY DEF Handed, Full
<1>6. ASSUME NEW k \in 1 .. 2
      PROVE  /\ Handed(r)[k] = Unit(a, r.cur, k) /\ Handed(r)[k] \in Units
  <2>1. Handed(r)[k] = Unit(r, r.cur, k)
    BY <1>5 DEF InMemory
  <2>2. Unit(r, r.cur, k) = Unit(a, r.cur, k)
    BY <1>3 DEF Unit
  <2>3. Unit(r, r.cur, k) \in Units
    BY DEF Unit, Units, ResponseOK, Full
  <2> QED
    BY <2>1, <2>2, <2>3
<1>7. /\ w \in Seq(Units) /\ Len(w) = 2 /\ \A k \in 1 .. 2 : w[k] = Handed(r)[k]
  <2>1. /\ SubSeq(Handed(r), 1, 2) \in Seq(Units)
        /\ Len(SubSeq(Handed(r), 1, 2)) = IF 1 <= 2 THEN 2 - 1 + 1 ELSE 0
        /\ \A k \in 1 .. 2 - 1 + 1 : SubSeq(Handed(r), 1, 2)[k] = Handed(r)[1 + k - 1]
    BY <1>6, SubSeqProperties
  <2> QED
    BY <2>1 DEF Full
<1> HIDE DEF w
<1>8. CASE r.cur = 1
  <2>1. Sent(r) = 0 /\ Sent(a) = 2
    BY <1>1, <1>3, <1>8 DEF Sent, Full
  <2>2. \A k \in 1 .. 2 : w[k] = Wire(a)[k]
    BY <1>1, <1>4, <1>6, <1>7, <1>8
  <2>3. Carries(w, a, Sent(r), 2)
    BY <1>7, <2>1, <2>2 DEF Carries
  <2> QED
    BY <1>1, <1>4, <1>5, <2>1, <2>3 DEF a, w, Full
<1>9. CASE r.cur = 2
  <2>1. Sent(r) = 2 /\ Sent(a) = 4 /\ Len(r.pos) = 2
    BY <1>1, <1>3, <1>9 DEF Sent, Full
  <2>2. ASSUME NEW k \in 1 .. 2
        PROVE  w[k] = Wire(a)[2 + k]
    <3>1. 2 + k \in 1 .. 2 * Len(r.pos) /\ ~(2 + k <= 2) /\ (2 + k) - 2 = k
      BY <2>1
    <3>2. Wire(a)[2 + k] = Unit(a, 2, k)
      BY <3>1, <1>4
    <3> QED
      BY <3>2, <1>6, <1>7, <1>9
  <2>3. Carries(w, a, Sent(r), 2)
    BY <1>7, <2>1, <2>2 DEF Carries
  <2> QED
    BY <1>4, <1>5, <2>1, <2>3 DEF a, w, Full
<1> QED
  BY <1>1, <1>8, <1>9

LEMMA SentWholly ==
  ASSUME NEW r, ResponseOK(r), \A j \in 1 .. Len(r.pos) : r.pos[j] = Full
  PROVE  Sent(r) = Len(Wire(r))
<1>1. Len(Wire(r)) = 2 * Len(r.pos) /\ Len(r.pos) = IF r.obj = NoValue THEN 1 ELSE 2
  BY WireShape DEF ResponseOK
<1> QED
  BY <1>1 DEF Sent, Full

-----------------------------------------------------------------------------
(* Each of them keeps ClientOK.                                            *)
LEMMA StillUnfreed ==
  ASSUME NEW c \in Clients, ClientOK(c), Spares(c), c \notin stale'
  PROVE  \A i \in 1 .. Len(queue[c]) :
           queue[c][i].obj # NoValue /\ queue[c][i].pos[2] < Full => queue[c][i].obj \in live'
<1>1. Unfreed(queue[c])
  BY DEF ClientOK, Spares
<1> QED
  BY <1>1 DEF Unfreed, Spares, Awaits

LEMMA LeavesKeeps ==
  ASSUME NEW c \in Clients, ClientOK(c), Spares(c), Leaves(c)
  PROVE  ClientOK(c)'
<1>1. QueueOK(queue[c])'
  BY DEF ClientOK, Leaves
<1>2. conn'[c] # "open" => queue'[c] = <<>>
  BY DEF ClientOK, Leaves
<1>3. c \notin stale' => Unfreed(queue[c])'
  BY StillUnfreed DEF Unfreed, Leaves
<1>4. c \notin short' => WholeItems(queue[c])'
  BY DEF ClientOK, Spares, WholeItems, Leaves
<1>5. c \notin stale' \cup short' =>
       /\ Begins(got[c], due[c])'
       /\ conn'[c] # "closed" => OnWire(got[c], due[c], queue[c])'
  <2>1. SUFFICES ASSUME c \notin stale' \cup short'
                 PROVE  /\ Begins(got'[c], due'[c])
                        /\ conn'[c] # "closed" => OnWire(got'[c], due'[c], queue'[c])
    BY DEF Begins, OnWire, Offsets, Laid
  <2> QED
    BY <2>1 DEF ClientOK, Spares, Leaves
<1> QED
  BY <1>1, <1>2, <1>3, <1>4, <1>5 DEF ClientOK

LEMMA ClosesKeeps ==
  ASSUME NEW c \in Clients, ClientOK(c), Spares(c), Closes(c)
  PROVE  ClientOK(c)'
<1>1. queue'[c] = <<>> /\ Len(<<>>) = 0 /\ conn'[c] = "closed"
  BY DEF Closes
<1>2. QueueOK(queue'[c]) /\ Unfreed(queue[c])' /\ WholeItems(queue'[c])
  BY <1>1 DEF QueueOK, Unfreed, WholeItems
<1>3. c \notin stale' \cup short' => Begins(got'[c], due'[c])
  BY DEF ClientOK, Spares, Closes
<1> QED
  BY <1>1, <1>2, <1>3 DEF ClientOK

LEMMA EnqueuesKeeps ==
  ASSUME NEW c \in Clients, StoreOK, ClientOK(c), Spares(c), Enqueues(c)
  PROVE  ClientOK(c)'
<1>1. PICK kind \in Kinds, obj \in live \cup {NoValue} :
        /\ queue'[c] = Append(queue[c], Response(kind, obj))
        /\ due'[c] = due[c] \o Wire(Response(kind, obj))
        /\ obj # NoValue => live' = live
  BY DEF Enqueues
<1> DEFINE r == Response(kind, obj)
           q == queue[c]
           p == queue'[c]
<1>2. ResponseOK(r) /\ Unsent(r) /\ r.obj = obj
  <2>1. obj \in Objects \cup {NoValue}
    BY DEF StoreOK
  <2> QED
    BY <2>1, NewResponse
<1> HIDE DEF r
<1>3. QueueOK(q) /\ Len(q) \in Nat
  BY DEF ClientOK, QueueOK
<1>4. QueueOK(p) /\ Len(p) = Len(q) + 1 /\ (\A i \in 1 .. Len(q) : p[i] = q[i]) /\ p[Len(q) + 1] = r
  <2>1. p = Append(q, r)
    BY <1>1 DEF r
  <2> QED
    BY <2>1, <1>2, <1>3, AppendedQueue
<1>5. conn'[c] = "open" /\ conn[c] = "open" /\ got'[c] = got[c]
  BY DEF Enqueues
<1>6. c \notin stale' => Unfreed(queue[c])'
  <2>1. SUFFICES ASSUME c \notin stale', NEW i \in 1 .. Len(p), p[i].obj # NoValue, p[i].pos[2] < Full
                 PROVE  p[i].obj \in live'
    BY DEF Unfreed
  <2>2. CASE i \in 1 .. Len(q)
    BY <2>1, <2>2, <1>4, StillUnfreed
  <2>3. CASE i = Len(q) + 1
    <3>1. p[i].obj = obj
      BY <2>3, <1>2, <1>4
    <3> QED
      BY <2>1, <3>1, <1>1
  <2> QED
    BY <2>2, <2>3, <1>3, <1>4
<1>7. c \notin short' => WholeItems(queue[c])'
  <2>1. SUFFICES ASSUME c \notin short', NEW i \in 1 .. Len(p), NEW j \in 1 .. Len(p[i].pos)
                 PROVE  p[i].pos[j] \in {0, Full}
    BY DEF WholeItems
  <2>2. CASE i \in 1 .. Len(q)
    BY <2>1, <2>2, <1>4 DEF ClientOK, Spares, WholeItems
  <2>3. CASE i = Len(q) + 1
    BY <2>3, <1>2, <1>4 DEF Unsent
  <2> QED
    BY <2>2, <2>3, <1>3, <1>4
<1>8. c \notin stale' \cup short' => Begins(got'[c], due'[c]) /\ OnWire(got'[c], due'[c], p)
  <2>1. SUFFICES ASSUME c \notin stale' \cup short'
                 PROVE  Begins(got'[c], due'[c]) /\ OnWire(got'[c], due'[c], p)
    OBVIOUS
  <2>2. Begins(got[c], due[c]) /\ OnWire(got[c], due[c], q)
    BY <2>1, <1>5 DEF ClientOK, Spares
  <2>3. p[Len(p)] = r
    BY <1>4
  <2>4. Begins(got[c], due[c] \o Wire(r)) /\ OnWire(got[c], due[c] \o Wire(r), p)
    BY <2>2, <2>3, <1>2, <1>3, <1>4, EnqueuedOnWire
  <2> QED
    BY <2>4, <1>1, <1>5 DEF r
<1> QED
  BY <1>4, <1>5, <1>6, <1>7, <1>8 DEF ClientOK

LEMMA DropsKeeps ==
  ASSUME NEW c \in Clients, ClientOK(c), Spares(c), Drops(c)
  PROVE  ClientOK(c)'
<1> DEFINE q == queue[c]
           p == queue'[c]
<1>1. QueueOK(q) /\ q # <<>> /\ Len(q) \in Nat
  BY DEF ClientOK, Drops, QueueOK
<1>2. /\ Head(q) = q[1] /\ ResponseOK(q[1])
      /\ QueueOK(p) /\ Len(p) = Len(q) - 1
      /\ \A i \in 1 .. Len(q) - 1 : p[i] = q[i + 1]
  BY <1>1, TailQueue DEF Drops
<1>3. Sent(q[1]) = Len(Wire(q[1]))
  BY <1>2, MovedOK, SentWholly DEF Drops
<1>4. conn'[c] = conn[c] /\ conn[c] = "open" /\ got'[c] = got[c] /\ due'[c] = due[c]
  BY <1>1 DEF Drops, ClientOK
<1>5. \A i \in 1 .. Len(p) : i + 1 \in 1 .. Len(q) /\ p[i] = q[i + 1]
  BY <1>1, <1>2
<1>6. c \notin stale' => Unfreed(queue[c])'
  BY <1>5, StillUnfreed DEF Unfreed
<1>7. c \notin short' => WholeItems(queue[c])'
  BY <1>5 DEF ClientOK, Spares, WholeItems
<1>8. c \notin stale' \cup short' => Begins(got'[c], due'[c]) /\ OnWire(got'[c], due'[c], p)
  <2>1. SUFFICES ASSUME c \notin stale' \cup short'
                 PROVE  Begins(got'[c], due'[c]) /\ OnWire(got'[c], due'[c], p)
    OBVIOUS
  <2>2. Begins(got[c], due[c]) /\ OnWire(got[c], due[c], q)
    BY <2>1, <1>4 DEF ClientOK, Spares
  <2>3. OnWire(got[c], due[c], p)
    BY <2>2, <1>1, <1>2, <1>3, <1>5, TailOnWire
  <2> QED
    BY <2>2, <2>3, <1>4
<1> QED
  BY <1>2, <1>4, <1>6, <1>7, <1>8 DEF ClientOK

(* The first response after it moved, and after a write, is as the queue   *)
(* needs it.                                                               *)
LEMMA HeadMoved ==
  ASSUME NEW c \in Clients, ClientOK(c), queue[c] # <<>>,
         NEW r, r = Moved(Head(queue[c])), ~Finished(r)
  PROVE  /\ QueueOK(queue[c]) /\ conn[c] = "open"
         /\ 1 \in 1 .. Len(queue[c]) /\ Len(queue[c]) \in Nat
         /\ ResponseOK(r) /\ r.pos[r.cur] \in 0 .. Full - 1
         /\ r.kind = queue[c][1].kind /\ r.obj = queue[c][1].obj /\ r.pos = queue[c][1].pos
<1>1. QueueOK(queue[c]) /\ conn[c] = "open"
  BY DEF ClientOK
<1>2. 1 \in 1 .. Len(queue[c]) /\ Len(queue[c]) \in Nat
  BY <1>1 DEF QueueOK
<1>3. Head(queue[c]) = queue[c][1] /\ ResponseOK(queue[c][1])
  BY <1>1, TailQueue
<1> QED
  BY <1>1, <1>2, <1>3, MovedOK

LEMMA BlocksKeeps ==
  ASSUME NEW c \in Clients, ClientOK(c), Spares(c), Blocks(c)
  PROVE  ClientOK(c)'
<1> DEFINE q == queue[c]
           p == queue'[c]
           r == Moved(Head(q))
<1>1. q # <<>> /\ ~Finished(r) /\ p = <<r>> \o Tail(q)
  BY DEF Blocks
<1>2. conn'[c] = conn[c] /\ got'[c] = got[c] /\ due'[c] = due[c]
  BY DEF Blocks
<1>3. /\ QueueOK(q) /\ conn[c] = "open" /\ 1 \in 1 .. Len(q) /\ Len(q) \in Nat
      /\ ResponseOK(r) /\ r.kind = q[1].kind /\ r.obj = q[1].obj /\ r.pos = q[1].pos
  BY <1>1, HeadMoved
<1> HIDE DEF r
<1>4. QueueOK(p) /\ p[1] = r /\ SameTail(p, q)
  BY <1>1, <1>3, HeadReplaced
<1>5. ASSUME NEW i \in 1 .. Len(p)
      PROVE  i \in 1 .. Len(q) /\ p[i].obj = q[i].obj /\ p[i].pos = q[i].pos
  <2>1. CASE i = 1
    BY <2>1, <1>3, <1>4
  <2>2. CASE i # 1
    <3>1. i \in 2 .. Len(q) /\ i \in 1 .. Len(q)
      BY <2>2, <1>3, <1>4 DEF SameTail
    <3> QED
      BY <3>1, <1>4 DEF SameTail
  <2> QED
    BY <2>1, <2>2
<1>6. c \notin stale' => Unfreed(queue[c])'
  BY <1>5, StillUnfreed DEF Unfreed
<1>7. c \notin short' => WholeItems(queue[c])'
  BY <1>5 DEF ClientOK, Spares, WholeItems
<1>8. c \notin stale' \cup short' => Begins(got'[c], due'[c]) /\ OnWire(got'[c], due'[c], p)
  <2>1. SUFFICES ASSUME c \notin stale' \cup short'
                 PROVE  Begins(got'[c], due'[c]) /\ OnWire(got'[c], due'[c], p)
    OBVIOUS
  <2>2. Begins(got[c], due[c]) /\ OnWire(got[c], due[c], q)
    BY <2>1, <1>3 DEF ClientOK, Spares
  <2>3. Sent(r) = Sent(q[1])
    BY <1>3 DEF Sent
  <2>4. PICK off : Offsets(got[c], due[c], q, off)
    BY <2>2 DEF OnWire
  <2>5. ASSUME NEW i \in 1 .. Len(p)
        PROVE  Laid(due[c], p[i], off[i], off[i + 1])
    <3>1. i \in 1 .. Len(q) /\ p[i].obj = q[i].obj
      BY <1>5
    <3>2. p[i].kind = q[i].kind
      <4>1. CASE i = 1
        BY <4>1, <1>3, <1>4
      <4>2. CASE i # 1
        BY <4>2, <3>1, <1>4 DEF SameTail
      <4> QED
        BY <4>1, <4>2
    <3>3. Wire(p[i]) = Wire(q[i])
      BY <3>1, <3>2, WireOf
    <3>4. Laid(due[c], q[i], off[i], off[i + 1])
      BY <3>1, <2>4 DEF Offsets
    <3> QED
      BY <3>3, <3>4 DEF Laid
  <2>6. Len(p) = Len(q) /\ p # <<>>
    BY <1>3, <1>4 DEF SameTail
  <2>7. Offsets(got[c], due[c], p, off)
    BY <2>3, <2>4, <2>5, <2>6, <1>1, <1>4 DEF Offsets
  <2> QED
    BY <2>2, <2>7, <1>2 DEF OnWire
<1> QED
  BY <1>2, <1>3, <1>4, <1>6, <1>7, <1>8 DEF ClientOK

LEMMA WritesKeeps ==
  ASSUME NEW c \in Clients, ClientOK(c), Spares(c), Writes(c)
  PROVE  ClientOK(c)'
<1> DEFINE q == queue[c]
           p == queue'[c]
           r == Moved(Head(q))
<1>1. q # <<>> /\ ~Finished(r)
  BY DEF Writes
<1>2. PICK n \in 1 .. Len(Handed(r)) :
        /\ n < Len(Handed(r)) => c \in short'
        /\ got'[c] = got[c] \o SubSeq(Handed(r), 1, n)
        /\ p = <<Advanced(r, n)>> \o Tail(q)
  BY DEF Writes
<1>3. conn'[c] = conn[c] /\ due'[c] = due[c] /\ live' = live
  BY DEF Writes
<1>4. /\ QueueOK(q) /\ conn[c] = "open" /\ 1 \in 1 .. Len(q) /\ Len(q) \in Nat
      /\ ResponseOK(r) /\ r.pos[r.cur] \in 0 .. Full - 1
      /\ r.kind = q[1].kind /\ r.obj = q[1].obj /\ r.pos = q[1].pos
  BY <1>1, HeadMoved
<1> HIDE DEF r
<1> DEFINE a == Advanced(r, n)
<1>5. Len(Handed(r)) = Full - r.pos[r.cur]
  BY <1>4 DEF Handed, Full
<1>6. n \in 1 .. Full - r.pos[r.cur] /\ r.pos[r.cur] \in 0 .. Full
  BY <1>4, <1>5 DEF Full
<1>7. /\ ResponseOK(a) /\ a.kind = q[1].kind /\ a.obj = q[1].obj /\ Len(a.pos) = Len(q[1].pos)
      /\ \A j \in 1 .. Len(q[1].pos) :
           a.pos[j] = IF j = r.cur THEN q[1].pos[j] + n ELSE q[1].pos[j]
  BY <1>4, <1>6, AdvancedOK
<1> HIDE DEF a
<1>8. QueueOK(p) /\ p[1] = a /\ SameTail(p, q)
  BY <1>1, <1>2, <1>4, <1>7, HeadReplaced DEF a
<1>9. \A i \in 1 .. Len(p) : i \in 1 .. Len(q) /\ (i # 1 => p[i] = q[i])
  BY <1>4, <1>8 DEF SameTail
<1>10. c \notin stale' => Unfreed(queue[c])'
  <2>1. SUFFICES ASSUME c \notin stale', NEW i \in 1 .. Len(p), p[i].obj # NoValue, p[i].pos[2] < Full
                 PROVE  p[i].obj \in live'
    BY DEF Unfreed
  <2>2. CASE i = 1
    <3>1. Len(q[1].pos) = 2 /\ q[1].pos \in Seq(0 .. Full)
      BY <2>1, <2>2, <1>4, <1>7, <1>8 DEF ResponseOK
    <3>2. q[1].pos[2] \in 0 .. Full
      <4>1. 2 \in 1 .. Len(q[1].pos)
        BY <3>1
      <4> QED
        BY <3>1, <4>1, ElementOfSeq
    <3>3. q[1].pos[2] < Full
      BY <2>1, <2>2, <3>1, <3>2, <1>6, <1>7, <1>8 DEF Full
    <3> QED
      BY <2>1, <2>2, <3>3, <1>4, <1>7, <1>8, StillUnfreed
  <2>3. CASE i # 1
    BY <2>1, <2>3, <1>9, StillUnfreed
  <2> QED
    BY <2>2, <2>3
<1>11. ASSUME c \notin short'
       PROVE  n = Full /\ r.pos[r.cur] = 0
  <2>1. n = Full - r.pos[r.cur]
    BY <1>2, <1>4, <1>5, <1>6, <1>11 DEF Full
  <2>2. r.pos[r.cur] \in {0, Full}
    <3>1. r.cur \in 1 .. Len(q[1].pos)
      BY <1>4 DEF ResponseOK
    <3> QED
      BY <3>1, <1>4, <1>11 DEF ClientOK, Spares, WholeItems
  <2> QED
    BY <2>1, <2>2, <1>4 DEF Full
<1>12. c \notin short' => WholeItems(queue[c])'
  <2>1. SUFFICES ASSUME c \notin short', NEW i \in 1 .. Len(p), NEW j \in 1 .. Len(p[i].pos)
                 PROVE  p[i].pos[j] \in {0, Full}
    BY DEF WholeItems
  <2>2. WholeItems(q)
    BY <2>1 DEF ClientOK, Spares
  <2>3. CASE i = 1
    <3>1. j \in 1 .. Len(q[1].pos) /\ q[1].pos[j] \in {0, Full}
      BY <2>1, <2>2, <2>3, <1>4, <1>7, <1>8 DEF WholeItems
    <3> QED
      BY <2>1, <2>3, <3>1, <1>4, <1>7, <1>8, <1>11 DEF Full
  <2>4. CASE i # 1
    BY <2>1, <2>2, <2>4, <1>9 DEF WholeItems
  <2> QED
    BY <2>3, <2>4
<1>13. c \notin stale' \cup short' => Begins(got'[c], due'[c]) /\ OnWire(got'[c], due'[c], p)
  <2>1. SUFFICES ASSUME c \notin stale' \cup short'
                 PROVE  Begins(got'[c], due'[c]) /\ OnWire(got'[c], due'[c], p)
    OBVIOUS
  <2>2. Begins(got[c], due[c]) /\ OnWire(got[c], due[c], q)
    BY <2>1, <1>4 DEF ClientOK, Spares
  <2>3. n = Full /\ r.pos[r.cur] = 0
    BY <2>1, <1>11
  <2>4. r.cur = 2 => r.obj \in live
    <3>1. SUFFICES ASSUME r.cur = 2 PROVE r.obj \in live
      OBVIOUS
    <3>2. r.obj # NoValue /\ q[1].pos[2] < Full
      BY <3>1, <2>3, <1>4 DEF ResponseOK, Full
    <3> QED
      BY <2>1, <3>2, <1>4 DEF ClientOK, Spares, Unfreed
  <2>5. /\ Sent(a) = Sent(r) + Full /\ Sent(a) <= Len(Wire(a))
        /\ Carries(SubSeq(Handed(r), 1, Full), a, Sent(r), Full)
    BY <2>3, <2>4, <1>4, ItemCarried DEF a
  <2>6. Sent(r) = Sent(q[1]) /\ Full \in Nat
    BY <1>4 DEF Sent, Full
  <2>7. /\ Begins(got[c] \o SubSeq(Handed(r), 1, Full), due[c])
        /\ OnWire(got[c] \o SubSeq(Handed(r), 1, Full), due[c], p)
    BY <2>2, <2>5, <2>6, <1>1, <1>4, <1>7, <1>8, SentOnWire
  <2> QED
    BY <2>3, <2>7, <1>2, <1>3
<1> QED
  BY <1>3, <1>4, <1>8, <1>10, <1>12, <1>13 DEF ClientOK

-----------------------------------------------------------------------------
(* The server's steps are those.                                           *)
Steps(c) ==
  /\ Leaves(c) \/ Enqueues(c) \/ Writes(c) \/ Blocks(c) \/ Drops(c) \/ Closes(c)
  /\ Spares(c)

LEMMA StepKeeps ==
  ASSUME NEW c \in Clients, StoreOK, ClientOK(c), Steps(c)
  PROVE  ClientOK(c)'
BY LeavesKeeps, EnqueuesKeeps, WritesKeeps, BlocksKeeps, DropsKeeps, ClosesKeeps DEF Steps

LEMMA ReplySteps ==
  ASSUME ServerInv, NEW c \in Clients, Receives(c),
         NEW kind \in Kinds, NEW obj \in live \cup {NoValue}, Reply(c, Response(kind, obj)),
         obj # NoValue => live' = live, \A x \in Clients : Spares(x)
  PROVE  \A x \in Clients : Steps(x)
<1>1. ASSUME NEW x \in Clients, x # c
      PROVE  Leaves(x)
  BY <1>1 DEF ServerInv, Tables, Reply, Receives, Leaves
<1>2. Enqueues(c)
  BY DEF ServerInv, Tables, Reply, Receives, Enqueued, Enqueues
<1> QED
  BY <1>1, <1>2 DEF Steps

LEMMA StoreSpares ==
  ASSUME live' = live, stale' = stale, short \subseteq short'
  PROVE  \A x \in Clients : Spares(x)
BY DEF Spares

LEMMA SetSpares ==
  ASSUME ServerInv, NEW c \in Clients, NEW k \in Keys, Set(c, k)
  PROVE  \A x \in Clients : Spares(x)
<1>1. SUFFICES ASSUME NEW x \in Clients PROVE Spares(x)
  OBVIOUS
<1>2. /\ live' = (live \ {store[k]}) \cup {<<c, asked'[c]>>} /\ short' = short
      /\ stale' = stale \cup {y \in Clients : \E i \in DOMAIN queue[y] : Awaits(queue[y][i], {store[k]})}
  BY DEF Set, Freed, Receives
<1>3. ASSUME x \notin stale', NEW i \in 1 .. Len(queue[x]),
             queue[x][i].obj \in live, Awaits(queue[x][i], {queue[x][i].obj})
      PROVE  queue[x][i].obj \in live'
  <2>1. i \in DOMAIN queue[x]
    BY DEF ServerInv, ClientOK, QueueOK
  <2>2. ~Awaits(queue[x][i], {store[k]})
    BY <1>2, <1>3, <2>1
  <2>3. queue[x][i].obj # store[k]
    BY <1>3, <2>2 DEF Awaits
  <2> QED
    BY <1>2, <1>3, <2>3
<1> QED
  BY <1>2, <1>3 DEF Spares

LEMMA AllStep ==
  ASSUME ServerInv, [Next]_vars
  PROVE  \A x \in Clients : Steps(x)
<1>1. CASE UNCHANGED vars
  <2>1. \A x \in Clients : Spares(x)
    BY <1>1, StoreSpares DEF vars, history
  <2>2. \A x \in Clients : Leaves(x)
    BY <1>1 DEF vars, history, Leaves
  <2> QED
    BY <2>1, <2>2 DEF Steps
<1>2. CASE Next
  <2>1. PICK c \in Clients :
          \/ Accept(c) \/ Command(c) \/ Disconnect(c) \/ SendBegin(c) \/ Progress(c)
          \/ WouldBlock(c) \/ WriteFails(c)
    BY <1>2 DEF Next
  <2>2. CASE Accept(c)
    <3>1. \A x \in Clients : Spares(x)
      BY <2>2, StoreSpares DEF Accept, history
    <3>2. \A x \in Clients : Leaves(x)
      BY <2>2 DEF Accept, history, Leaves, ServerInv, StoreOK
    <3> QED
      BY <3>1, <3>2 DEF Steps
  <2>3. CASE \E k \in Keys : Set(c, k)
    <3>1. PICK k \in Keys : Set(c, k)
      BY <2>3
    <3>2. \A x \in Clients : Spares(x)
      BY <3>1, SetSpares
    <3>3. Receives(c) /\ Reply(c, Response("ok", NoValue)) /\ "ok" \in Kinds
      BY <3>1 DEF Set, Kinds
    <3> QED
      BY <3>2, <3>3, ReplySteps
  <2>4. CASE \E k \in Keys : Get(c, k)
    <3>1. PICK k \in Keys : Get(c, k)
      BY <2>4
    <3>2. /\ Receives(c) /\ live' = live /\ stale' = stale /\ short' = short
          /\ Reply(c, IF store[k] = NoValue THEN Response("err", NoValue)
                      ELSE Response("value", store[k]))
      BY <3>1 DEF Get, Receives
    <3>3. \A x \in Clients : Spares(x)
      BY <3>2, StoreSpares
    <3>4. CASE store[k] = NoValue
      <4>1. Reply(c, Response("err", NoValue)) /\ "err" \in Kinds
        BY <3>2, <3>4 DEF Kinds
      <4> QED
        BY <3>2, <3>3, <4>1, ReplySteps
    <3>5. CASE store[k] # NoValue
      <4>1. Reply(c, Response("value", store[k])) /\ "value" \in Kinds
        BY <3>2, <3>5 DEF Kinds
      <4>2. store[k] \in live
        BY <3>5 DEF ServerInv, StoreOK
      <4> QED
        BY <3>2, <3>3, <4>1, <4>2, ReplySteps
    <3> QED
      BY <3>4, <3>5
  <2>5. CASE BadArguments(c)
    <3>1. /\ Receives(c) /\ live' = live /\ stale' = stale /\ short' = short
          /\ Reply(c, Response("err", NoValue)) /\ "err" \in Kinds
      BY <2>5 DEF BadArguments, Receives, Kinds
    <3>2. \A x \in Clients : Spares(x)
      BY <3>1, StoreSpares
    <3> QED
      BY <3>1, <3>2, ReplySteps
  <2>6. CASE Unknown(c)
    <3>1. \A x \in Clients : Spares(x)
      BY <2>6, StoreSpares DEF Unknown, Receives
    <3>2. \A x \in Clients : Leaves(x)
      BY <2>6 DEF Unknown, Receives, Leaves
    <3> QED
      BY <3>1, <3>2 DEF Steps
  <2>7. CASE Disconnect(c) \/ WriteFails(c)
    <3>0. Deleted(c)
      BY <2>7 DEF Disconnect, WriteFails
    <3>1. \A x \in Clients : Spares(x)
      BY <3>0, StoreSpares DEF Deleted, history
    <3>2. Closes(c)
      BY <3>0 DEF Deleted, history, Closes, ServerInv, StoreOK, Tables
    <3>3. ASSUME NEW x \in Clients, x # c
          PROVE  Leaves(x)
      BY <3>0, <3>3 DEF Deleted, history, Leaves, ServerInv, StoreOK, Tables
    <3> QED
      BY <3>1, <3>2, <3>3 DEF Steps
  <2>8. CASE SendBegin(c) \/ SendEnd(c)
    <3>1. \A x \in Clients : Spares(x)
      BY <2>8, StoreSpares DEF SendBegin, SendEnd, history
    <3>2. \A x \in Clients : Leaves(x)
      BY <2>8 DEF SendBegin, SendEnd, history, Leaves
    <3> QED
      BY <3>1, <3>2 DEF Steps
  <2>9. CASE \E n \in {Half, Full} : Write(c, n)
    <3>1. PICK n \in {Half, Full} : Write(c, n)
      BY <2>9
    <3>2. live' = live /\ stale' = stale /\ short \subseteq short'
      BY <3>1 DEF Write
    <3>3. \A x \in Clients : Spares(x)
      BY <3>2, StoreSpares
    <3>4. ASSUME NEW x \in Clients, x # c
          PROVE  Leaves(x)
      BY <3>1, <3>4 DEF Write, Leaves, ServerInv, Tables
    <3>5. Current(c) = Moved(Head(queue[c]))
      BY DEF Current, Moved
    <3>6. Writes(c)
      BY <3>1, <3>5 DEF Write, Writes, ServerInv, Tables
    <3> QED
      BY <3>3, <3>4, <3>6 DEF Steps
  <2>10. CASE WouldBlock(c)
    <3>1. \A x \in Clients : Spares(x)
      BY <2>10, StoreSpares DEF WouldBlock, history
    <3>2. ASSUME NEW x \in Clients, x # c
          PROVE  Leaves(x)
      BY <2>10, <3>2 DEF WouldBlock, history, Leaves, ServerInv, Tables
    <3>3. Current(c) = Moved(Head(queue[c]))
      BY DEF Current, Moved
    <3>4. Blocks(c)
      BY <2>10, <3>3 DEF WouldBlock, history, Blocks, ServerInv, Tables
    <3> QED
      BY <3>1, <3>2, <3>4 DEF Steps
  <2>11. CASE DeleteHead(c)
    <3>1. \A x \in Clients : Spares(x)
      BY <2>11, StoreSpares DEF DeleteHead, history
    <3>2. ASSUME NEW x \in Clients, x # c
          PROVE  Leaves(x)
      BY <2>11, <3>2 DEF DeleteHead, history, Leaves, ServerInv, Tables
    <3>3. Current(c) = Moved(Head(queue[c]))
      BY DEF Current, Moved
    <3>4. Drops(c)
      BY <2>11, <3>3 DEF DeleteHead, history, Drops, ServerInv, Tables
    <3> QED
      BY <3>1, <3>2, <3>4 DEF Steps
  <2>12. \/ Accept(c) \/ (\E k \in Keys : Set(c, k)) \/ (\E k \in Keys : Get(c, k))
         \/ BadArguments(c) \/ Unknown(c) \/ (Disconnect(c) \/ WriteFails(c))
         \/ (SendBegin(c) \/ SendEnd(c)) \/ (\E n \in {Half, Full} : Write(c, n))
         \/ WouldBlock(c) \/ DeleteHead(c)
    BY <2>1 DEF Command, Progress
  <2> QED
    BY <2>12, <2>2, <2>3, <2>4, <2>5, <2>6, <2>7, <2>8, <2>9, <2>10, <2>11
<1> QED
  BY <1>1, <1>2

(* What the steps keep of the dict and of the tables.                      *)
LEMMA StoreKept ==
  ASSUME ServerInv, [Next]_vars
  PROVE  StoreOK' /\ ObjectsOK'
<1>0. StoreOK /\ ObjectsOK
  BY DEF ServerInv
<1>1. CASE conn' \in [Clients -> {"new", "open", "closed"}] /\ asked' = asked /\ store' = store /\ live' = live
  BY <1>0, <1>1 DEF StoreOK, ObjectsOK
<1>2. ASSUME NEW c \in Clients, Receives(c)
      PROVE  /\ conn' = conn /\ asked' \in [Clients -> 0 .. MaxRequests]
             /\ asked[c] \in Nat /\ asked'[c] = asked[c] + 1
             /\ asked'[c] \in 1 .. MaxRequests
             /\ \A x \in Clients : asked[x] \in Nat /\ asked'[x] \in Nat /\ asked[x] <= asked'[x]
  BY <1>0, <1>2, ServerAssumption DEF Receives, StoreOK
<1>3. ASSUME NEW c \in Clients, Receives(c), store' = store, live' = live
      PROVE  StoreOK' /\ ObjectsOK'
  <2>1. StoreOK'
    BY <1>0, <1>2, <1>3 DEF StoreOK
  <2>2. ASSUME NEW k \in Keys, store[k] # NoValue
        PROVE  store[k][2] <= asked'[store[k][1]]
    <3>1. store[k] \in Clients \X (1 .. MaxRequests)
      BY <1>0, <2>2 DEF StoreOK, Objects
    <3>2. store[k][1] \in Clients /\ store[k][2] \in Nat
      BY <3>1
    <3>3. store[k][2] <= asked[store[k][1]]
      BY <1>0, <2>2 DEF ObjectsOK
    <3> QED
      BY <3>2, <3>3, <1>2, <1>3
  <2> QED
    BY <2>1, <2>2, <1>0, <1>3 DEF ObjectsOK
<1>4. ASSUME NEW c \in Clients, NEW k \in Keys, Set(c, k)
      PROVE  StoreOK' /\ ObjectsOK'
  <2> DEFINE new == <<c, asked'[c]>>
  <2>0. Receives(c)
    BY <1>4 DEF Set
  <2>1. new \in Objects /\ new # NoValue /\ new[1] = c /\ new[2] = asked'[c]
    BY <2>0, <1>2, ServerAssumption DEF Objects
  <2>2. store' = [store EXCEPT ![k] = new] /\ live' = (live \ {store[k]}) \cup {new}
    BY <1>4 DEF Set, Freed
  <2> HIDE DEF new
  <2>3. store' \in [Keys -> Objects \cup {NoValue}]
        /\ \A m \in Keys : store'[m] = IF m = k THEN new ELSE store[m]
    BY <1>0, <2>1, <2>2 DEF StoreOK
  <2>4. ASSUME NEW m \in Keys, store[m] # NoValue
        PROVE  store[m] # new /\ store[m][2] <= asked'[store[m][1]]
    <3>1. store[m] \in Clients \X (1 .. MaxRequests)
      BY <1>0, <2>4 DEF StoreOK, Objects
    <3>2. store[m][1] \in Clients /\ store[m][2] \in Nat
      BY <3>1
    <3>3. store[m][2] <= asked[store[m][1]]
      BY <1>0, <2>4 DEF ObjectsOK
    <3>4. store[m] # new
      BY <3>2, <3>3, <2>0, <2>1, <1>2
    <3> QED
      BY <3>2, <3>3, <3>4, <2>0, <1>2
  <2>5. live' = {store'[m] : m \in Keys} \ {NoValue}
    BY <1>0, <2>1, <2>2, <2>3, <2>4 DEF StoreOK, ObjectsOK
  <2>6. StoreOK'
    BY <1>0, <2>0, <2>3, <2>5, <1>2 DEF StoreOK
  <2>7. ASSUME NEW m \in Keys, store'[m] # NoValue
        PROVE  store'[m][2] <= asked'[store'[m][1]]
    BY <2>0, <2>1, <2>3, <2>4, <2>7, <1>2
  <2>8. ASSUME NEW m \in Keys, NEW l \in Keys, store'[m] = store'[l], store'[m] # NoValue
        PROVE  m = l
    BY <1>0, <2>3, <2>4, <2>8 DEF ObjectsOK
  <2> QED
    BY <2>6, <2>7, <2>8 DEF ObjectsOK
<1>5. CASE UNCHANGED vars
  BY <1>0, <1>1, <1>5 DEF vars, StoreOK
<1>6. CASE Next
  <2>1. PICK c \in Clients :
          \/ Accept(c) \/ Command(c) \/ Disconnect(c) \/ SendBegin(c) \/ Progress(c)
          \/ WouldBlock(c) \/ WriteFails(c)
    BY <1>6 DEF Next
  <2>2. CASE Accept(c)
    BY <2>2, <1>0, <1>1 DEF Accept, StoreOK
  <2>3. CASE Command(c)
    <3>1. CASE \E k \in Keys : Set(c, k)
      BY <3>1, <1>4
    <3>2. CASE ~ \E k \in Keys : Set(c, k)
      <4>1. Receives(c) /\ store' = store /\ live' = live
        BY <2>3, <3>2 DEF Command, Get, BadArguments, Unknown
      <4> QED
        BY <4>1, <1>3
    <3> QED
      BY <3>1, <3>2
  <2>4. CASE Disconnect(c) \/ WriteFails(c)
    BY <2>4, <1>0, <1>1 DEF Disconnect, WriteFails, Deleted, StoreOK
  <2>5. CASE SendBegin(c) \/ Progress(c) \/ WouldBlock(c)
    BY <2>5, <1>0, <1>1 DEF SendBegin, Progress, Write, DeleteHead, SendEnd, WouldBlock, StoreOK
  <2> QED
    BY <2>1, <2>2, <2>3, <2>4, <2>5
<1> QED
  BY <1>5, <1>6

LEMMA TablesKept ==
  ASSUME ServerInv, [Next]_vars
  PROVE  Tables' /\ WaitingIsArmed'
<1>0. Tables /\ WaitingIsArmed
  BY DEF ServerInv
<1>1. CASE UNCHANGED vars
  BY <1>0, <1>1 DEF vars, history, Tables, WaitingIsArmed
<1>2. CASE Next
  <2>1. PICK c \in Clients :
          \/ Accept(c) \/ Command(c) \/ Disconnect(c) \/ SendBegin(c) \/ Progress(c)
          \/ WouldBlock(c) \/ WriteFails(c)
    BY <1>2 DEF Next
  <2>2. CASE Accept(c)
    BY <2>2, <1>0 DEF Accept, history, Tables, WaitingIsArmed
  <2>3. CASE Command(c)
    <3>1. CASE \E r : Receives(c) /\ Reply(c, r)
      <4>1. PICK r : Receives(c) /\ Reply(c, r)
        BY <3>1
      <4>2. Tables'
        BY <4>1, <1>0 DEF Receives, Reply, Armed, Tables
      <4>3. WaitingIsArmed'
        BY <4>1, <1>0 DEF Receives, Reply, Armed, Tables, WaitingIsArmed
      <4> QED
        BY <4>2, <4>3
    <3>2. CASE Unknown(c)
      BY <3>2, <1>0 DEF Unknown, Receives, Armed, Tables, WaitingIsArmed
    <3> QED
      BY <2>3, <3>1, <3>2 DEF Command, Set, Get, BadArguments
  <2>4. CASE Disconnect(c) \/ WriteFails(c)
    <3>1. Deleted(c)
      BY <2>4 DEF Disconnect, WriteFails
    <3> QED
      BY <3>1, <1>0 DEF Deleted, history, Tables, WaitingIsArmed
  <2>5. CASE SendBegin(c) \/ SendEnd(c)
    BY <2>5, <1>0 DEF SendBegin, SendEnd, history, Tables, WaitingIsArmed
  <2>6. CASE \E n \in {Half, Full} : Write(c, n)
    <3>1. PICK n \in {Half, Full} : Write(c, n)
      BY <2>6
    <3>2. Tables'
      BY <3>1, <1>0 DEF Write, Tables
    <3>3. WaitingIsArmed'
      BY <3>1, <1>0 DEF Write, Tables, WaitingIsArmed
    <3> QED
      BY <3>2, <3>3
  <2>7. CASE WouldBlock(c) \/ DeleteHead(c)
    BY <2>7, <1>0 DEF WouldBlock, DeleteHead, history, Tables, WaitingIsArmed
  <2> QED
    BY <2>1, <2>2, <2>3, <2>4, <2>5, <2>6, <2>7 DEF Progress
<1> QED
  BY <1>1, <1>2

(* The dict's values, the queues and what is on the wire stay as ServerInv *)
(* says.                                                                   *)
THEOREM ServerInvariant == Spec => []ServerInv
<1>1. ASSUME ServerInv, [Next]_vars
      PROVE  ServerInv'
  <2>1. StoreOK' /\ ObjectsOK' /\ Tables' /\ WaitingIsArmed'
    BY <1>1, StoreKept, TablesKept
  <2>2. \A c \in Clients : ClientOK(c)'
    BY <1>1, AllStep, StepKeeps DEF ServerInv
  <2> QED
    BY <2>1, <2>2 DEF ServerInv
<1> QED
  BY <1>1, ServerInit, PTL DEF Spec

(* Types, and the values allocated are those in the dict: a SET over an    *)
(* old value leaks nothing and frees nothing twice (cmd.c:119-124).        *)
THEOREM ServerTyped == Spec => []TypeOK
<1>1. ServerInv => TypeOK
  <2>1. SUFFICES ASSUME ServerInv PROVE TypeOK
    OBVIOUS
  <2>2. ASSUME NEW c \in Clients, NEW i \in DOMAIN queue[c]
        PROVE  /\ queue[c][i].cur \in 1 .. Len(queue[c][i].pos)
               /\ \A j \in DOMAIN queue[c][i].pos : queue[c][i].pos[j] \in 0 .. Full
    <3>1. QueueOK(queue[c])
      BY <2>1 DEF ServerInv, ClientOK
    <3>2. i \in 1 .. Len(queue[c])
      BY <3>1 DEF QueueOK
    <3>3. ResponseOK(queue[c][i])
      BY <3>1, <3>2 DEF QueueOK
    <3>4. queue[c][i].pos \in Seq(0 .. Full) /\ queue[c][i].cur \in 1 .. Len(queue[c][i].pos)
      BY <3>3 DEF ResponseOK
    <3>5. DOMAIN queue[c][i].pos = 1 .. Len(queue[c][i].pos)
      BY <3>4, LenProperties
    <3> QED
      BY <3>4, <3>5, ElementOfSeq
  <2> QED
    BY <2>1, <2>2 DEF TypeOK, ServerInv, StoreOK, Tables
<1> QED
  BY <1>1, ServerInvariant, PTL

(* While a reply waits, its client is registered for AE_WRITABLE           *)
(* (tcp_server.c:167-168, 226-227, 372-376, 412).                          *)
THEOREM ServerArmed == Spec => []WaitingIsArmed
<1>1. ServerInv => WaitingIsArmed
  BY DEF ServerInv
<1> QED
  BY <1>1, ServerInvariant, PTL

(* A client whose items were all written whole and whose values were not   *)
(* overwritten while they waited gets its replies in order, each byte once *)
(* (tcp_server.c:366-416).                                                 *)
THEOREM ServerReplies == Spec => []RepliesIntact
<1>1. ServerInv => RepliesIntact
  <2>1. SUFFICES ASSUME ServerInv, NEW c \in Clients \ (stale \cup short)
                 PROVE  IsPrefix(got[c], due[c])
    BY DEF RepliesIntact, Intact
  <2>2. Begins(got[c], due[c])
    BY <2>1 DEF ServerInv, ClientOK
  <2> DEFINE g == got[c]
             t == due[c]
  <2>3. /\ g \in Seq(Units) /\ t \in Seq(Units) /\ Len(g) \in Nat /\ Len(t) \in Nat /\ Len(g) <= Len(t)
        /\ \A k \in 1 .. Len(g) : g[k] = t[k]
    BY <2>2 DEF Begins
  <2> HIDE DEF g, t
  <2>4. /\ SubSeq(g, 1, Len(g)) = [k \in 1 .. Len(g) |-> g[k]]
        /\ SubSeq(t, 1, Len(g)) = [k \in 1 .. Len(g) |-> t[k]]
    BY <2>3
  <2>5. IsPrefix(g, t)
    BY <2>3, <2>4 DEF IsPrefix
  <2> QED
    BY <2>5 DEF g, t
<1> QED
  BY <1>1, ServerInvariant, PTL

-----------------------------------------------------------------------------
(* The parser.  First what it is proved with: definitions by recursion,     *)
(* sequences one after another, and the numbers of header lines.           *)

(* A set of natural numbers has a least one.                               *)
LEMMA LeastNatural ==
  ASSUME NEW T, T \subseteq Nat, T # {}
  PROVE  \E x \in T : \A y \in T : x <= y
<1> DEFINE Below == {0 .. n : n \in T}
           R == StrictSubsetOrdering(Nat)
           F == FiniteSubsetsOf(Nat)
<1>1. IsWellFoundedOn(R, F)
  BY FS_StrictSubsetOrderingWellFounded
<1>2. Below \subseteq F
  <2>1. \A n \in Nat : IsFiniteSet(0 .. n)
    BY FS_Interval
  <2> QED
    BY <2>1 DEF FiniteSubsetsOf
<1>3. Below # {}
  OBVIOUS
<1>4. \E b \in Below : \A c \in Below : ~(<<c, b>> \in R)
  <2> HIDE DEF Below, R, F
  <2> QED
    BY <1>1, <1>2, <1>3, WFMin
<1>5. PICK x \in T : \A y \in T : ~(<<0 .. y, 0 .. x>> \in R)
  BY <1>4
<1>6. \A y \in T : ~(y < x)
  <2> SUFFICES ASSUME NEW y \in T, y < x
               PROVE  <<0 .. y, 0 .. x>> \in R
    BY <1>5
  <2>1. 0 .. y \subseteq 0 .. x /\ x \notin 0 .. y /\ x \in 0 .. x
    OBVIOUS
  <2> QED
    BY <2>1 DEF StrictSubsetOrdering
<1> QED
  BY <1>6

(* What holds at 0, and at n + 1 if at n, holds at every index of a range. *)
LEMMA RangeInduction ==
  ASSUME NEW n \in Nat, NEW T, 0 \in T, \A i \in 0 .. n - 1 : i \in T => i + 1 \in T
  PROVE  0 .. n \subseteq T
<1> SUFFICES ASSUME {i \in 0 .. n : i \notin T} # {} PROVE FALSE
  OBVIOUS
<1>1. PICK m \in {i \in 0 .. n : i \notin T} : \A i \in {i \in 0 .. n : i \notin T} : m <= i
  <2>1. {i \in 0 .. n : i \notin T} \subseteq Nat
    OBVIOUS
  <2> QED
    BY <2>1, LeastNatural
<1>2. m # 0 /\ m - 1 \in 0 .. n - 1 /\ m - 1 \in 0 .. n /\ (m - 1) + 1 = m
  BY <1>1
<1>3. m - 1 \in T
  BY <1>1, <1>2
<1> QED
  BY <1>1, <1>2, <1>3

(* The functions that start at c and go on by step. *)
Runs(S, c, n, step) ==
  {f \in [0 .. n -> S] :
     f[0] = c /\ \A i \in 0 .. n - 1 : f[i + 1] = step[<<i, f[i]>>]}

(* A recursive definition over a range defines a function. *)
LEMMA RangeRecursion ==
  ASSUME NEW S, NEW c \in S, NEW n \in Nat, NEW step \in [(0 .. n - 1) \X S -> S]
  PROVE  Runs(S, c, n, step) # {}
<1> DEFINE Upto(m) == \E f \in [0 .. m -> S] : /\ f[0] = c
                                  /\ \A i \in 0 .. m - 1 : f[i + 1] = step[<<i, f[i]>>]
           T == {m \in 0 .. n : Upto(m)}
<1>1. 0 \in T
  <2>1. /\ [i \in 0 .. 0 |-> c] \in [0 .. 0 -> S] /\ [i \in 0 .. 0 |-> c][0] = c
        /\ 0 .. 0 - 1 = {} /\ 0 \in 0 .. n
    OBVIOUS
  <2>2. Upto(0)
    BY <2>1
  <2> HIDE DEF Upto
  <2> QED
    BY <2>1, <2>2
<1>2. ASSUME NEW i \in 0 .. n - 1, i \in T PROVE i + 1 \in T
  <2>1. PICK f \in [0 .. i -> S] : /\ f[0] = c
                                   /\ \A j \in 0 .. i - 1 : f[j + 1] = step[<<j, f[j]>>]
    BY <1>2
  <2> DEFINE x == step[<<i, f[i]>>]
             g == [j \in 0 .. i + 1 |-> IF j = i + 1 THEN x ELSE f[j]]
  <2>2. x \in S
    OBVIOUS
  <2> HIDE DEF x
  <2>3. g \in [0 .. i + 1 -> S]
    BY <2>2
  <2>4. g[0] = c /\ g[i + 1] = x /\ g[i] = f[i]
    BY <2>1
  <2>5. ASSUME NEW j \in 0 .. (i + 1) - 1 PROVE g[j + 1] = step[<<j, g[j]>>]
    <3>1. CASE j = i
      BY <2>4, <3>1 DEF x
    <3>2. CASE j # i
      <4>1. j \in 0 .. i - 1 /\ j + 1 \in 0 .. i
        BY <3>2
      <4>2. g[j + 1] = f[j + 1] /\ g[j] = f[j]
        BY <4>1
      <4> QED
        BY <2>1, <4>1, <4>2
    <3> QED
      BY <3>1, <3>2
  <2>6. Upto(i + 1)
    <3> HIDE DEF g
    <3> QED
      BY <2>3, <2>4, <2>5
  <2>7. i + 1 \in 0 .. n
    OBVIOUS
  <2> HIDE DEF Upto
  <2> QED
    BY <2>6, <2>7
<1>3. n \in T
  <2> HIDE DEF T
  <2>1. 0 .. n \subseteq T
    BY <1>1, <1>2, RangeInduction
  <2> QED
    BY <2>1
<1> QED
  BY <1>3 DEF Runs

(* One sequence after another: where each ends, and what stands there. *)
Ends(seqs) ==
  {off \in [0 .. Len(seqs) -> Nat] :
     /\ off[0] = 0
     /\ \A n \in 0 .. Len(seqs) - 1 : off[n + 1] = off[n] + Len(seqs[n + 1])}

Joined(seqs, off, s) ==
  /\ off[Len(seqs)] = Len(s)
  /\ \A n \in 0 .. Len(seqs) - 1 : \A k \in 1 .. Len(seqs[n + 1]) :
       s[off[n] + k] = seqs[n + 1][k]

(* Both parts of a concatenation are where they belong. *)
LEMMA Concatenated ==
  ASSUME NEW S, NEW a \in Seq(S), NEW b \in Seq(S)
  PROVE  /\ a \o b \in Seq(S) /\ Len(a \o b) = Len(a) + Len(b)
         /\ \A k \in 1 .. Len(a) : (a \o b)[k] = a[k]
         /\ \A k \in 1 .. Len(b) : (a \o b)[Len(a) + k] = b[k]
<1>1. /\ a \o b \in Seq(S) /\ Len(a \o b) = Len(a) + Len(b)
      /\ \A k \in 1 .. Len(a) + Len(b) :
           (a \o b)[k] = IF k <= Len(a) THEN a[k] ELSE b[k - Len(a)]
  BY ConcatProperties
<1>2. Len(a) \in Nat /\ Len(b) \in Nat
  OBVIOUS
<1>3. ASSUME NEW k \in 1 .. Len(a) PROVE (a \o b)[k] = a[k]
  <2>1. k \in 1 .. Len(a) + Len(b) /\ k <= Len(a)
    BY <1>2
  <2> QED
    BY <1>1, <2>1
<1>4. ASSUME NEW k \in 1 .. Len(b) PROVE (a \o b)[Len(a) + k] = b[k]
  <2>1. /\ Len(a) + k \in 1 .. Len(a) + Len(b) /\ ~(Len(a) + k <= Len(a))
        /\ Len(a) + k - Len(a) = k
    BY <1>2
  <2> QED
    BY <1>1, <2>1
<1> QED
  BY <1>1, <1>3, <1>4

(* There are such ends, and they do not decrease. *)
LEMMA EndsExist ==
  ASSUME NEW S, NEW seqs \in Seq(Seq(S))
  PROVE  Ends(seqs) # {}
<1> DEFINE n == Len(seqs)
           step == [p \in (0 .. n - 1) \X Nat |-> p[2] + Len(seqs[p[1] + 1])]
<1>1. n \in Nat /\ \A i \in 0 .. n - 1 : Len(seqs[i + 1]) \in Nat
  <2>1. n \in Nat /\ DOMAIN seqs = 1 .. n /\ \A i \in 1 .. n : seqs[i] \in Seq(S)
    OBVIOUS
  <2>2. ASSUME NEW i \in 0 .. n - 1 PROVE Len(seqs[i + 1]) \in Nat
    <3>1. i + 1 \in 1 .. n
      BY <2>1
    <3> QED
      BY <2>1, <3>1
  <2> QED
    BY <2>1, <2>2
<1>2. step \in [(0 .. n - 1) \X Nat -> Nat]
  BY <1>1
<1>3. Runs(Nat, 0, n, step) # {}
  <2> HIDE DEF step, n
  <2> QED
    BY <1>1, <1>2, RangeRecursion
<1>4. PICK off \in [0 .. n -> Nat] : /\ off[0] = 0
               /\ \A i \in 0 .. n - 1 : off[i + 1] = step[<<i, off[i]>>]
  BY <1>3 DEF Runs
<1>5. ASSUME NEW i \in 0 .. n - 1 PROVE off[i + 1] = off[i] + Len(seqs[i + 1])
  <2>1. off[i] \in Nat
    <3>1. i \in 0 .. n
      BY <1>1
    <3>2. off \in [0 .. n -> Nat]
      OBVIOUS
    <3> HIDE DEF n, step
    <3> QED
      BY <3>1, <3>2
  <2>2. step[<<i, off[i]>>] = off[i] + Len(seqs[i + 1])
    BY <2>1
  <2> QED
    BY <1>4, <2>2
<1> QED
  BY <1>4, <1>5 DEF Ends

LEMMA EndsGrow ==
  ASSUME NEW S, NEW seqs \in Seq(Seq(S)), NEW off \in Ends(seqs),
         NEW i \in 0 .. Len(seqs)
  PROVE  \A n \in 0 .. i : off[n] <= off[i]
<1> DEFINE T == {m \in 0 .. Len(seqs) : \A n \in 0 .. m : off[n] <= off[m]}
<1>1. Len(seqs) \in Nat /\ off \in [0 .. Len(seqs) -> Nat]
  BY DEF Ends
<1>2. 0 \in T
  BY <1>1
<1>3. ASSUME NEW m \in 0 .. Len(seqs) - 1, m \in T PROVE m + 1 \in T
  <2>1. m + 1 \in 1 .. Len(seqs) /\ m \in 0 .. Len(seqs) /\ m + 1 \in 0 .. Len(seqs)
    BY <1>1
  <2>2. Len(seqs[m + 1]) \in Nat
    BY <2>1
  <2>3. off[m + 1] = off[m] + Len(seqs[m + 1]) /\ off[m] \in Nat
    BY <1>1, <2>1 DEF Ends
  <2>4. ASSUME NEW n \in 0 .. m + 1 PROVE off[n] <= off[m + 1]
    <3>1. CASE n = m + 1
      BY <2>2, <2>3, <3>1
    <3>2. CASE n # m + 1
      <4>1. n \in 0 .. m /\ n \in 0 .. Len(seqs)
        BY <2>1, <3>2
      <4>2. off[n] <= off[m] /\ off[n] \in Nat
        BY <1>1, <1>3, <4>1
      <4> QED
        BY <2>2, <2>3, <4>2
    <3> QED
      BY <3>1, <3>2
  <2> QED
    BY <2>1, <2>4
<1>4. 0 .. Len(seqs) \subseteq T
  <2> HIDE DEF T
  <2> QED
    BY <1>1, <1>2, <1>3, RangeInduction
<1> QED
  BY <1>4

(* FlattenSeq joins the sequences. *)
LEMMA FlattenIs ==
  ASSUME NEW S, NEW seqs \in Seq(Seq(S)), NEW off \in Ends(seqs)
  PROVE  FlattenSeq(seqs) \in Seq(S) /\ Joined(seqs, off, FlattenSeq(seqs))
<1> DEFINE n == Len(seqs)
           Def(f) == [i \in 1 .. n |-> IF i = 1 THEN seqs[i] ELSE f[i - 1] \o seqs[i]]
<1>1. /\ n \in Nat /\ DOMAIN seqs = 1 .. n /\ \A i \in 1 .. n : seqs[i] \in Seq(S)
      /\ off \in [0 .. n -> Nat] /\ off[0] = 0
      /\ \A i \in 0 .. n - 1 : off[i + 1] = off[i] + Len(seqs[i + 1])
  BY DEF Ends
<1>2. CASE n = 0
  <2>1. FlattenSeq(seqs) = seqs /\ seqs = <<>>
    BY <1>2 DEF FlattenSeq
  <2>2. seqs \in Seq(S) /\ Len(seqs) = 0
    BY <2>1
  <2>3. off[0] = 0 /\ \A i \in 0 .. Len(seqs) - 1 : FALSE
    BY <1>1, <2>2
  <2> QED
    BY <2>1, <2>2, <2>3 DEF Joined
<1>3. CASE n # 0
  <2> DEFINE step == [p \in (0 .. n - 1 - 1) \X Seq(S) |-> p[2] \o seqs[p[1] + 2]]
  <2>1. 1 \in 1 .. n /\ seqs[1] \in Seq(S) /\ n - 1 \in Nat
    BY <1>1, <1>3
  <2>2. step \in [(0 .. n - 1 - 1) \X Seq(S) -> Seq(S)]
    <3>1. \A i \in 0 .. n - 1 - 1 : seqs[i + 2] \in Seq(S)
      BY <1>1
    <3> QED
      BY <3>1
  <2>3. Runs(Seq(S), seqs[1], n - 1, step) # {}
    <3> HIDE DEF step, n
    <3> QED
      BY <2>1, <2>2, RangeRecursion
  <2>4. PICK g \in [0 .. n - 1 -> Seq(S)] : /\ g[0] = seqs[1]
               /\ \A i \in 0 .. n - 1 - 1 : g[i + 1] = step[<<i, g[i]>>]
    BY <2>3 DEF Runs
  <2>5. \E f : f = Def(f)
    <3> DEFINE f == [i \in 1 .. n |-> g[i - 1]]
    <3>1. ASSUME NEW i \in 1 .. n
          PROVE  g[i - 1] = IF i = 1 THEN seqs[i] ELSE f[i - 1] \o seqs[i]
      <4>1. CASE i = 1
        BY <2>4, <4>1
      <4>2. CASE i # 1
        <5>1. /\ i - 2 \in 0 .. n - 1 - 1 /\ i - 2 \in 0 .. n - 1 /\ (i - 2) + 1 = i - 1
              /\ i - 1 \in 1 .. n /\ (i - 1) - 1 = i - 2 /\ (i - 2) + 2 = i
          BY <1>1, <4>2
        <5>2. g[i - 1] = step[<<i - 2, g[i - 2]>>]
          BY <2>4, <5>1
        <5>3. step[<<i - 2, g[i - 2]>>] = g[i - 2] \o seqs[i]
          BY <5>1
        <5>4. f[i - 1] = g[i - 2]
          BY <5>1
        <5> QED
          BY <4>2, <5>2, <5>3, <5>4
      <4> QED
        BY <4>1, <4>2
    <3>2. f = Def(f)
      BY <3>1
    <3> QED
      BY <3>2
  <2>6. PICK f : f = Def(f) /\ FlattenSeq(seqs) = f[n]
    <3>1. FlattenSeq(seqs) = (CHOOSE f : f = Def(f))[n]
      BY <1>3 DEF FlattenSeq
    <3> HIDE DEF Def
    <3> QED
      BY <2>5, <3>1
  <2> DEFINE Good(m) == /\ f[m] \in Seq(S) /\ Len(f[m]) = off[m]
                        /\ \A i \in 0 .. m - 1 : \A k \in 1 .. Len(seqs[i + 1]) :
                             f[m][off[i] + k] = seqs[i + 1][k]
             T == {m \in 0 .. n - 1 : Good(m + 1)}
  <2>7. f[1] = seqs[1] /\ \A i \in 1 .. n - 1 : f[i + 1] = f[i] \o seqs[i + 1]
    <3> HIDE DEF n
    <3>1. f[1] = seqs[1]
      BY <2>1, <2>6
    <3>2. ASSUME NEW i \in 1 .. n - 1 PROVE f[i + 1] = f[i] \o seqs[i + 1]
      <4>1. i + 1 \in 1 .. n /\ i + 1 # 1 /\ (i + 1) - 1 = i
        BY <1>1
      <4>2. f[i + 1] = IF i + 1 = 1 THEN seqs[i + 1] ELSE f[(i + 1) - 1] \o seqs[i + 1]
        BY <2>6, <4>1
      <4> QED
        BY <4>1, <4>2
    <3> QED
      BY <3>1, <3>2
  <2>8. 0 \in T
    <3>1. off[1] = Len(seqs[1]) /\ Len(seqs[1]) \in Nat
      <4>1. 0 \in 0 .. n - 1 /\ 0 + 1 = 1
        BY <2>1
      <4>2. off[1] = 0 + Len(seqs[1])
        BY <1>1, <4>1
      <4> QED
        BY <2>1, <4>2
    <3>2. ASSUME NEW i \in 0 .. 1 - 1, NEW k \in 1 .. Len(seqs[i + 1])
          PROVE  f[1][off[i] + k] = seqs[i + 1][k]
      <4>1. i = 0 /\ off[i] = 0 /\ i + 1 = 1 /\ 0 + k = k
        BY <1>1, <3>1
      <4> QED
        BY <2>7, <4>1
    <3>3. Good(1)
      BY <2>1, <2>7, <3>1, <3>2
    <3>4. 0 \in 0 .. n - 1 /\ 0 + 1 = 1
      BY <2>1
    <3> HIDE DEF Good
    <3> QED
      BY <3>3, <3>4
  <2>9. ASSUME NEW m \in 0 .. (n - 1) - 1, m \in T PROVE m + 1 \in T
    <3> DEFINE M == m + 1
    <3>0. /\ M \in 1 .. n - 1 /\ M \in 1 .. n /\ M + 1 \in 1 .. n /\ M \in 0 .. n - 1
          /\ M \in 0 .. n /\ M + 1 \in Nat /\ M \in Nat
      BY <1>1
    <3>1. Good(M)
      BY <2>9
    <3> HIDE DEF M
    <3>2. f[M + 1] = f[M] \o seqs[M + 1] /\ seqs[M + 1] \in Seq(S)
      BY <1>1, <2>7, <3>0
    <3>3. f[M] \in Seq(S) /\ Len(f[M]) = off[M] /\ off[M] \in Nat
      BY <1>1, <3>0, <3>1
    <3>4. /\ f[M + 1] \in Seq(S) /\ Len(f[M + 1]) = off[M] + Len(seqs[M + 1])
          /\ \A k \in 1 .. off[M] : f[M + 1][k] = f[M][k]
          /\ \A k \in 1 .. Len(seqs[M + 1]) : f[M + 1][off[M] + k] = seqs[M + 1][k]
      <4> DEFINE a == f[M]  b == seqs[M + 1]
      <4> HIDE DEF a, b
      <4>1. a \in Seq(S) /\ b \in Seq(S) /\ Len(a) = off[M] /\ f[M + 1] = a \o b
        BY <3>2, <3>3 DEF a, b
      <4>2. /\ a \o b \in Seq(S) /\ Len(a \o b) = Len(a) + Len(b)
            /\ \A k \in 1 .. Len(a) : (a \o b)[k] = a[k]
            /\ \A k \in 1 .. Len(b) : (a \o b)[Len(a) + k] = b[k]
        <5>1. a \in Seq(S) /\ b \in Seq(S)
          BY <4>1
        <5> QED
          BY ONLY <5>1, Concatenated
      <4> QED
        BY <4>1, <4>2 DEF a, b
    <3>5. ASSUME NEW i \in 0 .. (M + 1) - 1, NEW k \in 1 .. Len(seqs[i + 1])
          PROVE  f[M + 1][off[i] + k] = seqs[i + 1][k]
      <4>1. CASE i = M
        BY <3>4, <4>1
      <4>2. CASE i # M
        <5>1. i \in 0 .. M - 1 /\ i + 1 \in 0 .. M /\ i + 1 \in 1 .. n /\ i \in 0 .. n - 1 /\ i \in 0 .. n
          BY <3>0, <4>2
        <5>2. f[M][off[i] + k] = seqs[i + 1][k]
          BY <3>1, <5>1
        <5>3. off[i + 1] <= off[M]
          BY <3>0, <5>1, EndsGrow
        <5>4. off[i + 1] = off[i] + Len(seqs[i + 1]) /\ off[i] \in Nat /\ Len(seqs[i + 1]) \in Nat
          <6>1. seqs[i + 1] \in Seq(S)
            BY <1>1, <5>1
          <6>2. Len(seqs[i + 1]) \in Nat
            BY <6>1
          <6>3. off[i + 1] = off[i] + Len(seqs[i + 1])
            BY <1>1, <5>1
          <6>4. off[i] \in Nat
            BY <1>1, <5>1
          <6> QED
            BY <6>2, <6>3, <6>4
        <5>5. off[i] + k \in 1 .. off[M]
          <6> DEFINE x == off[i]  y == Len(seqs[i + 1])  z == off[M]
          <6>1. x \in Nat /\ y \in Nat /\ z \in Nat /\ x + y <= z /\ k \in 1 .. y
            BY <3>3, <5>3, <5>4
          <6> HIDE DEF x, y, z
          <6>2. x + k \in 1 .. z
            BY <6>1
          <6> QED
            BY <6>2 DEF x, z
        <5> QED
          BY <3>4, <5>2, <5>5
      <4> QED
        BY <4>1, <4>2
    <3>6. Len(f[M + 1]) = off[M + 1]
      BY <1>1, <3>0, <3>4
    <3>7. Good(M + 1)
      BY <3>4, <3>5, <3>6
    <3> HIDE DEF Good
    <3> QED
      BY <3>0, <3>7 DEF M
  <2>10. n - 1 \in T
    <3>1. 0 .. n - 1 \subseteq T
      <4> HIDE DEF T, n
      <4> QED
        BY <2>1, <2>8, <2>9, RangeInduction
    <3>2. n - 1 \in 0 .. n - 1
      BY <2>1
    <3> HIDE DEF T, n
    <3> QED
      BY <3>1, <3>2
  <2>11. Good(n)
    <3>1. (n - 1) + 1 = n
      BY <2>1
    <3> HIDE DEF Good
    <3> QED
      BY <2>10, <3>1
  <2> QED
    BY <2>6, <2>11 DEF Joined
<1> QED
  BY <1>2, <1>3

(* The length of a header line. *)
LineLen(n) == IF n < 10 THEN 4 ELSE 5

(* The n of a line reads back: digits, and no byte of a line is taken for another. *)
LEMMA NumeralIs ==
  /\ \A n \in 0 .. 9 : /\ Numeral[n] \in DOMAIN Digit
                       /\ Digit[Numeral[n]] = n
                       /\ Numeral[n] \notin {CR, LF, NUL, "*", "$"}
  /\ \A c \in DOMAIN Digit : Digit[c] \in 0 .. 9
  /\ {CR, LF, NUL} \cap DOMAIN Digit = {}
<1>1. /\ Numeral[0] = "0" /\ Numeral[1] = "1" /\ Numeral[2] = "2" /\ Numeral[3] = "3"
      /\ Numeral[4] = "4" /\ Numeral[5] = "5" /\ Numeral[6] = "6" /\ Numeral[7] = "7"
      /\ Numeral[8] = "8" /\ Numeral[9] = "9"
  BY DEF Numeral
<1>2. \A n \in 0 .. 9 : n \in {0, 1, 2, 3, 4, 5, 6, 7, 8, 9}
  OBVIOUS
<1>3. \A m, n \in 0 .. 9 : Numeral[m] = Numeral[n] => m = n
  BY <1>1, <1>2
<1>4. \A n \in 0 .. 9 : Numeral[n] \notin {CR, LF, NUL, "*", "$"}
  BY <1>1, <1>2 DEF CR, LF, NUL
<1>5. \A n \in 0 .. 9 : Numeral[n] \in DOMAIN Digit
  BY DEF Digit
<1>6. ASSUME NEW c \in DOMAIN Digit
      PROVE  Digit[c] \in 0 .. 9 /\ Numeral[Digit[c]] = c /\ c \notin {CR, LF, NUL}
  <2>1. Digit[c] = CHOOSE n \in 0 .. 9 : Numeral[n] = c
    BY DEF Digit
  <2>2. \E n \in 0 .. 9 : Numeral[n] = c
    BY DEF Digit
  <2> QED
    BY <1>4, <2>1, <2>2
<1> QED
  BY <1>3, <1>4, <1>5, <1>6

(* The bytes there are. *)
Bytes == {CR, LF, NUL, "*", "$", "x"} \cup {Numeral[n] : n \in 0 .. 9}

(* A line is its mark, its digits and its end. *)
LEMMA Marked ==
  ASSUME NEW S, NEW a \in S, NEW s \in Seq(S), NEW c \in S, NEW d \in S
  PROVE  LET l == <<a>> \o s \o <<c, d>>
         IN /\ l \in Seq(S) /\ Len(l) = Len(s) + 3 /\ l[1] = a
            /\ \A k \in 1 .. Len(s) : l[k + 1] = s[k]
            /\ l[Len(s) + 2] = c /\ l[Len(s) + 3] = d
<1> DEFINE p == <<a>>  e == <<c, d>>  q == p \o s
<1>1. p \in Seq(S) /\ Len(p) = 1 /\ p[1] = a
  OBVIOUS
<1>2. e \in Seq(S) /\ Len(e) = 2 /\ e[1] = c /\ e[2] = d
  OBVIOUS
<1> HIDE DEF p, e
<1>3. /\ q \in Seq(S) /\ Len(q) = 1 + Len(s)
      /\ \A k \in 1 .. 1 : q[k] = p[k]
      /\ \A k \in 1 .. Len(s) : q[1 + k] = s[k]
  <2>1. p \in Seq(S) /\ s \in Seq(S)
    BY <1>1
  <2>2. /\ p \o s \in Seq(S) /\ Len(p \o s) = Len(p) + Len(s)
        /\ \A k \in 1 .. Len(p) : (p \o s)[k] = p[k]
        /\ \A k \in 1 .. Len(s) : (p \o s)[Len(p) + k] = s[k]
    BY ONLY <2>1, Concatenated
  <2> QED
    BY <1>1, <2>2
<1> HIDE DEF q
<1>4. /\ q \o e \in Seq(S) /\ Len(q \o e) = Len(q) + 2
      /\ \A k \in 1 .. Len(q) : (q \o e)[k] = q[k]
      /\ \A k \in 1 .. 2 : (q \o e)[Len(q) + k] = e[k]
  <2>1. q \in Seq(S) /\ e \in Seq(S)
    BY <1>2, <1>3
  <2>2. /\ q \o e \in Seq(S) /\ Len(q \o e) = Len(q) + Len(e)
        /\ \A k \in 1 .. Len(q) : (q \o e)[k] = q[k]
        /\ \A k \in 1 .. Len(e) : (q \o e)[Len(q) + k] = e[k]
    BY ONLY <2>1, Concatenated
  <2> QED
    BY <1>2, <2>2
<1>5. Len(s) \in Nat
  OBVIOUS
<1> DEFINE l == q \o e
<1> HIDE DEF l
<1>6. /\ l \in Seq(S) /\ Len(l) = Len(s) + 3
      /\ \A k \in 1 .. Len(q) : l[k] = q[k]
      /\ \A k \in 1 .. 2 : l[Len(q) + k] = e[k]
  BY <1>3, <1>4, <1>5 DEF l
<1>7. l[1] = a
  <2>1. 1 \in 1 .. Len(q) /\ 1 \in 1 .. 1
    BY <1>3, <1>5
  <2> QED
    BY <1>1, <1>3, <1>6, <2>1
<1>8. ASSUME NEW k \in 1 .. Len(s) PROVE l[k + 1] = s[k]
  <2>1. k + 1 \in 1 .. Len(q) /\ 1 + k = k + 1
    BY <1>3, <1>5
  <2> QED
    BY <1>3, <1>6, <2>1
<1>9. l[Len(s) + 2] = c /\ l[Len(s) + 3] = d
  <2>1. /\ Len(q) + 1 = Len(s) + 2 /\ Len(q) + 2 = Len(s) + 3
        /\ 1 \in 1 .. 2 /\ 2 \in 1 .. 2
    BY <1>3, <1>5
  <2> QED
    BY <1>2, <1>6, <2>1
<1>10. l = <<a>> \o s \o <<c, d>>
  BY DEF l, q, p, e
<1> QED
  BY <1>6, <1>7, <1>8, <1>9, <1>10

LEMMA TheBytes ==
  /\ {CR, LF, NUL, "*", "$", "x"} \subseteq Bytes
  /\ \A n \in 0 .. 9 : Numeral[n] \in Bytes
BY DEF Bytes

LEMMA NumberIs ==
  ASSUME NEW n \in 0 .. 99
  PROVE  /\ Number(n) \in Seq(Bytes) /\ Len(Number(n)) = LineLen(n) - 3
         /\ \A k \in 1 .. LineLen(n) - 3 : Number(n)[k] \in {Numeral[d] : d \in 0 .. 9}
         /\ n < 10 => Number(n)[1] = Numeral[n]
         /\ ~(n < 10) => Number(n)[1] = Numeral[n \div 10] /\ Number(n)[2] = Numeral[n % 10]
<1>1. CASE n < 10
  <2> DEFINE a == Numeral[n]  s == <<a>>
  <2>1. a \in Bytes /\ a \in {Numeral[d] : d \in 0 .. 9} /\ Number(n) = s
    BY <1>1, TheBytes DEF Number
  <2> HIDE DEF a
  <2>2. s \in Seq(Bytes) /\ Len(s) = 1 /\ s[1] = a
    BY <2>1
  <2>3. LineLen(n) - 3 = 1 /\ \A k \in 1 .. 1 : k = 1
    BY <1>1 DEF LineLen
  <2>4. a = Numeral[n]
    BY DEF a
  <2> HIDE DEF s
  <2> QED
    BY <1>1, <2>1, <2>2, <2>3, <2>4
<1>2. CASE ~(n < 10)
  <2> DEFINE a == Numeral[n \div 10]  b == Numeral[n % 10]  s == <<a, b>>
  <2>0. n \div 10 \in 0 .. 9 /\ n % 10 \in 0 .. 9
    OBVIOUS
  <2>1. /\ a \in Bytes /\ a \in {Numeral[d] : d \in 0 .. 9}
        /\ b \in Bytes /\ b \in {Numeral[d] : d \in 0 .. 9} /\ Number(n) = s
    BY <1>2, <2>0, TheBytes DEF Number
  <2>4. a = Numeral[n \div 10] /\ b = Numeral[n % 10]
    OBVIOUS
  <2> HIDE DEF a, b
  <2>2. s \in Seq(Bytes) /\ Len(s) = 2 /\ s[1] = a /\ s[2] = b
    BY <2>1
  <2>3. LineLen(n) - 3 = 2 /\ \A k \in 1 .. 2 : k = 1 \/ k = 2
    BY <1>2 DEF LineLen
  <2> HIDE DEF s
  <2> QED
    BY <1>2, <2>1, <2>2, <2>3, <2>4
<1> QED
  BY <1>1, <1>2

LEMMA LineIs ==
  ASSUME NEW mark \in Bytes, NEW n \in 0 .. 99
  PROVE  LET l == Line(mark, n)
         IN /\ l \in Seq(Bytes) /\ Len(l) = LineLen(n) /\ l[1] = mark
            /\ l[LineLen(n) - 1] = CR /\ l[LineLen(n)] = LF
            /\ \A k \in 2 .. LineLen(n) - 2 : l[k] \in {Numeral[d] : d \in 0 .. 9}
            /\ n < 10 => l[2] = Numeral[n]
            /\ ~(n < 10) => l[2] = Numeral[n \div 10] /\ l[3] = Numeral[n % 10]
<1> DEFINE l == Line(mark, n)  s == Number(n)  L == LineLen(n)
<1>0. CR \in Bytes /\ LF \in Bytes
  BY TheBytes
<1>1. /\ s \in Seq(Bytes) /\ Len(s) = L - 3
      /\ \A k \in 1 .. L - 3 : s[k] \in {Numeral[d] : d \in 0 .. 9}
      /\ n < 10 => s[1] = Numeral[n] /\ L = 4
      /\ ~(n < 10) => s[1] = Numeral[n \div 10] /\ s[2] = Numeral[n % 10] /\ L = 5
  BY NumberIs DEF LineLen
<1>2. l = <<mark>> \o s \o <<CR, LF>> /\ L \in 4 .. 5
  BY DEF Line, LineLen
<1> HIDE DEF l, s, L
<1>3. /\ l \in Seq(Bytes) /\ Len(l) = Len(s) + 3 /\ l[1] = mark
      /\ \A k \in 1 .. Len(s) : l[k + 1] = s[k]
      /\ l[Len(s) + 2] = CR /\ l[Len(s) + 3] = LF
  BY <1>0, <1>1, <1>2, Marked
<1>4. /\ Len(l) = L /\ l[L - 1] = CR /\ l[L] = LF
  <2>1. Len(s) + 2 = L - 1 /\ Len(s) + 3 = L
    BY <1>1, <1>2
  <2> QED
    BY <1>3, <2>1
<1>5. ASSUME NEW k \in 2 .. L - 2 PROVE l[k] \in {Numeral[d] : d \in 0 .. 9}
  <2>1. k - 1 \in 1 .. L - 3 /\ (k - 1) + 1 = k
    BY <1>2
  <2> QED
    BY <1>1, <1>3, <2>1
<1>6. /\ n < 10 => l[2] = Numeral[n]
      /\ ~(n < 10) => l[2] = Numeral[n \div 10] /\ l[3] = Numeral[n % 10]
  <2>1. /\ n < 10 => 1 \in 1 .. Len(s)
        /\ ~(n < 10) => 1 \in 1 .. Len(s) /\ 2 \in 1 .. Len(s)
        /\ 1 + 1 = 2 /\ 2 + 1 = 3
    BY <1>1, <1>2
  <2> QED
    BY <1>1, <1>3, <2>1
<1> QED
  BY <1>3, <1>4, <1>5, <1>6 DEF l, L

LEMMA Repeated ==
  ASSUME NEW S, NEW n \in Nat, NEW x \in S
  PROVE  [i \in 1 .. n |-> x] \in Seq(S) /\ Len([i \in 1 .. n |-> x]) = n
OBVIOUS

(* An argument begins with its line and is as long as ItemLength makes it. *)
LEMMA ArgumentIs ==
  ASSUME NEW n \in 0 .. 99
  PROVE  /\ Argument(n) \in Seq(Bytes)
         /\ Len(Argument(n)) = LineLen(n) + n + 2 /\ Len(Argument(n)) \in Nat
         /\ \A k \in 1 .. LineLen(n) : Argument(n)[k] = Line("$", n)[k]
<1> DEFINE l == Line("$", n)  x == [i \in 1 .. n |-> "x"]  e == <<CR, LF>>
<1>1. l \in Seq(Bytes) /\ Len(l) = LineLen(n) /\ LineLen(n) \in Nat
  <2>1. "$" \in Bytes
    BY TheBytes
  <2>2. l \in Seq(Bytes) /\ Len(l) = LineLen(n)
    BY <2>1, LineIs
  <2> QED
    BY <2>2 DEF LineLen
<1>2. x \in Seq(Bytes) /\ Len(x) = n
  <2>1. "x" \in Bytes /\ n \in Nat
    BY TheBytes
  <2> QED
    BY ONLY <2>1, Repeated
<1>3. e \in Seq(Bytes) /\ Len(e) = 2
  BY TheBytes
<1>4. Argument(n) = (l \o x) \o e
  BY DEF Argument
<1> HIDE DEF l, x, e
<1>5. /\ l \o x \in Seq(Bytes) /\ Len(l \o x) = Len(l) + Len(x)
      /\ \A k \in 1 .. Len(l) : (l \o x)[k] = l[k]
  BY <1>1, <1>2, Concatenated
<1>6. /\ (l \o x) \o e \in Seq(Bytes) /\ Len((l \o x) \o e) = Len(l \o x) + Len(e)
      /\ \A k \in 1 .. Len(l \o x) : ((l \o x) \o e)[k] = (l \o x)[k]
  <2>1. l \o x \in Seq(Bytes) /\ e \in Seq(Bytes)
    BY <1>3, <1>5
  <2> QED
    BY ONLY <2>1, Concatenated
<1>7. \A k \in 1 .. Len(l) : k \in 1 .. Len(l \o x)
  BY <1>1, <1>2, <1>5
<1> QED
  BY <1>1, <1>2, <1>3, <1>4, <1>5, <1>6, <1>7 DEF l

(* The recursion of Atoi. *)
Readings(from, to) ==
  {f \in [from - 1 .. to -> Nat] :
     /\ f[from - 1] = 0
     /\ \A i \in from .. to :
          f[i] = IF \A j \in from .. i : buf[j] \in DOMAIN Digit
                 THEN 10 * f[i - 1] + Digit[buf[i]] ELSE f[i - 1]}

LEMMA AtoiIs ==
  ASSUME NEW from \in Nat, NEW to \in Nat, from - 1 <= to
  PROVE  \E f \in Readings(from, to) : Atoi(from, to) = f[to]
<1> DEFINE digits == {i \in from .. to : \A j \in from .. i : buf[j] \in DOMAIN Digit}
           Val(i, v) == IF i \in digits THEN 10 * v + Digit[buf[i]] ELSE v
           Def(f) == [i \in from - 1 .. to |->
                        IF i = from - 1 THEN 0
                        ELSE IF i \in digits THEN 10 * f[i - 1] + Digit[buf[i]] ELSE f[i - 1]]
           N == to - (from - 1)
           step == [p \in (0 .. N - 1) \X Nat |-> Val(p[1] + from, p[2])]
<1>1. N \in Nat
  OBVIOUS
<1>2. step \in [(0 .. N - 1) \X Nat -> Nat]
  <2>1. \A i \in Int, v \in Nat : Val(i, v) \in Nat
    <3>1. \A i \in digits : Digit[buf[i]] \in Nat
      <4> SUFFICES ASSUME NEW i \in digits PROVE Digit[buf[i]] \in Nat
        OBVIOUS
      <4>1. buf[i] \in DOMAIN Digit
        OBVIOUS
      <4> QED
        BY <4>1, NumeralIs
    <3> HIDE DEF digits
    <3> QED
      BY <3>1
  <2> HIDE DEF Val, N
  <2>2. \A p \in (0 .. N - 1) \X Nat : p[1] + from \in Int /\ p[2] \in Nat
    BY <1>1
  <2> QED
    BY <2>1, <2>2
<1>3. Runs(Nat, 0, N, step) # {}
  <2> HIDE DEF step, N
  <2> QED
    BY <1>1, <1>2, RangeRecursion
<1>4. PICK g \in [0 .. N -> Nat] :
        g[0] = 0 /\ \A i \in 0 .. N - 1 : g[i + 1] = step[<<i, g[i]>>]
  <2> HIDE DEF step, N
  <2> QED
    BY <1>3 DEF Runs
<1>5. \A i \in 0 .. N - 1 : g[i + 1] = Val(i + from, g[i])
  <2> SUFFICES ASSUME NEW i \in 0 .. N - 1 PROVE g[i + 1] = Val(i + from, g[i])
    OBVIOUS
  <2>1. g[i] \in Nat
    BY <1>1
  <2>2. step[<<i, g[i]>>] = Val(i + from, g[i])
    <3> HIDE DEF Val, N
    <3> QED
      BY <2>1
  <2> QED
    BY <1>4, <2>2
<1> DEFINE h == [i \in from - 1 .. to |-> g[i - (from - 1)]]
<1>6. h \in [from - 1 .. to -> Nat] /\ h[from - 1] = 0
  <2>1. \A i \in from - 1 .. to : i - (from - 1) \in 0 .. N
    OBVIOUS
  <2>2. from - 1 \in from - 1 .. to /\ (from - 1) - (from - 1) = 0
    OBVIOUS
  <2> HIDE DEF N
  <2> QED
    BY <1>4, <2>1, <2>2
<1>7. ASSUME NEW i \in from .. to PROVE h[i] = Val(i, h[i - 1])
  <2>1. /\ i - from \in 0 .. N - 1 /\ (i - from) + 1 = i - (from - 1)
        /\ (i - 1) - (from - 1) = i - from /\ i \in from - 1 .. to
        /\ i - 1 \in from - 1 .. to /\ (i - from) + from = i
    OBVIOUS
  <2>2. h[i] = g[(i - from) + 1] /\ h[i - 1] = g[i - from]
    <3>1. h[i] = g[i - (from - 1)] /\ h[i - 1] = g[(i - 1) - (from - 1)]
      BY <2>1
    <3> HIDE DEF h
    <3> QED
      BY <2>1, <3>1
  <2> HIDE DEF h, Val, N
  <2> QED
    BY <1>5, <2>1, <2>2
<1>8. \E f : f = Def(f)
  <2> HIDE DEF h, digits
  <2>1. ASSUME NEW i \in from - 1 .. to
        PROVE  h[i] = IF i = from - 1 THEN 0
                      ELSE IF i \in digits THEN 10 * h[i - 1] + Digit[buf[i]] ELSE h[i - 1]
    <3>1. CASE i = from - 1
      BY <1>6, <3>1
    <3>2. CASE i # from - 1
      <4>1. i \in from .. to
        BY <3>2
      <4> QED
        BY <1>7, <3>2, <4>1
    <3> QED
      BY <3>1, <3>2
  <2>2. h = Def(h)
    <3>1. h = [i \in from - 1 .. to |-> h[i]]
      BY <1>6
    <3> QED
      BY <2>1, <3>1
  <2> QED
    BY <2>2
<1>9. PICK f : f = Def(f) /\ Atoi(from, to) = f[to]
  <2>1. Atoi(from, to) = (CHOOSE f : f = Def(f))[to]
    BY DEF Atoi
  <2> HIDE DEF Def
  <2> QED
    BY <1>8, <2>1
<1>10. f[from - 1] = 0 /\ \A i \in from .. to : f[i] = Val(i, f[i - 1])
  <2>1. from - 1 \in from - 1 .. to
    OBVIOUS
  <2>2. ASSUME NEW i \in from .. to PROVE f[i] = Val(i, f[i - 1])
    <3>1. i \in from - 1 .. to /\ i # from - 1
      OBVIOUS
    <3> HIDE DEF digits
    <3> QED
      BY <1>9, <3>1
  <2>3. f[from - 1] = 0
    <3> HIDE DEF digits
    <3> QED
      BY <1>9, <2>1
  <2> QED
    BY <2>2, <2>3
<1>11. \A m \in 0 .. N : f[m + (from - 1)] = g[m]
  <2> DEFINE T == {m \in 0 .. N : f[m + (from - 1)] = g[m]}
  <2> HIDE DEF Val
  <2>1. 0 \in T
    <3>1. 0 \in 0 .. N /\ 0 + (from - 1) = from - 1
      BY <1>1
    <3> HIDE DEF N
    <3> QED
      BY <1>4, <1>10, <3>1
  <2>2. ASSUME NEW m \in 0 .. N - 1, m \in T PROVE m + 1 \in T
    <3>1. /\ (m + 1) + (from - 1) = m + from /\ m + from \in from .. to
          /\ (m + from) - 1 = m + (from - 1) /\ m + 1 \in 0 .. N
      OBVIOUS
    <3>2. f[m + from] = Val(m + from, f[(m + from) - 1])
      BY <1>10, <3>1
    <3>3. g[m + 1] = Val(m + from, g[m])
      BY <1>5
    <3>4. f[m + (from - 1)] = g[m]
      BY <2>2
    <3> HIDE DEF N
    <3> QED
      BY <3>1, <3>2, <3>3, <3>4
  <2>3. 0 .. N \subseteq T
    <3> HIDE DEF T, N
    <3> QED
      BY <1>1, <2>1, <2>2, RangeInduction
  <2> QED
    BY <2>3
<1>12. f \in [from - 1 .. to -> Nat]
  <2>1. f = [i \in from - 1 .. to |-> f[i]]
    <3>1. DOMAIN f = from - 1 .. to
      <4> HIDE DEF digits
      <4> QED
        BY <1>9
    <3> HIDE DEF digits
    <3> QED
      BY <1>9, <3>1
  <2>2. ASSUME NEW i \in from - 1 .. to PROVE f[i] \in Nat
    <3>1. i - (from - 1) \in 0 .. N /\ (i - (from - 1)) + (from - 1) = i
      OBVIOUS
    <3> HIDE DEF N
    <3>2. f[i] = g[i - (from - 1)]
      BY <1>11, <3>1
    <3> QED
      BY <1>4, <3>1, <3>2
  <2> QED
    BY <2>1, <2>2
<1>13. f \in Readings(from, to)
  <2>1. \A i \in from .. to : i \in digits <=> \A j \in from .. i : buf[j] \in DOMAIN Digit
    OBVIOUS
  <2>2. \A i \in from .. to : f[i] = IF \A j \in from .. i : buf[j] \in DOMAIN Digit
                 THEN 10 * f[i - 1] + Digit[buf[i]] ELSE f[i - 1]
    <3> HIDE DEF digits
    <3> QED
      BY <1>10, <2>1
  <2> QED
    BY <1>10, <1>12, <2>2 DEF Readings
<1> QED
  BY <1>9, <1>13

-----------------------------------------------------------------------------
(* LineEnd finds the first line end, and finds none but a line end. *)
LEMMA LineEndIs ==
  ASSUME NEW from \in Nat, NEW e \in from .. BufLen - 2, buf[e] = CR, buf[e + 1] = LF,
         \A i \in from .. e : buf[i] # NUL, \A i \in from .. e - 1 : buf[i] # CR
  PROVE  LineEnd(from) = e
<1> DEFINE hits == {j \in from .. BufLen - 2 : /\ buf[j] = CR /\ buf[j + 1] = LF
                                               /\ \A i \in from .. j : buf[i] # NUL}
<1>0. BufLen \in Nat
  BY ParserAssumption
<1>1. e \in hits
  OBVIOUS
<1>2. \A j \in hits : e <= j
  <2> SUFFICES ASSUME NEW j \in hits, j < e PROVE FALSE
    BY <1>0
  <2>1. j \in from .. e - 1
    BY <1>0
  <2> QED
    BY <2>1
<1>3. \A j \in hits : (\A k \in hits : j <= k) => j = e
  <2>1. \A j \in hits : j \in Int
    BY <1>0
  <2> HIDE DEF hits
  <2> QED
    BY <1>1, <1>2, <2>1
<1>4. LineEnd(from) = CHOOSE j \in hits : \A k \in hits : j <= k
  BY <1>1 DEF LineEnd
<1> HIDE DEF hits
<1> QED
  BY <1>1, <1>2, <1>3, <1>4

LEMMA LineEndWithin ==
  ASSUME NEW from \in Nat, LineEnd(from) # BufLen
  PROVE  LineEnd(from) \in from .. BufLen - 2 /\ buf[LineEnd(from)] = CR
<1> DEFINE hits == {j \in from .. BufLen - 2 : /\ buf[j] = CR /\ buf[j + 1] = LF
                                               /\ \A i \in from .. j : buf[i] # NUL}
<1>0. BufLen \in Nat
  BY ParserAssumption
<1>1. hits # {}
  BY DEF LineEnd
<1>2. LineEnd(from) = CHOOSE j \in hits : \A k \in hits : j <= k
  BY <1>1 DEF LineEnd
<1>3. \E j \in hits : \A k \in hits : j <= k
  <2>1. hits \subseteq Nat
    BY <1>0
  <2> HIDE DEF hits
  <2> QED
    BY <1>1, <2>1, LeastNatural
<1>4. LineEnd(from) \in hits
  <2> HIDE DEF hits
  <2> QED
    BY <1>2, <1>3
<1> QED
  BY <1>4

(* atoi of the digits of a line. *)
LEMMA Division ==
  ASSUME NEW x \in Nat, NEW p \in Nat, p > 0
  PROVE  /\ x = p * (x \div p) + (x % p)
         /\ x % p \in Nat /\ x % p < p
         /\ x \div p \in Nat
OBVIOUS

LEMMA TwoDigits ==
  ASSUME NEW n \in 0 .. 99
  PROVE  n \div 10 \in 0 .. 9 /\ n % 10 \in 0 .. 9 /\ n = 10 * (n \div 10) + (n % 10)
OBVIOUS

LEMMA AtoiReads ==
  ASSUME NEW from \in Nat, NEW n \in 0 .. 99,
         \A k \in 1 .. LineLen(n) - 3 : buf[from + k - 1] = Number(n)[k]
  PROVE  Atoi(from, from + LineLen(n) - 4) = n
<1>0. n \div 10 \in 0 .. 9 /\ n % 10 \in 0 .. 9 /\ n = 10 * (n \div 10) + (n % 10)
  BY TwoDigits
<1>1. CASE n < 10
  <2>1. LineLen(n) - 3 = 1 /\ from + LineLen(n) - 4 = from
    BY <1>1 DEF LineLen
  <2>2. buf[from] = Numeral[n]
    <3>1. 1 \in 1 .. LineLen(n) - 3 /\ from + 1 - 1 = from
      BY <2>1
    <3> QED
      BY <1>1, <3>1, NumberIs
  <2>3. buf[from] \in DOMAIN Digit /\ Digit[buf[from]] = n
    BY <1>1, <2>2, NumeralIs
  <2>4. PICK f \in Readings(from, from) : Atoi(from, from) = f[from]
    BY AtoiIs
  <2>5. f[from - 1] = 0 /\ f[from] = 10 * f[from - 1] + Digit[buf[from]]
    <3>1. from \in from .. from /\ \A j \in from .. from : j = from
      OBVIOUS
    <3>2. \A j \in from .. from : buf[j] \in DOMAIN Digit
      BY <2>3, <3>1
    <3> QED
      BY <2>4, <3>1, <3>2 DEF Readings
  <2> QED
    BY <2>1, <2>3, <2>4, <2>5
<1>2. CASE ~(n < 10)
  <2>1. LineLen(n) - 3 = 2 /\ from + LineLen(n) - 4 = from + 1
    BY <1>2 DEF LineLen
  <2>2. buf[from] = Numeral[n \div 10] /\ buf[from + 1] = Numeral[n % 10]
    <3>1. /\ 1 \in 1 .. LineLen(n) - 3 /\ from + 1 - 1 = from
          /\ 2 \in 1 .. LineLen(n) - 3 /\ from + 2 - 1 = from + 1
      BY <2>1
    <3>2. buf[from + 1 - 1] = Number(n)[1] /\ buf[from + 2 - 1] = Number(n)[2]
      BY <3>1
    <3> QED
      BY <1>2, <3>1, <3>2, NumberIs
  <2>3. /\ buf[from] \in DOMAIN Digit /\ Digit[buf[from]] = n \div 10
        /\ buf[from + 1] \in DOMAIN Digit /\ Digit[buf[from + 1]] = n % 10
    BY <1>0, <2>2, NumeralIs
  <2>4. PICK f \in Readings(from, from + 1) : Atoi(from, from + 1) = f[from + 1]
    BY AtoiIs
  <2>5. /\ f[from - 1] = 0 /\ f[from] = 10 * f[from - 1] + Digit[buf[from]]
        /\ f[from + 1] = 10 * f[from] + Digit[buf[from + 1]]
    <3>1. /\ from \in from .. from + 1 /\ \A j \in from .. from : j = from
          /\ from + 1 \in from .. from + 1 /\ (from + 1) - 1 = from
          /\ \A j \in from .. from + 1 : j = from \/ j = from + 1
      OBVIOUS
    <3>2. /\ \A j \in from .. from : buf[j] \in DOMAIN Digit
          /\ \A j \in from .. from + 1 : buf[j] \in DOMAIN Digit
      BY <2>3, <3>1
    <3>3. f[from - 1] = 0 /\ f[from] = 10 * f[from - 1] + Digit[buf[from]]
      BY <2>4, <3>1, <3>2 DEF Readings
    <3>4. f[from + 1] = 10 * f[(from + 1) - 1] + Digit[buf[from + 1]]
      BY <2>4, <3>1, <3>2 DEF Readings
    <3> QED
      BY <3>1, <3>3, <3>4
  <2> QED
    BY <1>0, <2>1, <2>3, <2>4, <2>5
<1> QED
  BY <1>1, <1>2

(* What strstr and atoi find in a line that is there whole. *)
LEMMA LineReads ==
  ASSUME NEW mark \in {"*", "$"}, NEW n \in 0 .. 99, NEW from \in Nat,
         from + LineLen(n) <= BufLen,
         \A k \in 1 .. LineLen(n) : buf[from + k - 1] = Line(mark, n)[k]
  PROVE  /\ LineEnd(from) = from + LineLen(n) - 2
         /\ Atoi(from + 1, LineEnd(from) - 1) = n
<1> DEFINE L == LineLen(n)  e == from + L - 2
<1>0. L \in 4 .. 5 /\ BufLen \in Nat /\ mark \in Bytes
  BY ParserAssumption, TheBytes DEF LineLen
<1>1. /\ Line(mark, n)[1] = mark /\ Line(mark, n)[L - 1] = CR /\ Line(mark, n)[L] = LF
      /\ \A k \in 2 .. L - 2 : Line(mark, n)[k] \in {Numeral[d] : d \in 0 .. 9}
  BY <1>0, LineIs
<1> HIDE DEF L
<1>2. buf[e] = CR /\ buf[e + 1] = LF /\ e \in from .. BufLen - 2
  <2>1. /\ L - 1 \in 1 .. L /\ L \in 1 .. L /\ from + (L - 1) - 1 = e /\ from + L - 1 = e + 1
        /\ e \in from .. BufLen - 2
    BY <1>0 DEF L
  <2>2. \A k \in 1 .. L : buf[from + k - 1] = Line(mark, n)[k]
    BY DEF L
  <2> QED
    BY <1>1, <2>1, <2>2
<1>3. ASSUME NEW i \in from .. e - 1 PROVE buf[i] # NUL /\ buf[i] # CR
  <2>1. i - from + 1 \in 1 .. L - 2 /\ from + (i - from + 1) - 1 = i
    BY <1>0
  <2>2. buf[i] = Line(mark, n)[i - from + 1]
    <3>1. i - from + 1 \in 1 .. LineLen(n)
      BY <1>0, <2>1 DEF L
    <3> QED
      BY <2>1, <3>1
  <2>3. CASE i = from
    <3>1. i - from + 1 = 1
      BY <2>3
    <3>2. buf[i] = mark
      BY <1>1, <2>2, <3>1
    <3> QED
      BY <3>2 DEF NUL, CR
  <2>4. CASE i # from
    <3>1. i - from + 1 \in 2 .. L - 2
      BY <1>0, <2>1, <2>4
    <3>2. buf[i] \in {Numeral[d] : d \in 0 .. 9}
      BY <1>1, <2>2, <3>1
    <3> QED
      BY <3>2, NumeralIs
  <2> QED
    BY <2>3, <2>4
<1>4. LineEnd(from) = e
  <2>1. \A i \in from .. e : i = e \/ i \in from .. e - 1
    BY <1>0
  <2>2. CR # NUL
    BY DEF CR, NUL
  <2>3. \A i \in from .. e : buf[i] # NUL
    BY <1>2, <1>3, <2>1, <2>2
  <2> HIDE DEF e
  <2> QED
    BY <1>2, <1>3, <2>3, LineEndIs
<1>5. Atoi(from + 1, from + 1 + L - 4) = n
  <2>1. ASSUME NEW k \in 1 .. LineLen(n) - 3
        PROVE  buf[from + 1 + k - 1] = Number(n)[k]
    <3>1. /\ k + 1 \in 1 .. LineLen(n) /\ from + (k + 1) - 1 = from + 1 + k - 1
      BY <1>0 DEF L
    <3>2. Line(mark, n)[k + 1] = Number(n)[k]
      <4> DEFINE s == Number(n)
      <4>1. CR \in Bytes /\ LF \in Bytes /\ s \in Seq(Bytes) /\ k \in 1 .. Len(s)
        BY TheBytes, NumberIs
      <4>2. Line(mark, n) = <<mark>> \o s \o <<CR, LF>>
        BY DEF Line
      <4> HIDE DEF s
      <4>3. (<<mark>> \o s \o <<CR, LF>>)[k + 1] = s[k]
        BY <1>0, <4>1, Marked
      <4> QED
        BY <4>2, <4>3 DEF s
    <3> QED
      BY <3>1, <3>2
  <2> DEFINE f == from + 1
  <2>2. f \in Nat /\ \A k \in 1 .. LineLen(n) - 3 : buf[f + k - 1] = Number(n)[k]
    BY <2>1
  <2> HIDE DEF f
  <2>3. Atoi(f, f + LineLen(n) - 4) = n
    BY <2>2, AtoiReads
  <2> QED
    BY <2>3 DEF L, f
<1>6. from + 1 + L - 4 = e - 1
  BY <1>0
<1> QED
  BY <1>4, <1>5, <1>6 DEF L

-----------------------------------------------------------------------------
(* Where the commands and their arguments stand in the stream. *)
Encoded(r) == [i \in DOMAIN r |-> Encode(r[i])]

CommandEnds(r) == CHOOSE off \in Ends(Encoded(r)) : TRUE

ArgumentEnds(c) == CHOOSE off \in Ends(Arguments(c)) : TRUE

CommandAt(r, i) == CommandEnds(r)[i]

ItemAt(r, i, j) == CommandAt(r, i) + LineLen(Len(r[i + 1])) + ArgumentEnds(r[i + 1])[j]

Stands(s, p, u) ==
  /\ p \in Nat /\ Len(u) \in Nat /\ p + Len(u) <= Len(s)
  /\ \A k \in 1 .. Len(u) : s[p + k] = u[k]

LEMMA ArgumentsIs ==
  ASSUME NEW c \in Seq(1 .. 99)
  PROVE  /\ Arguments(c) \in Seq(Seq(Bytes)) /\ Len(Arguments(c)) = Len(c)
         /\ \A j \in 1 .. Len(c) : Arguments(c)[j] = Argument(c[j]) /\ c[j] \in 1 .. 99
         /\ ArgumentEnds(c) \in Ends(Arguments(c))
<1>1. Len(c) \in Nat /\ DOMAIN c = 1 .. Len(c) /\ \A j \in 1 .. Len(c) : c[j] \in 1 .. 99
  <2> DEFINE S == 1 .. 99
  <2>1. c \in Seq(S)
    OBVIOUS
  <2> HIDE DEF S
  <2>2. Len(c) \in Nat /\ DOMAIN c = 1 .. Len(c) /\ \A j \in 1 .. Len(c) : c[j] \in S
    BY <2>1
  <2> QED
    BY <2>2 DEF S
<1>2. \A j \in 1 .. Len(c) : Argument(c[j]) \in Seq(Bytes)
  <2>1. \A j \in 1 .. Len(c) : c[j] \in 0 .. 99
    BY <1>1
  <2> QED
    BY <2>1, ArgumentIs
<1>3. Arguments(c) = [j \in 1 .. Len(c) |-> Argument(c[j])]
  BY <1>1 DEF Arguments
<1>4. Arguments(c) \in Seq(Seq(Bytes)) /\ Len(Arguments(c)) = Len(c)
  BY <1>1, <1>2, <1>3
<1>5. Ends(Arguments(c)) # {}
  BY <1>4, EndsExist
<1> QED
  BY <1>1, <1>3, <1>4, <1>5 DEF ArgumentEnds

LEMMA EncodeIs ==
  ASSUME NEW c \in Seq(1 .. 99), Len(c) \in 0 .. 99
  PROVE  LET e == Encode(c)
             off == ArgumentEnds(c)
             l == LineLen(Len(c))
         IN /\ e \in Seq(Bytes) /\ Len(e) = l + off[Len(c)] /\ off[Len(c)] \in Nat
            /\ \A k \in 1 .. l : e[k] = Line("*", Len(c))[k]
            /\ \A j \in 0 .. Len(c) - 1 : \A k \in 1 .. Len(Argument(c[j + 1])) :
                 e[l + off[j] + k] = Argument(c[j + 1])[k]
<1> DEFINE a == Line("*", Len(c))  f == FlattenSeq(Arguments(c))
           off == ArgumentEnds(c)  l == LineLen(Len(c))
<1>1. a \in Seq(Bytes) /\ Len(a) = l /\ l \in Nat
  <2>1. "*" \in Bytes
    BY TheBytes
  <2>2. a \in Seq(Bytes) /\ Len(a) = l
    BY <2>1, LineIs
  <2> QED
    BY <2>2 DEF LineLen
<1>2. f \in Seq(Bytes) /\ Joined(Arguments(c), off, f)
  BY ArgumentsIs, FlattenIs
<1>3. Encode(c) = a \o f
  BY DEF Encode
<1>4. /\ off \in Ends(Arguments(c)) /\ Len(Arguments(c)) = Len(c)
      /\ \A j \in 1 .. Len(c) : Arguments(c)[j] = Argument(c[j]) /\ c[j] \in 1 .. 99
  BY ArgumentsIs
<1> HIDE DEF a, f, off
<1>5. /\ a \o f \in Seq(Bytes) /\ Len(a \o f) = Len(a) + Len(f)
      /\ \A k \in 1 .. Len(a) : (a \o f)[k] = a[k]
      /\ \A k \in 1 .. Len(f) : (a \o f)[Len(a) + k] = f[k]
  <2>1. a \in Seq(Bytes) /\ f \in Seq(Bytes)
    BY <1>1, <1>2
  <2> QED
    BY ONLY <2>1, Concatenated
<1>6. off[Len(c)] = Len(f) /\ Len(f) \in Nat
  BY <1>2, <1>4 DEF Joined
<1>7. ASSUME NEW j \in 0 .. Len(c) - 1, NEW k \in 1 .. Len(Argument(c[j + 1]))
      PROVE  (a \o f)[l + off[j] + k] = Argument(c[j + 1])[k]
  <2>1. j + 1 \in 1 .. Len(c) /\ j + 1 \in 0 .. Len(c) /\ j \in 0 .. Len(c)
    OBVIOUS
  <2>2. Arguments(c)[j + 1] = Argument(c[j + 1]) /\ c[j + 1] \in 0 .. 99
    BY <1>4, <2>1
  <2>3. Len(Argument(c[j + 1])) \in Nat
    BY <2>2, ArgumentIs
  <2>4. f[off[j] + k] = Argument(c[j + 1])[k]
    BY <1>2, <1>4, <2>2 DEF Joined
  <2>5. off[j] \in Nat /\ off[j + 1] = off[j] + Len(Argument(c[j + 1]))
    BY <1>4, <2>1, <2>2 DEF Ends
  <2>6. off[j + 1] <= off[Len(c)]
    <3>1. Arguments(c) \in Seq(Seq(Bytes)) /\ Len(c) \in 0 .. Len(Arguments(c))
      BY <1>4, ArgumentsIs
    <3> QED
      BY <1>4, <2>1, <3>1, EndsGrow
  <2>7. off[j] + k \in 1 .. Len(f)
    <3> DEFINE x == off[j]  y == Len(Argument(c[j + 1]))  z == Len(f)
    <3>1. x \in Nat /\ y \in Nat /\ z \in Nat /\ x + y <= z /\ k \in 1 .. y
      BY <1>6, <2>3, <2>5, <2>6
    <3> HIDE DEF x, y, z
    <3>2. x + k \in 1 .. z
      BY <3>1
    <3> QED
      BY <3>2 DEF x, z
  <2>8. (a \o f)[Len(a) + (off[j] + k)] = f[off[j] + k]
    BY <1>5, <2>7
  <2>9. Len(a) + (off[j] + k) = l + off[j] + k
    BY <1>1, <2>5
  <2> QED
    BY <2>4, <2>8, <2>9
<1> QED
  BY <1>1, <1>3, <1>5, <1>6, <1>7 DEF a, off

LEMMA StreamIs ==
  ASSUME NEW r \in Requests
  PROVE  /\ r \in Seq(Seq(1 .. 99)) /\ Len(r) \in Nat /\ DOMAIN r = 1 .. Len(r)
         /\ \A i \in 1 .. Len(r) : r[i] \in Seq(1 .. 99) /\ Len(r[i]) \in 0 .. 99
         /\ Encoded(r) \in Seq(Seq(Bytes)) /\ Len(Encoded(r)) = Len(r)
         /\ \A i \in 1 .. Len(r) : Encoded(r)[i] = Encode(r[i])
         /\ CommandEnds(r) \in Ends(Encoded(r))
         /\ StreamOf[r] \in Seq(Bytes)
         /\ Joined(Encoded(r), CommandEnds(r), StreamOf[r])
<1>1. r \in Seq(Seq(1 .. 99)) /\ \A i \in DOMAIN r : Len(r[i]) \in 0 .. 99
  BY ParserAssumption
<1>2. /\ Len(r) \in Nat /\ DOMAIN r = 1 .. Len(r)
      /\ \A i \in 1 .. Len(r) : r[i] \in Seq(1 .. 99) /\ Len(r[i]) \in 0 .. 99
  BY <1>1
<1>3. \A i \in 1 .. Len(r) : Encode(r[i]) \in Seq(Bytes)
  BY <1>2, EncodeIs
<1>4. Encoded(r) = [i \in 1 .. Len(r) |-> Encode(r[i])]
  BY <1>2 DEF Encoded
<1>5. Encoded(r) \in Seq(Seq(Bytes)) /\ Len(Encoded(r)) = Len(r)
  BY <1>2, <1>3, <1>4
<1>6. CommandEnds(r) \in Ends(Encoded(r))
  <2>1. Ends(Encoded(r)) # {}
    BY <1>5, EndsExist
  <2> QED
    BY <2>1 DEF CommandEnds
<1>7. StreamOf[r] = FlattenSeq(Encoded(r))
  BY DEF StreamOf, Encoded
<1>8. /\ FlattenSeq(Encoded(r)) \in Seq(Bytes)
      /\ Joined(Encoded(r), CommandEnds(r), FlattenSeq(Encoded(r)))
  BY ONLY <1>5, <1>6, FlattenIs
<1> QED
  BY <1>1, <1>2, <1>4, <1>5, <1>6, <1>7, <1>8

(* The commands are one after another, from the first byte to the last. *)
LEMMA CommandsStand ==
  ASSUME NEW r \in Requests
  PROVE  /\ CommandAt(r, 0) = 0 /\ CommandAt(r, Len(r)) = Len(StreamOf[r])
         /\ \A i \in 0 .. Len(r) - 1 :
              Stands(StreamOf[r], CommandAt(r, i), Line("*", Len(r[i + 1])))
<1> DEFINE s == StreamOf[r]  off == CommandEnds(r)
<1>1. off \in Ends(Encoded(r)) /\ Len(Encoded(r)) = Len(r)
  BY StreamIs
<1>2. off \in [0 .. Len(r) -> Nat] /\ off[0] = 0 /\ off[Len(r)] = Len(s)
  BY <1>1, StreamIs DEF Ends, Joined
<1>3. ASSUME NEW i \in 0 .. Len(r) - 1
      PROVE  Stands(s, off[i], Line("*", Len(r[i + 1])))
  <2> DEFINE c == r[i + 1]  l == LineLen(Len(c))
  <2>0. /\ Len(r) \in Nat /\ i + 1 \in 1 .. Len(r) /\ i \in 0 .. Len(r)
        /\ i + 1 \in 0 .. Len(r)
    BY StreamIs
  <2>1. c \in Seq(1 .. 99) /\ Len(c) \in 0 .. 99 /\ Encoded(r)[i + 1] = Encode(c)
    BY <2>0, StreamIs
  <2>2. /\ Encode(c) \in Seq(Bytes) /\ Len(Encode(c)) = l + ArgumentEnds(c)[Len(c)]
        /\ ArgumentEnds(c)[Len(c)] \in Nat
        /\ \A k \in 1 .. l : Encode(c)[k] = Line("*", Len(c))[k]
    BY <2>1, EncodeIs
  <2>3. off[i] \in Nat /\ off[i + 1] = off[i] + Len(Encode(c))
    BY <1>1, <1>2, <2>0, <2>1 DEF Ends
  <2>4. off[i + 1] <= off[Len(r)]
    <3>1. Encoded(r) \in Seq(Seq(Bytes)) /\ Len(r) \in 0 .. Len(Encoded(r))
      BY <1>1, <2>0, StreamIs
    <3> QED
      BY <1>1, <2>0, <3>1, EndsGrow
  <2>5. \A k \in 1 .. Len(Encode(c)) : s[off[i] + k] = Encode(c)[k]
    <3>1. Joined(Encoded(r), off, s)
      BY StreamIs
    <3>2. i \in 0 .. Len(Encoded(r)) - 1
      BY <1>1
    <3> HIDE DEF off, s, c
    <3> QED
      BY <2>1, <3>1, <3>2 DEF Joined
  <2>6. Len(Line("*", Len(c))) = l /\ l \in Nat
    <3>1. "*" \in Bytes
      BY TheBytes
    <3>2. Len(Line("*", Len(c))) = l
      BY <2>1, <3>1, LineIs
    <3> QED
      BY <3>2 DEF LineLen
  <2> HIDE DEF l, c, off, s
  <2>7. \A k \in 1 .. l : k \in 1 .. Len(Encode(c))
    BY <2>2, <2>6
  <2>8. off[i] + l <= Len(s)
    BY <1>2, <2>2, <2>3, <2>4, <2>6
  <2>9. Stands(s, off[i], Line("*", Len(c)))
    BY <2>2, <2>3, <2>5, <2>6, <2>7, <2>8 DEF Stands
  <2> QED
    BY <2>9 DEF c
<1> QED
  BY <1>2, <1>3 DEF CommandAt

(* The arguments of a command are one after another, from the end of its   *)
(* line to the next command.                                               *)
LEMMA ItemsStand ==
  ASSUME NEW r \in Requests, NEW i \in 0 .. Len(r) - 1
  PROVE  /\ ItemAt(r, i, 0) = CommandAt(r, i) + LineLen(Len(r[i + 1]))
         /\ ItemAt(r, i, Len(r[i + 1])) = CommandAt(r, i + 1)
         /\ \A j \in 0 .. Len(r[i + 1]) - 1 :
              /\ Stands(StreamOf[r], ItemAt(r, i, j), Argument(r[i + 1][j + 1]))
              /\ ItemAt(r, i, j + 1) = ItemAt(r, i, j) + Len(Argument(r[i + 1][j + 1]))
              /\ r[i + 1][j + 1] \in 0 .. 99
<1> DEFINE s == StreamOf[r]  off == CommandEnds(r)  c == r[i + 1]
           l == LineLen(Len(c))  g == ArgumentEnds(c)
<1>0. /\ Len(r) \in Nat /\ i + 1 \in 1 .. Len(r) /\ i \in 0 .. Len(r)
      /\ i + 1 \in 0 .. Len(r) /\ l \in Nat
  BY StreamIs DEF LineLen
<1>1. c \in Seq(1 .. 99) /\ Len(c) \in 0 .. 99 /\ Encoded(r)[i + 1] = Encode(c)
  BY <1>0, StreamIs
<1>2. off \in Ends(Encoded(r)) /\ Len(Encoded(r)) = Len(r) /\ off[Len(r)] = Len(s)
  BY StreamIs DEF Joined
<1>3. off \in [0 .. Len(r) -> Nat] /\ off[i] \in Nat /\ off[i + 1] = off[i] + Len(Encode(c))
  BY <1>0, <1>1, <1>2 DEF Ends
<1>4. off[i + 1] <= Len(s)
  <2>1. Encoded(r) \in Seq(Seq(Bytes)) /\ Len(r) \in 0 .. Len(Encoded(r))
    BY <1>0, <1>2, StreamIs
  <2> QED
    BY <1>0, <1>2, <2>1, EndsGrow
<1>5. /\ Encode(c) \in Seq(Bytes) /\ Len(Encode(c)) = l + g[Len(c)]
      /\ g[Len(c)] \in Nat
      /\ \A j \in 0 .. Len(c) - 1 : \A k \in 1 .. Len(Argument(c[j + 1])) :
           Encode(c)[l + g[j] + k] = Argument(c[j + 1])[k]
  BY <1>1, EncodeIs
<1>6. /\ g \in Ends(Arguments(c)) /\ Len(Arguments(c)) = Len(c)
      /\ \A j \in 1 .. Len(c) : Arguments(c)[j] = Argument(c[j]) /\ c[j] \in 1 .. 99
      /\ Arguments(c) \in Seq(Seq(Bytes))
  BY <1>1, ArgumentsIs
<1>7. \A k \in 1 .. Len(Encode(c)) : s[off[i] + k] = Encode(c)[k]
  <2>1. Joined(Encoded(r), off, s)
    BY StreamIs
  <2>2. i \in 0 .. Len(Encoded(r)) - 1
    BY <1>2
  <2> QED
    BY ONLY <1>1, <2>1, <2>2 DEF Joined
<1> DEFINE at0(j) == off[i] + l + g[j]
<1> HIDE DEF l, c, off, s, g
<1>8. g[0] = 0 /\ at0(0) = off[i] + l /\ at0(Len(c)) = off[i + 1]
  BY <1>0, <1>3, <1>5, <1>6 DEF Ends
<1>9. ASSUME NEW j \in 0 .. Len(c) - 1
      PROVE  /\ Stands(s, at0(j), Argument(c[j + 1]))
             /\ at0(j + 1) = at0(j) + Len(Argument(c[j + 1]))
             /\ c[j + 1] \in 0 .. 99
  <2> DEFINE m == Len(Argument(c[j + 1]))
  <2>1. j + 1 \in 1 .. Len(c) /\ j + 1 \in 0 .. Len(c) /\ j \in 0 .. Len(c)
    BY <1>1
  <2>2. Arguments(c)[j + 1] = Argument(c[j + 1]) /\ c[j + 1] \in 0 .. 99
    BY <1>6, <2>1
  <2>3. m \in Nat
    BY <2>2, ArgumentIs
  <2>4. g[j] \in Nat /\ g[j + 1] = g[j] + m
    BY <1>6, <2>1, <2>2 DEF Ends
  <2>5. g[j + 1] <= g[Len(c)]
    <3>1. Len(c) \in 0 .. Len(Arguments(c))
      BY <1>1, <1>6
    <3> QED
      BY <1>6, <2>1, <3>1, EndsGrow
  <2>6. \A k \in 1 .. m : Encode(c)[l + g[j] + k] = Argument(c[j + 1])[k]
    BY <1>5
  <2> DEFINE u == Argument(c[j + 1])  x == g[j]  o == off[i]  E == Encode(c)
  <2> HIDE DEF m, u, x, o, E
  <2>7. x \in Nat /\ o \in Nat /\ Len(E) \in Nat /\ l + x + m <= Len(E) /\ o + Len(E) <= Len(s)
    <3>1. E \in Seq(Bytes) /\ Len(E) = l + g[Len(c)] /\ g[Len(c)] \in Nat
      BY <1>5 DEF E
    <3>2. Len(E) \in Nat
      BY <3>1
    <3>3. x \in Nat /\ x + m <= g[Len(c)]
      BY <2>4, <2>5 DEF x
    <3>4. o \in Nat /\ o + Len(E) <= Len(s)
      BY <1>3, <1>4 DEF o, E
    <3>5. l + x + m <= Len(E)
      BY <1>0, <2>3, <3>1, <3>3
    <3> QED
      BY <3>2, <3>3, <3>4, <3>5
  <2>8. ASSUME NEW k \in 1 .. m PROVE s[o + l + x + k] = u[k]
    <3>1. l + x + k \in 1 .. Len(E) /\ o + (l + x + k) = o + l + x + k
      BY <1>0, <2>3, <2>7
    <3>2. s[o + (l + x + k)] = E[l + x + k]
      BY <1>7, <3>1 DEF o, E
    <3>3. E[l + x + k] = u[k]
      BY <2>6 DEF E, x, u
    <3> QED
      BY <3>1, <3>2, <3>3
  <2>9. o + l + x \in Nat /\ o + l + x + m <= Len(s)
    <3>1. Len(s) \in Nat
      BY <1>2, <1>3, <1>0
    <3> QED
      BY <1>0, <2>3, <2>7, <3>1
  <2>10. Len(u) = m
    BY DEF u, m
  <2>11. Stands(s, o + l + x, u)
    BY <2>3, <2>8, <2>9, <2>10 DEF Stands
  <2>12. o + l + g[j + 1] = o + l + x + m
    BY <1>0, <2>3, <2>4, <2>7 DEF x
  <2> QED
    BY <2>2, <2>11, <2>12 DEF u, x, o, m
<1> QED
  BY <1>8, <1>9 DEF ItemAt, CommandAt, s, off, c, l, g

-----------------------------------------------------------------------------
(* The parser's types, which make its type invariant inductive. *)
Cmds == [args : Nat, items : Seq(Seq(Bytes)), length : Nat, part : Seq(Bytes)]

Whole(c) == c.length = Len(c.part)

Underway(c) == c # NoCmd => Len(c.items) < c.args

ParserShape ==
  /\ request \in Requests
  /\ at \in 0 .. Len(Stream)
  /\ buf \in [0 .. BufLen - 1 -> Bytes]
  /\ recv_pos \in 0 .. BufLen /\ pre \in 0 .. BufLen
  /\ cmd \in Cmds /\ Underway(cmd) /\ Len(cmd.part) <= cmd.length
  /\ phase \in {"read", "parse", "closed"}
  /\ Whole(cmd) \/ (phase = "read" /\ recv_pos = 0)

LEMMA NoCmdIs ==
  /\ NoCmd \in Cmds /\ Whole(NoCmd) /\ Underway(NoCmd)
  /\ NoCmd.args = 0 /\ NoCmd.items = <<>> /\ NoCmd.length = 0 /\ NoCmd.part = <<>>
<1>1. <<>> \in Seq(Bytes) /\ <<>> \in Seq(Seq(Bytes)) /\ Len(<<>>) = 0
  OBVIOUS
<1> QED
  BY <1>1 DEF NoCmd, Cmds, Whole, Underway

LEMMA ShapeTyped == ParserShape => ParserTypeOK
<1> SUFFICES ASSUME ParserShape PROVE ParserTypeOK
  OBVIOUS
<1>1. DOMAIN buf = 0 .. BufLen - 1
  BY DEF ParserShape
<1>2. InItem => ~Whole(cmd)
  <2>1. cmd.length \in Nat
    BY DEF ParserShape, Cmds
  <2> QED
    BY <2>1 DEF InItem, Whole
<1> QED
  BY <1>1, <1>2 DEF ParserShape, ParserTypeOK, Underway

LEMMA ShapeInit == ParserInit => ParserShape
<1> SUFFICES ASSUME ParserInit PROVE ParserShape
  OBVIOUS
<1>0. BufLen \in Nat /\ BufLen > 0
  BY ParserAssumption
<1>1. Len(Stream) \in Nat
  <2>1. Stream \in Seq(Bytes)
    BY StreamIs DEF ParserInit, Stream
  <2> QED
    BY <2>1
<1>2. buf \in [0 .. BufLen - 1 -> Bytes]
  BY TheBytes DEF ParserInit
<1>3. Len(cmd.part) <= cmd.length
  BY NoCmdIs DEF ParserInit
<1> QED
  BY <1>0, <1>1, <1>2, <1>3, NoCmdIs DEF ParserInit, ParserShape

(* An item that is complete goes to the command, which goes to ALL_cmd with its last. *)
LEMMA ItemTaken ==
  ASSUME cmd \in Cmds, NEW item \in Seq(Bytes), ItemDone(WithItem(item))
  PROVE  /\ cmd' \in Cmds /\ Whole(cmd') /\ Underway(cmd') /\ Len(cmd'.part) <= cmd'.length
         /\ Len(cmd.items) + 1 >= cmd.args => /\ out' = Append(out, Append(cmd.items, item))
                                              /\ cmd' = NoCmd
         /\ ~(Len(cmd.items) + 1 >= cmd.args) =>
              /\ out' = out /\ cmd' # NoCmd /\ cmd'.args = cmd.args
              /\ cmd'.items = Append(cmd.items, item)
<1> DEFINE S == Seq(Bytes)  c == WithItem(item)  l == Append(cmd.items, item)
<1>1. cmd.args \in Nat /\ cmd.items \in Seq(S) /\ item \in S
  BY DEF Cmds
<1>2. <<>> \in S /\ Len(<<>>) = 0
  OBVIOUS
<1>3. c = [args |-> cmd.args, items |-> l, length |-> 0, part |-> <<>>]
  <2>1. c = [NoCmd EXCEPT !.args = cmd.args, !.items = l]
    BY DEF WithItem
  <2> HIDE DEF l, c
  <2> QED
    BY <2>1 DEF NoCmd
<1> HIDE DEF S
<1>4. l \in Seq(S) /\ Len(l) = Len(cmd.items) + 1 /\ Len(l) \in Nat
  BY <1>1
<1> HIDE DEF l, c
<1>5. c \in Cmds /\ c.args = cmd.args /\ c.items = l /\ c.length = 0 /\ c.part = <<>>
  BY <1>1, <1>2, <1>3, <1>4 DEF Cmds, S
<1>6. Whole(c) /\ Len(c.part) <= c.length /\ Len(NoCmd.part) <= NoCmd.length
  BY <1>2, <1>5, NoCmdIs DEF Whole
<1>7. CASE Len(c.items) >= c.args
  <2>1. out' = Append(out, c.items) /\ cmd' = NoCmd
    BY <1>7 DEF ItemDone, c
  <2> QED
    BY <1>4, <1>5, <1>6, <1>7, <2>1, NoCmdIs DEF l
<1>8. CASE ~(Len(c.items) >= c.args)
  <2>1. cmd' = c /\ out' = out
    BY <1>8 DEF ItemDone, c
  <2>2. c # NoCmd
    <3>1. c.args # 0
      BY <1>1, <1>4, <1>5, <1>8
    <3> QED
      BY <3>1, NoCmdIs
  <2>3. Underway(c)
    BY <1>1, <1>4, <1>5, <1>8 DEF Underway
  <2> QED
    BY <1>4, <1>5, <1>6, <1>8, <2>1, <2>2, <2>3 DEF l
<1> QED
  BY <1>7, <1>8

LEMMA SizesIs ==
  ASSUME NEW room \in Nat, at \in 0 .. Len(Stream), Len(Stream) \in Nat, NEW n \in Sizes(room)
  PROVE  /\ n \in Nat \ {0} /\ n <= room /\ at + n \in 0 .. Len(Stream)
         /\ Arrived(n) = SubSeq(Stream, at + 1, at + n)
<1>1. n \in 1 .. room /\ n \in 1 .. Len(Stream) - at
  BY DEF Sizes, Smaller
<1> QED
  BY <1>1 DEF Arrived

LEMMA StreamTyped ==
  ASSUME request \in Requests
  PROVE  Stream \in Seq(Bytes) /\ Len(Stream) \in Nat
<1>1. Stream \in Seq(Bytes)
  BY StreamIs DEF Stream
<1> QED
  BY <1>1

(* What a read brings. *)
LEMMA ArrivedIs ==
  ASSUME request \in Requests, at \in 0 .. Len(Stream), NEW n \in Nat \ {0},
         at + n \in 0 .. Len(Stream)
  PROVE  /\ Arrived(n) \in Seq(Bytes) /\ Len(Arrived(n)) = n
         /\ \A k \in 1 .. n : Arrived(n)[k] = Stream[at + k]
<1>0. Stream \in Seq(Bytes) /\ Len(Stream) \in Nat
  BY StreamTyped
<1> DEFINE s == Stream
<1>1. Arrived(n) = SubSeq(s, at + 1, at + n)
  BY DEF Arrived
<1> HIDE DEF s
<1>2. s \in Seq(Bytes) /\ at + 1 \in 1 .. Len(s) + 1 /\ at + n \in at + 1 - 1 .. Len(s)
  BY <1>0 DEF s
<1>3. /\ SubSeq(s, at + 1, at + n) \in Seq(Bytes)
      /\ Len(SubSeq(s, at + 1, at + n)) = n
      /\ \A k \in 1 .. n : SubSeq(s, at + 1, at + n)[k] = s[at + k]
  <2> DEFINE a == at + 1  b == at + n
  <2>1. a \in 1 .. Len(s) + 1 /\ b \in a - 1 .. Len(s) /\ b - a + 1 = n
    BY <1>2
  <2>2. \A k \in 1 .. n : a + k - 1 = at + k
    OBVIOUS
  <2> HIDE DEF a, b
  <2>3. /\ SubSeq(s, a, b) \in Seq(Bytes) /\ Len(SubSeq(s, a, b)) = b - a + 1
        /\ \A k \in 1 .. b - a + 1 : SubSeq(s, a, b)[k] = s[a + k - 1]
    BY <1>2, <2>1, SubSeqProperties
  <2>4. \A k \in 1 .. n : SubSeq(s, a, b)[k] = s[at + k]
    BY <2>1, <2>2, <2>3
  <2> QED
    BY <2>1, <2>3, <2>4 DEF a, b
<1> QED
  BY <1>1, <1>3 DEF s

LEMMA ShapeReadItem ==
  ASSUME ParserShape, NEW n, ReadItem(n)
  PROVE  ParserShape'
<1> DEFINE part == cmd.part \o Arrived(n)
<1>0. /\ request \in Requests /\ at \in 0 .. Len(Stream) /\ cmd \in Cmds /\ phase = "read"
      /\ Len(cmd.part) <= cmd.length /\ cmd # NoCmd /\ Len(cmd.items) < cmd.args
  BY DEF ParserShape, ReadItem, Underway, InItem
<1>1. /\ cmd.args \in Nat /\ cmd.items \in Seq(Seq(Bytes)) /\ cmd.length \in Nat
      /\ cmd.part \in Seq(Bytes)
      /\ cmd = [args |-> cmd.args, items |-> cmd.items, length |-> cmd.length, part |-> cmd.part]
  BY <1>0 DEF Cmds
<1>2. Len(cmd.part) \in Nat
  BY <1>1
<1>3. /\ n \in Nat \ {0} /\ n <= cmd.length - Len(cmd.part) /\ at + n \in 0 .. Len(Stream)
  <2>1. cmd.length - Len(cmd.part) \in Nat
    BY <1>0, <1>1, <1>2
  <2> QED
    BY <1>0, <2>1, SizesIs, StreamTyped DEF ReadItem
<1>4. Arrived(n) \in Seq(Bytes) /\ Len(Arrived(n)) = n
  BY <1>0, <1>3, ArrivedIs
<1>5. part \in Seq(Bytes) /\ Len(part) = Len(cmd.part) + n
  <2> DEFINE a == cmd.part  b == Arrived(n)
  <2>1. a \in Seq(Bytes) /\ b \in Seq(Bytes)
    BY <1>1, <1>4
  <2> HIDE DEF a, b
  <2>2. a \o b \in Seq(Bytes) /\ Len(a \o b) = Len(a) + Len(b)
    BY <2>1, Concatenated
  <2> QED
    BY <1>4, <2>2 DEF a, b
<1> HIDE DEF part
<1>6. /\ request' = request /\ buf' = buf /\ pre' = pre /\ phase' = phase
      /\ at' = at + n /\ Stream' = Stream
  BY DEF ReadItem, Reads, Stream
<1>7. CASE Len(part) >= cmd.length
  <2>1. recv_pos' = 0 /\ ItemDone(WithItem(part))
    BY <1>7 DEF ReadItem, part
  <2>2. cmd' \in Cmds /\ Whole(cmd') /\ Underway(cmd') /\ Len(cmd'.part) <= cmd'.length
    BY <1>0, <1>5, <2>1, ItemTaken
  <2>3. 0 \in 0 .. BufLen
    BY ParserAssumption
  <2> QED
    BY <1>0, <1>3, <1>6, <2>1, <2>2, <2>3 DEF ParserShape
<1>8. CASE ~(Len(part) >= cmd.length)
  <2>1. cmd' = [cmd EXCEPT !.part = part] /\ recv_pos' = recv_pos
    BY <1>8 DEF ReadItem, part
  <2>2. cmd' = [args |-> cmd.args, items |-> cmd.items, length |-> cmd.length, part |-> part]
    BY <1>1, <2>1
  <2>3. cmd' \in Cmds /\ Len(cmd'.part) <= cmd'.length /\ Underway(cmd')
    BY <1>0, <1>1, <1>2, <1>3, <1>5, <1>8, <2>2 DEF Cmds, Underway
  <2>4. recv_pos = 0
    BY <1>0, <1>1 DEF ParserShape, ReadItem, InItem, Whole
  <2> QED
    BY <1>0, <1>3, <1>6, <2>1, <2>3, <2>4 DEF ParserShape
<1> QED
  BY <1>7, <1>8

LEMMA ShapeReadBuffer ==
  ASSUME ParserShape, NEW n, ReadBuffer(n)
  PROVE  ParserShape'
<1>0. /\ request \in Requests /\ at \in 0 .. Len(Stream) /\ cmd \in Cmds /\ phase = "read"
      /\ buf \in [0 .. BufLen - 1 -> Bytes] /\ recv_pos \in 0 .. BufLen
      /\ BufLen \in Nat /\ Stream \in Seq(Bytes) /\ Len(Stream) \in Nat
  BY ParserAssumption, StreamTyped DEF ParserShape, ReadBuffer
<1>1. n \in Nat \ {0} /\ n <= BufLen - recv_pos /\ at + n \in 0 .. Len(Stream)
  <2>1. BufLen - recv_pos \in Nat
    BY <1>0
  <2> QED
    BY <1>0, <2>1, SizesIs DEF ReadBuffer
<1>2. /\ request' = request /\ cmd' = cmd /\ at' = at + n /\ Stream' = Stream
      /\ buf' = Stored(n) /\ recv_pos' = recv_pos + n /\ pre' = 0 /\ phase' = "parse"
  BY DEF ReadBuffer, Reads, Stream
<1>3. Stored(n) \in [0 .. BufLen - 1 -> Bytes]
  <2>1. \A p \in 1 .. Len(Stream) : Stream[p] \in Bytes
    BY <1>0
  <2>2. \A i \in 0 .. BufLen - 1 : i \in recv_pos .. recv_pos + n - 1
                                   => at + 1 + i - recv_pos \in 1 .. Len(Stream)
    BY <1>0, <1>1
  <2>3. DOMAIN buf = 0 .. BufLen - 1 /\ \A i \in 0 .. BufLen - 1 : buf[i] \in Bytes
    BY <1>0
  <2> QED
    BY <2>1, <2>2, <2>3 DEF Stored
<1>4. Whole(cmd)
  <2>1. cmd.length \in Nat /\ Len(cmd.part) \in Nat /\ Len(cmd.part) <= cmd.length
    BY DEF ParserShape, Cmds
  <2>2. cmd = NoCmd => Whole(cmd)
    BY NoCmdIs
  <2> QED
    BY <2>1, <2>2 DEF ReadBuffer, InItem, Whole
<1>5. recv_pos + n \in 0 .. BufLen /\ 0 \in 0 .. BufLen
  BY <1>0, <1>1
<1> QED
  BY <1>1, <1>2, <1>3, <1>4, <1>5 DEF ParserShape

-----------------------------------------------------------------------------
LEMMA BegunCmd ==
  ASSUME NEW n \in Nat, n # 0
  PROVE  LET c == [NoCmd EXCEPT !.args = n]
         IN /\ c \in Cmds /\ Whole(c) /\ Underway(c) /\ Len(c.part) <= c.length
            /\ c # NoCmd /\ c.args = n /\ c.items = <<>> /\ c.length = 0 /\ c.part = <<>>
<1> DEFINE c == [NoCmd EXCEPT !.args = n]
<1>1. c = [args |-> n, items |-> <<>>, length |-> 0, part |-> <<>>]
  BY DEF NoCmd
<1>2. <<>> \in Seq(Bytes) /\ <<>> \in Seq(Seq(Bytes)) /\ Len(<<>>) = 0
  OBVIOUS
<1> HIDE DEF c
<1>3. c \in Cmds /\ c.args = n /\ c.items = <<>> /\ c.length = 0 /\ c.part = <<>>
  BY <1>1, <1>2 DEF Cmds
<1>4. c # NoCmd
  BY <1>3, NoCmdIs
<1>5. Whole(c) /\ Underway(c) /\ Len(c.part) <= c.length
  BY <1>2, <1>3 DEF Whole, Underway
<1> QED
  BY <1>3, <1>4, <1>5 DEF c

LEMMA KeepsShape ==
  ASSUME ParserShape, phase = "parse", NEW p \in pre .. recv_pos - 1, KeepFrom(p),
         UNCHANGED <<cmd, out>>, UNCHANGED <<request, at, cut>>
  PROVE  ParserShape'
<1>0. /\ BufLen \in Nat /\ recv_pos \in 0 .. BufLen /\ pre \in 0 .. BufLen
      /\ buf \in [0 .. BufLen - 1 -> Bytes]
  BY ParserAssumption DEF ParserShape
<1>1. MovedBuf(p) \in [0 .. BufLen - 1 -> Bytes]
  <2>1. DOMAIN buf = 0 .. BufLen - 1 /\ \A i \in 0 .. BufLen - 1 : buf[i] \in Bytes
    BY <1>0
  <2>2. \A i \in 0 .. BufLen - 1 : i < recv_pos - p => p + i \in 0 .. BufLen - 1
    BY <1>0
  <2> QED
    BY <2>1, <2>2 DEF MovedBuf
<1>2. recv_pos - p \in 0 .. BufLen
  BY <1>0
<1>3. Whole(cmd)
  BY DEF ParserShape
<1>4. Stream' = Stream
  BY DEF Stream
<1> QED
  BY <1>1, <1>2, <1>3, <1>4 DEF ParserShape, KeepFrom

LEMMA DropsShape ==
  ASSUME ParserShape, phase = "parse", Drop, cmd' \in Cmds, Underway(cmd'),
         Len(cmd'.part) <= cmd'.length, UNCHANGED <<request, at, cut>>
  PROVE  ParserShape'
<1>1. 0 \in 0 .. BufLen
  BY ParserAssumption
<1>2. Stream' = Stream
  BY DEF Stream
<1> QED
  BY <1>1, <1>2 DEF ParserShape, Drop

LEMMA RejectsShape ==
  ASSUME ParserShape, phase = "parse", Reject, buf' \in [0 .. BufLen - 1 -> Bytes],
         UNCHANGED <<request, at, cut>>
  PROVE  ParserShape'
<1>1. 0 \in 0 .. BufLen /\ Len(NoCmd.part) <= NoCmd.length
  BY ParserAssumption, NoCmdIs
<1>2. Stream' = Stream
  BY DEF Stream
<1> QED
  BY <1>1, <1>2, NoCmdIs DEF ParserShape, Reject

LEMMA HeaderFound ==
  ASSUME NEW p \in Nat, buf[p] # CR, LineEnd(p) # BufLen
  PROVE  /\ LineEnd(p) \in p + 1 .. BufLen - 2
         /\ Atoi(p + 1, LineEnd(p) - 1) \in Nat
         /\ ItemLength(p, LineEnd(p)) \in Nat
<1> DEFINE e == LineEnd(p)
<1>1. e \in p .. BufLen - 2 /\ buf[e] = CR
  BY LineEndWithin
<1>2. e \in p + 1 .. BufLen - 2 /\ e \in Nat /\ BufLen \in Nat
  BY <1>1, ParserAssumption
<1> DEFINE from == p + 1  to == e - 1
<1>3. from \in Nat /\ to \in Nat /\ from - 1 <= to
  BY <1>2
<1> HIDE DEF from, to, e
<1>4. PICK f \in Readings(from, to) : Atoi(from, to) = f[to]
  BY <1>3, AtoiIs
<1>5. Atoi(from, to) \in Nat
  <2>1. to \in from - 1 .. to
    BY <1>3
  <2> QED
    BY <1>4, <2>1 DEF Readings
<1>6. ItemLength(p, e) \in Nat
  <2>1. ItemLength(p, e) = Atoi(from, to) + 1 + (e - p - 1) + 2 + 2
    BY DEF ItemLength, from, to
  <2> DEFINE a == Atoi(from, to)
  <2> HIDE DEF a
  <2>2. a + 1 + (e - p - 1) + 2 + 2 \in Nat
    BY <1>2, <1>5 DEF a
  <2> QED
    BY <2>1, <2>2 DEF a
<1> QED
  BY <1>2, <1>5, <1>6 DEF e, from, to

LEMMA ShapeParseStar ==
  ASSUME ParserShape, ParseStar
  PROVE  ParserShape'
<1>0. /\ phase = "parse" /\ cmd = NoCmd /\ UNCHANGED <<request, at, cut>>
      /\ BufLen \in Nat /\ recv_pos \in 0 .. BufLen /\ pre \in 0 .. BufLen
      /\ buf \in [0 .. BufLen - 1 -> Bytes]
  BY ParserAssumption DEF ParseStar, ParserShape
<1>1. CASE StarAt = {}
  BY <1>0, <1>1, DropsShape DEF ParseStar, ParserShape
<1>2. CASE StarAt # {}
  <2>1. PICK star \in StarAt :
          LET end  == LineEnd(star)
              args == Atoi(star + 1, end - 1)
          IN IF end = BufLen
             THEN KeepFrom(star) /\ UNCHANGED <<cmd, out>>
             ELSE /\ buf' = [buf EXCEPT ![end] = NUL]
                  /\ IF args = 0 THEN Reject
                     ELSE /\ cmd' = [NoCmd EXCEPT !.args = args]
                          /\ pre' = end + 2
                          /\ UNCHANGED <<recv_pos, out, phase>>
    BY <1>2 DEF ParseStar
  <2>2. star \in pre .. recv_pos - 1 /\ star \in Nat /\ buf[star] # CR
    BY <1>0 DEF StarAt, CR
  <2> DEFINE end == LineEnd(star)  args == Atoi(star + 1, end - 1)
  <2>3. CASE end = BufLen
    BY <1>0, <2>1, <2>2, <2>3, KeepsShape
  <2>4. CASE end # BufLen
    <3>1. end \in star + 1 .. BufLen - 2 /\ args \in Nat
      BY <2>2, <2>4, HeaderFound
    <3> HIDE DEF end, args
    <3>2. buf' = [buf EXCEPT ![end] = NUL]
      BY <2>1, <2>4 DEF end, args
    <3>3. buf' \in [0 .. BufLen - 1 -> Bytes]
      BY <1>0, <3>2, TheBytes
    <3>4. CASE args = 0
      <4>1. Reject
        BY <2>1, <2>4, <3>4 DEF end, args
      <4> QED
        BY <1>0, <3>3, <4>1, RejectsShape
    <3>5. CASE args # 0
      <4>1. /\ cmd' = [NoCmd EXCEPT !.args = args] /\ pre' = end + 2
            /\ recv_pos' = recv_pos /\ phase' = phase
        BY <2>1, <2>4, <3>5 DEF end, args
      <4>2. cmd' \in Cmds /\ Whole(cmd') /\ Underway(cmd') /\ Len(cmd'.part) <= cmd'.length
        BY <3>1, <3>5, <4>1, BegunCmd
      <4>3. end + 2 \in 0 .. BufLen
        BY <1>0, <2>2, <3>1
      <4>4. Stream' = Stream
        BY <1>0 DEF Stream
      <4> QED
        BY <1>0, <3>3, <4>1, <4>2, <4>3, <4>4 DEF ParserShape
    <3> QED
      BY <3>4, <3>5
  <2> QED
    BY <2>3, <2>4
<1> QED
  BY <1>1, <1>2

(* The bytes of an item, or of its beginning, in the buffer. *)
LEMMA CopiedIs ==
  ASSUME buf \in [0 .. BufLen - 1 -> Bytes], pre \in Nat, NEW n \in Nat, pre + n <= BufLen,
         BufLen \in Nat
  PROVE  /\ [i \in 1 .. n |-> buf[pre + i - 1]] \in Seq(Bytes)
         /\ Len([i \in 1 .. n |-> buf[pre + i - 1]]) = n
<1>1. \A i \in 1 .. n : buf[pre + i - 1] \in Bytes
  <2>1. \A i \in 1 .. n : pre + i - 1 \in 0 .. BufLen - 1
    OBVIOUS
  <2> QED
    BY <2>1
<1> QED
  BY <1>1

LEMMA BegunItem ==
  ASSUME cmd \in Cmds, NEW num \in Nat, NEW part \in Seq(Bytes)
  PROVE  LET c == [cmd EXCEPT !.length = num, !.part = part]
         IN /\ c \in Cmds /\ c.args = cmd.args /\ c.items = cmd.items
            /\ c.length = num /\ c.part = part
BY DEF Cmds

LEMMA ShapeParseItem ==
  ASSUME ParserShape, ParseItem
  PROVE  ParserShape'
<1>0. /\ phase = "parse" /\ cmd # NoCmd /\ cmd \in Cmds /\ UNCHANGED <<request, at, cut>>
      /\ BufLen \in Nat /\ recv_pos \in 0 .. BufLen /\ pre \in 0 .. BufLen /\ pre \in Nat
      /\ buf \in [0 .. BufLen - 1 -> Bytes] /\ Len(cmd.items) < cmd.args
      /\ Whole(cmd) /\ Stream' = Stream
  BY ParserAssumption DEF ParseItem, ParserShape, Underway, Stream
<1> DEFINE end == LineEnd(pre)  num == ItemLength(pre, end)
<1>1. IF pre >= recv_pos THEN Drop /\ UNCHANGED <<cmd, out>>
      ELSE IF buf[pre] # "$" THEN Reject /\ UNCHANGED buf
      ELSE IF end = BufLen THEN KeepFrom(pre) /\ UNCHANGED <<cmd, out>>
      ELSE IF num <= 5 THEN Reject /\ UNCHANGED buf
      ELSE IF pre + num > recv_pos THEN BeginItem(num) ELSE TakeItem(num)
  BY DEF ParseItem
<1>2. CASE pre >= recv_pos
  <2>1. Drop /\ cmd' = cmd
    BY <1>1, <1>2
  <2>2. Underway(cmd) /\ Len(cmd.part) <= cmd.length
    BY DEF ParserShape
  <2> QED
    BY <1>0, <2>1, <2>2, DropsShape
<1>3. CASE ~(pre >= recv_pos) /\ buf[pre] # "$"
  BY <1>0, <1>1, <1>3, RejectsShape
<1>4. CASE ~(pre >= recv_pos) /\ buf[pre] = "$"
  <2>1. CASE end = BufLen
    <3>1. pre \in pre .. recv_pos - 1
      BY <1>0, <1>4
    <3>2. KeepFrom(pre) /\ UNCHANGED <<cmd, out>>
      BY <1>1, <1>4, <2>1
    <3> QED
      BY <1>0, <3>1, <3>2, KeepsShape
  <2>2. CASE end # BufLen
    <3>1. end \in pre + 1 .. BufLen - 2 /\ num \in Nat
      <4>1. buf[pre] # CR
        BY <1>4 DEF CR
      <4> QED
        BY <1>0, <2>2, <4>1, HeaderFound
    <3> HIDE DEF end, num
    <3>2. CASE num <= 5
      BY <1>0, <1>1, <1>4, <2>2, <3>2, RejectsShape
    <3>3. CASE ~(num <= 5) /\ pre + num > recv_pos
      <4>1. BeginItem(num)
        BY <1>1, <1>4, <2>2, <3>3
      <4> DEFINE part == [i \in 1 .. recv_pos - pre |-> buf[pre + i - 1]]
      <4>2. cmd' = [cmd EXCEPT !.length = num, !.part = part] /\ Drop
        BY <4>1 DEF BeginItem
      <4>3. part \in Seq(Bytes) /\ Len(part) = recv_pos - pre
        <5> DEFINE n == recv_pos - pre
        <5>1. n \in Nat /\ pre + n <= BufLen
          BY <1>0, <1>4
        <5> HIDE DEF n
        <5>2. /\ [i \in 1 .. n |-> buf[pre + i - 1]] \in Seq(Bytes)
              /\ Len([i \in 1 .. n |-> buf[pre + i - 1]]) = n
          BY <1>0, <5>1, CopiedIs
        <5> QED
          BY <5>2 DEF n
      <4> HIDE DEF part
      <4>4. /\ cmd' \in Cmds /\ cmd'.args = cmd.args /\ cmd'.items = cmd.items
            /\ cmd'.length = num /\ cmd'.part = part
        <5>1. cmd \in Cmds /\ num \in Nat /\ part \in Seq(Bytes)
          BY <1>0, <3>1, <4>3
        <5>2. cmd' = [cmd EXCEPT !.length = num, !.part = part]
          BY <4>2
        <5> QED
          BY ONLY <5>1, <5>2, BegunItem
      <4>5. Underway(cmd') /\ Len(cmd'.part) <= cmd'.length
        BY <1>0, <3>1, <3>3, <4>3, <4>4 DEF Underway
      <4> QED
        BY <1>0, <4>2, <4>4, <4>5, DropsShape
    <3>4. CASE ~(num <= 5) /\ ~(pre + num > recv_pos)
      <4>1. TakeItem(num)
        BY <1>1, <1>4, <2>2, <3>4
      <4> DEFINE item == [i \in 1 .. num |-> buf[pre + i - 1]]
      <4>2. item \in Seq(Bytes)
        BY <1>0, <3>1, <3>4, CopiedIs
      <4>3. /\ ItemDone(WithItem(item)) /\ pre' = pre + num /\ buf' = buf
            /\ \/ recv_pos' = 0 /\ phase' = "read"
               \/ recv_pos' = recv_pos /\ phase' = phase
        BY <4>1 DEF TakeItem
      <4> HIDE DEF item
      <4>4. cmd' \in Cmds /\ Whole(cmd') /\ Underway(cmd') /\ Len(cmd'.part) <= cmd'.length
        BY <1>0, <4>2, <4>3, ItemTaken
      <4>5. pre + num \in 0 .. BufLen /\ 0 \in 0 .. BufLen
        BY <1>0, <3>1, <3>4
      <4> QED
        BY <1>0, <4>3, <4>4, <4>5 DEF ParserShape
    <3> QED
      BY <3>2, <3>3, <3>4
  <2> QED
    BY <2>1, <2>2
<1> QED
  BY <1>2, <1>3, <1>4

LEMMA ShapeNext == ParserShape /\ [ParserNext]_parserVars => ParserShape'
<1> SUFFICES ASSUME ParserShape, [ParserNext]_parserVars PROVE ParserShape'
  OBVIOUS
<1>1. ASSUME NEW n \in Sizes(Len(Stream)), ReadItem(n) PROVE ParserShape'
  BY <1>1, ShapeReadItem
<1>2. ASSUME NEW n \in Sizes(Len(Stream)), ReadBuffer(n) PROVE ParserShape'
  BY <1>2, ShapeReadBuffer
<1>3. CASE ReadNothing
  <2>1. Whole(cmd)
    <3>1. cmd.length \in Nat /\ Len(cmd.part) \in Nat /\ Len(cmd.part) <= cmd.length
      BY DEF ParserShape, Cmds
    <3> QED
      BY <1>3, <3>1, NoCmdIs DEF ReadNothing, InItem, Whole
  <2> QED
    BY <1>3, <2>1 DEF ParserShape, ReadNothing, Stream
<1>4. CASE ParseStar
  BY <1>4, ShapeParseStar
<1>5. CASE ParseItem
  BY <1>5, ShapeParseItem
<1>6. CASE UNCHANGED parserVars
  BY <1>6 DEF ParserShape, parserVars, Stream
<1> QED
  BY <1>1, <1>2, <1>3, <1>4, <1>5, <1>6 DEF ParserNext

(* However the stream is cut into reads, the parser stays within its       *)
(* buffer, and no byte waits there while an item is received               *)
(* (tcp_server.c:303-361).                                                 *)
THEOREM ParserTyped == ParserSpec => []ParserTypeOK
<1>1. ParserSpec => []ParserShape
  BY ShapeInit, ShapeNext, PTL DEF ParserSpec
<1> QED
  BY <1>1, ShapeTyped, PTL

-----------------------------------------------------------------------------
(* The next byte that is neither of a command executed nor of an item of   *)
(* the command underway is byte p + 1 of the stream.                       *)
HandedTo(p) ==
  /\ out \in Seq(Seq(Seq(Bytes))) /\ Len(out) <= Len(request)
  /\ \A n \in 1 .. Len(out) : out[n] = Arguments(request[n])
  /\ cmd = NoCmd => p = CommandAt(request, Len(out))
  /\ cmd # NoCmd => /\ Len(out) < Len(request)
                    /\ cmd.args = Len(request[Len(out) + 1]) /\ Len(cmd.items) < cmd.args
                    /\ \A j \in 1 .. Len(cmd.items) :
                         cmd.items[j] = Argument(request[Len(out) + 1][j])
                    /\ p = ItemAt(request, Len(out), Len(cmd.items))

(* What has been read of the stream behind it is in the buffer, while the  *)
(* parser runs, or in the item that is being received.                     *)
Held(p) ==
  /\ phase \in {"read", "parse"}
  /\ phase = "read" => recv_pos = 0 /\ at = p + Len(cmd.part)
  /\ phase = "parse" => /\ pre <= recv_pos /\ at = p + (recv_pos - pre)
                        /\ \A k \in 1 .. recv_pos - pre : buf[pre + k - 1] = Stream[p + k]
  /\ Whole(cmd) => cmd.part = <<>>
  /\ ~Whole(cmd) => /\ cmd.length = Len(Argument(request[Len(out) + 1][Len(cmd.items) + 1]))
                    /\ \A k \in 1 .. Len(cmd.part) : cmd.part[k] = Stream[p + k]

AsSent == at \notin LinesOf[request] /\ \E p \in Nat : HandedTo(p) /\ Held(p)

-----------------------------------------------------------------------------
LEMMA NoLineFeed ==
  ASSUME NEW mark \in {"*", "$"}, NEW n \in 0 .. 99, NEW k \in 1 .. LineLen(n) - 1
  PROVE  Line(mark, n)[k] # LF
<1> DEFINE l == Line(mark, n)  L == LineLen(n)
<1>0. L \in 4 .. 5 /\ mark \in Bytes
  BY TheBytes DEF LineLen
<1>1. /\ l[1] = mark /\ l[L - 1] = CR
      /\ \A i \in 2 .. L - 2 : l[i] \in {Numeral[d] : d \in 0 .. 9}
  BY <1>0, LineIs
<1> HIDE DEF l, L
<1>2. k = 1 \/ k = L - 1 \/ k \in 2 .. L - 2
  BY <1>0 DEF L
<1>3. mark # LF /\ CR # LF
  BY DEF CR, LF
<1>4. \A c \in {Numeral[d] : d \in 0 .. 9} : c # LF
  BY NumeralIs
<1>5. l[k] # LF
  BY <1>1, <1>2, <1>3, <1>4
<1> QED
  BY <1>5 DEF l

(* Where reads do not end inside the lines, none is there in part.         *)
LEMMA LineWhole ==
  ASSUME NEW r \in Requests, NEW mark \in {"*", "$"}, NEW n \in 0 .. 99, NEW p \in Nat,
         Stands(StreamOf[r], p, Line(mark, n)), NEW a \in Nat, a > p,
         a <= Len(StreamOf[r]), a \notin LinesOf[r]
  PROVE  a >= p + LineLen(n)
<1> DEFINE s == StreamOf[r]  l == Line(mark, n)  L == LineLen(n)
<1>0. L \in 4 .. 5 /\ mark \in Bytes
  BY TheBytes DEF LineLen
<1>1. Len(l) = L /\ l[1] = mark
  BY <1>0, LineIs
<1>2. \A k \in 1 .. L : s[p + k] = l[k]
  BY <1>1 DEF Stands
<1>3. \A k \in 1 .. L - 1 : l[k] # LF
  BY NoLineFeed
<1>4. Len(s) \in Nat
  <2>1. s \in Seq(Bytes)
    BY StreamIs
  <2> QED
    BY <2>1
<1> SUFFICES ASSUME a < p + L PROVE FALSE
  BY <1>0
<1> HIDE DEF s, l, L
<1>5. InLine(s, a)
  <2>1. p + 1 \in 1 .. a /\ 1 \in 1 .. L
    BY <1>0
  <2>2. s[p + 1] \in {"*", "$"}
    BY <1>1, <1>2, <2>1
  <2>3. ASSUME NEW j \in p + 1 .. a PROVE s[j] # LF
    <3>1. j - p \in 1 .. L /\ j - p \in 1 .. L - 1 /\ p + (j - p) = j
      BY <1>0
    <3> QED
      BY <1>2, <1>3, <3>1
  <2> QED
    BY <2>1, <2>2, <2>3 DEF InLine
<1>6. a \in 1 .. Len(s)
  BY <1>4 DEF s
<1>7. a \in LinesOf[r]
  BY <1>5, <1>6 DEF LinesOf, s
<1> QED
  BY <1>7

LEMMA ArgumentBegins ==
  ASSUME NEW s, NEW p, NEW n \in 0 .. 99, Len(s) \in Nat, Stands(s, p, Argument(n))
  PROVE  Stands(s, p, Line("$", n))
<1>1. "$" \in Bytes
  BY TheBytes
<1>2. Len(Line("$", n)) = LineLen(n) /\ LineLen(n) \in Nat
  <2>1. Len(Line("$", n)) = LineLen(n)
    BY <1>1, LineIs
  <2> QED
    BY <2>1 DEF LineLen
<1>3. /\ Len(Argument(n)) = LineLen(n) + n + 2
      /\ \A k \in 1 .. LineLen(n) : Argument(n)[k] = Line("$", n)[k]
  BY ArgumentIs
<1>4. \A k \in 1 .. LineLen(n) : k \in 1 .. Len(Argument(n))
  <2> DEFINE L == LineLen(n)  A == Len(Argument(n))
  <2>1. L \in Nat /\ A = L + n + 2
    BY <1>2, <1>3
  <2> HIDE DEF L, A
  <2>2. \A k \in 1 .. L : k \in 1 .. A
    BY <2>1
  <2> QED
    BY <2>2 DEF L, A
<1>5. p + LineLen(n) <= Len(s)
  <2>1. p \in Nat /\ p + Len(Argument(n)) <= Len(s)
    BY DEF Stands
  <2> DEFINE L == LineLen(n)  A == Len(Argument(n))
  <2>2. A = L + n + 2 /\ L \in Nat /\ A \in Nat /\ p + A <= Len(s)
    BY <1>2, <1>3, <2>1
  <2> HIDE DEF L, A
  <2>3. p + L <= Len(s)
    BY <2>1, <2>2
  <2> QED
    BY <2>3 DEF L
<1> QED
  BY <1>2, <1>3, <1>4, <1>5 DEF Stands

LEMMA SameSeq ==
  ASSUME NEW S, NEW s \in Seq(S), NEW t \in Seq(S), Len(s) = Len(t),
         \A i \in 1 .. Len(s) : s[i] = t[i]
  PROVE  s = t
BY SeqEqual

(* Where the parser is with a command underway. *)
LEMMA ItemPlace ==
  ASSUME ParserShape, NEW p \in Nat, HandedTo(p), cmd # NoCmd
  PROVE  LET c == request[Len(out) + 1]
             n == c[Len(cmd.items) + 1]
         IN /\ Len(out) \in 0 .. Len(request) - 1 /\ Len(cmd.items) \in 0 .. Len(c) - 1
            /\ c \in Seq(1 .. 99) /\ n \in 0 .. 99 /\ Stands(Stream, p, Argument(n))
            /\ ItemAt(request, Len(out), Len(cmd.items) + 1) = p + Len(Argument(n))
            /\ ItemAt(request, Len(out), Len(c)) = CommandAt(request, Len(out) + 1)
<1> DEFINE i == Len(out)  c == request[i + 1]  j == Len(cmd.items)
<1>1. request \in Requests /\ cmd \in Cmds
  BY DEF ParserShape
<1>2. i \in Nat /\ j \in Nat /\ i < Len(request) /\ j < Len(c) /\ p = ItemAt(request, i, j)
  BY <1>1 DEF HandedTo, Cmds
<1>3. /\ Len(request) \in Nat
      /\ \A m \in 1 .. Len(request) : request[m] \in Seq(1 .. 99) /\ Len(request[m]) \in 0 .. 99
  BY <1>1, StreamIs
<1> HIDE DEF i, j
<1>4. i \in 0 .. Len(request) - 1 /\ i + 1 \in 1 .. Len(request)
  BY <1>2, <1>3
<1>5. c \in Seq(1 .. 99) /\ Len(c) \in 0 .. 99
  BY <1>3, <1>4
<1>6. j \in 0 .. Len(c) - 1
  BY <1>2, <1>5
<1>7. /\ ItemAt(request, i, Len(c)) = CommandAt(request, i + 1)
      /\ Stands(StreamOf[request], ItemAt(request, i, j), Argument(c[j + 1]))
      /\ ItemAt(request, i, j + 1) = ItemAt(request, i, j) + Len(Argument(c[j + 1]))
      /\ c[j + 1] \in 0 .. 99
  BY <1>1, <1>4, <1>6, ItemsStand
<1> QED
  BY <1>2, <1>4, <1>5, <1>6, <1>7 DEF Stream, i, j

(* With its next argument, a command goes on or is executed.               *)
LEMMA ItemGiven ==
  ASSUME ParserShape, NEW p \in Nat, HandedTo(p), cmd # NoCmd,
         ItemDone(WithItem(Argument(request[Len(out) + 1][Len(cmd.items) + 1]))),
         request' = request,
         NEW q, q = p + Len(Argument(request[Len(out) + 1][Len(cmd.items) + 1]))
  PROVE  HandedTo(q)' /\ cmd'.part = <<>> /\ Whole(cmd')
<1> DEFINE i == Len(out)  c == request[i + 1]  j == Len(cmd.items)  n == c[j + 1]
           item == Argument(n)  S == Seq(Bytes)
<1>1. /\ i \in 0 .. Len(request) - 1 /\ j \in 0 .. Len(c) - 1
      /\ c \in Seq(1 .. 99) /\ n \in 0 .. 99
      /\ ItemAt(request, i, j + 1) = q /\ ItemAt(request, i, Len(c)) = CommandAt(request, i + 1)
  BY ItemPlace
<1>2. /\ out \in Seq(Seq(Seq(Bytes)))
      /\ \A m \in 1 .. i : out[m] = Arguments(request[m])
      /\ cmd.args = Len(c)
      /\ \A m \in 1 .. j : cmd.items[m] = Argument(c[m])
  BY DEF HandedTo
<1>3. cmd \in Cmds /\ cmd.items \in Seq(Seq(Bytes)) /\ request \in Requests
  BY DEF ParserShape, Cmds
<1>4. item \in Seq(Bytes)
  BY <1>1, ArgumentIs
<1>5. Len(request) \in Nat /\ Len(c) \in Nat
  <2>1. Len(request) \in Nat
    BY <1>3, StreamIs
  <2> QED
    BY <1>1, <2>1
<1>6. /\ cmd' \in Cmds /\ Whole(cmd') /\ Underway(cmd')
      /\ j + 1 >= cmd.args => out' = Append(out, Append(cmd.items, item)) /\ cmd' = NoCmd
      /\ ~(j + 1 >= cmd.args) => /\ out' = out /\ cmd' # NoCmd /\ cmd'.args = cmd.args
                                 /\ cmd'.items = Append(cmd.items, item)
  BY <1>3, <1>4, ItemTaken
<1> DEFINE l == Append(cmd.items, item)
<1>7. /\ l \in Seq(S) /\ Len(l) = j + 1
      /\ \A m \in 1 .. j + 1 : l[m] = Argument(c[m])
  <2>1. cmd.items \in Seq(S) /\ item \in S /\ j \in Nat
    BY <1>3, <1>4
  <2> DEFINE t == cmd.items
  <2>2. \A m \in 1 .. j : t[m] = Argument(c[m])
    BY <1>2
  <2>3. item = Argument(c[j + 1]) /\ j = Len(t)
    OBVIOUS
  <2> HIDE DEF S, item, t, j, c
  <2>4. /\ Append(t, item) \in Seq(S) /\ Len(Append(t, item)) = j + 1
        /\ \A m \in 1 .. j : Append(t, item)[m] = t[m]
        /\ Append(t, item)[j + 1] = item
    BY <2>1, <2>3, AppendProperties DEF t
  <2>5. \A m \in 1 .. j + 1 : m \in 1 .. j \/ m = j + 1
    BY <2>1
  <2>6. \A m \in 1 .. j + 1 : Append(t, item)[m] = Argument(c[m])
    BY <2>2, <2>3, <2>4, <2>5
  <2> QED
    BY <2>4, <2>6 DEF t
<1> HIDE DEF l, item, i, j
<1>8. cmd'.part = <<>> /\ Whole(cmd')
  <2>1. ItemDone(WithItem(item))
    BY DEF item, i, j
  <2>2. WithItem(item).part = <<>>
    BY DEF WithItem, NoCmd
  <2> QED
    BY <1>6, <2>1, <2>2, NoCmdIs DEF ItemDone
<1>9. CASE j + 1 >= cmd.args
  <2>1. j + 1 = Len(c)
    BY <1>1, <1>2, <1>5, <1>9
  <2>2. l = Arguments(c)
    <3>1. /\ Arguments(c) \in Seq(S) /\ Len(Arguments(c)) = Len(c)
          /\ \A m \in 1 .. Len(c) : Arguments(c)[m] = Argument(c[m])
      BY <1>1, ArgumentsIs
    <3>2. Len(l) = Len(Arguments(c)) /\ \A m \in 1 .. Len(l) : l[m] = Arguments(c)[m]
      BY <1>7, <2>1, <3>1
    <3> HIDE DEF S, c
    <3> QED
      BY <1>7, <3>1, <3>2, SameSeq
  <2>3. out' = Append(out, l) /\ cmd' = NoCmd
    BY <1>6, <1>9 DEF l
  <2>4. /\ out' \in Seq(Seq(S)) /\ Len(out') = i + 1
        /\ \A m \in 1 .. i : out'[m] = out[m]
        /\ out'[i + 1] = l
    <3>1. out \in Seq(Seq(S)) /\ l \in Seq(S) /\ i = Len(out)
      BY <1>2, <1>7 DEF i
    <3> HIDE DEF S
    <3> QED
      BY <2>3, <3>1, AppendProperties
  <2>5. \A m \in 1 .. i + 1 : m \in 1 .. i \/ m = i + 1
    BY <1>1
  <2>6. \A m \in 1 .. Len(out') : out'[m] = Arguments(request'[m])
    BY <1>2, <2>2, <2>4, <2>5
  <2>7. q = CommandAt(request, i + 1)
    BY <1>1, <2>1
  <2>8. i + 1 <= Len(request)
    BY <1>1, <1>5
  <2>9. HandedTo(q)'
    BY <2>3, <2>4, <2>6, <2>7, <2>8 DEF HandedTo
  <2> QED
    BY <1>8, <2>9
<1>10. CASE ~(j + 1 >= cmd.args)
  <2>1. out' = out /\ cmd' # NoCmd /\ cmd'.args = Len(c) /\ cmd'.items = l
    BY <1>2, <1>6, <1>10 DEF l
  <2>2. j + 1 < Len(c) /\ i < Len(request)
    <3>1. cmd.args = Len(c) /\ j \in Nat /\ Len(c) \in Nat
      BY <1>1, <1>2, <1>5
    <3>2. i < Len(request)
      BY <1>1, <1>2
    <3> QED
      BY <1>10, <3>1, <3>2
  <2>3. Len(cmd'.items) = j + 1
    BY <1>7, <2>1
  <2>4. HandedTo(q)'
    BY <1>1, <1>2, <1>7, <2>1, <2>2, <2>3 DEF HandedTo, i
  <2> QED
    BY <1>8, <2>4
<1> QED
  BY <1>9, <1>10

-----------------------------------------------------------------------------
LEMMA SentReadBuffer ==
  ASSUME ParserShape, AsSent, NEW n, ReadBuffer(n), ~cut'
  PROVE  AsSent'
<1> PICK p \in Nat : HandedTo(p) /\ Held(p)
  BY DEF AsSent
<1>0. /\ request \in Requests /\ at \in 0 .. Len(Stream) /\ phase = "read" /\ recv_pos = 0
      /\ buf \in [0 .. BufLen - 1 -> Bytes] /\ BufLen \in Nat /\ Len(Stream) \in Nat
  BY ParserAssumption, StreamTyped DEF ParserShape, ReadBuffer, Held
<1>1. n \in Nat \ {0} /\ n <= BufLen /\ at + n \in 0 .. Len(Stream)
  <2>1. BufLen - recv_pos = BufLen /\ BufLen - recv_pos \in Nat
    BY <1>0
  <2> QED
    BY <1>0, <2>1, SizesIs DEF ReadBuffer
<1>2. Whole(cmd)
  <2>1. cmd.length \in Nat /\ Len(cmd.part) \in Nat /\ Len(cmd.part) <= cmd.length
    BY DEF ParserShape, Cmds
  <2> QED
    BY <2>1, NoCmdIs DEF ReadBuffer, InItem, Whole
<1>3. cmd.part = <<>> /\ at = p
  <2>1. cmd.part = <<>> /\ Len(<<>>) = 0
    BY <1>2 DEF Held
  <2> QED
    BY <1>0, <2>1 DEF Held
<1>4. /\ request' = request /\ cmd' = cmd /\ out' = out /\ at' = at + n /\ Stream' = Stream
      /\ buf' = Stored(n) /\ recv_pos' = n /\ pre' = 0 /\ phase' = "parse"
      /\ at' \notin LinesOf[request]
  <2>1. recv_pos' = recv_pos + n /\ recv_pos + n = n
    BY <1>0, <1>1 DEF ReadBuffer
  <2> QED
    BY <2>1 DEF ReadBuffer, Reads, Stream
<1>5. ASSUME NEW k \in 1 .. n PROVE buf'[0 + k - 1] = Stream[p + k]
  <2>1. /\ k - 1 \in 0 .. BufLen - 1 /\ k - 1 \in 0 .. 0 + n - 1
        /\ at + 1 + (k - 1) - 0 = p + k /\ 0 + k - 1 = k - 1
    BY <1>0, <1>1, <1>3
  <2>2. DOMAIN buf = 0 .. BufLen - 1
    BY <1>0
  <2>3. Stored(n)[k - 1] = Stream[at + 1 + (k - 1) - 0]
    BY <1>0, <2>1, <2>2 DEF Stored
  <2> QED
    BY <1>4, <2>1, <2>3
<1>6. HandedTo(p)'
  BY <1>4 DEF HandedTo
<1>7. Held(p)'
  <2>1. at' = p + (n - 0) /\ 0 <= n /\ n - 0 = n
    BY <1>0, <1>1, <1>3, <1>4
  <2>2. phase' = "parse" /\ pre' <= recv_pos' /\ at' = p + (recv_pos' - pre')
    BY <1>4, <2>1
  <2>3. \A k \in 1 .. recv_pos' - pre' : buf'[pre' + k - 1] = Stream'[p + k]
    BY <1>4, <1>5, <2>1
  <2> QED
    BY <1>2, <1>3, <1>4, <2>2, <2>3 DEF Held, Whole
<1> QED
  BY <1>4, <1>6, <1>7 DEF AsSent

LEMMA SentReadItem ==
  ASSUME ParserShape, AsSent, NEW n, ReadItem(n), ~cut'
  PROVE  AsSent'
<1> PICK p \in Nat : HandedTo(p) /\ Held(p)
  BY DEF AsSent
<1> DEFINE part == cmd.part \o Arrived(n)
           item == Argument(request[Len(out) + 1][Len(cmd.items) + 1])
           m == Len(cmd.part)
<1>0. /\ request \in Requests /\ at \in 0 .. Len(Stream) /\ phase = "read" /\ recv_pos = 0
      /\ cmd \in Cmds /\ cmd # NoCmd /\ Len(Stream) \in Nat
  BY StreamTyped DEF ParserShape, ReadItem, InItem, Held
<1>1. cmd.length \in Nat /\ cmd.part \in Seq(Bytes) /\ m \in Nat /\ m < cmd.length
  BY <1>0 DEF Cmds, ReadItem, InItem
<1>2. n \in Nat \ {0} /\ n <= cmd.length - m /\ at + n \in 0 .. Len(Stream)
  <2>1. cmd.length - Len(cmd.part) \in Nat
    BY <1>1
  <2> QED
    BY <1>0, <2>1, SizesIs DEF ReadItem
<1>3. /\ ~Whole(cmd) /\ cmd.length = Len(item) /\ at = p + m
      /\ \A k \in 1 .. m : cmd.part[k] = Stream[p + k]
  BY <1>0, <1>1 DEF Held, Whole
<1>4. /\ request' = request /\ at' = at + n /\ Stream' = Stream /\ phase' = "read"
      /\ at' \notin LinesOf[request]
  BY <1>0 DEF ReadItem, Reads, Stream
<1>5. /\ part \in Seq(Bytes) /\ Len(part) = m + n
      /\ \A k \in 1 .. m + n : part[k] = Stream[p + k]
  <2> DEFINE a == cmd.part  b == Arrived(n)
  <2>1. /\ b \in Seq(Bytes) /\ Len(b) = n /\ \A k \in 1 .. n : b[k] = Stream[at + k]
    BY <1>0, <1>2, ArrivedIs
  <2>2. a \in Seq(Bytes) /\ \A k \in 1 .. m : a[k] = Stream[p + k]
    BY <1>1, <1>3
  <2>3. m = Len(a)
    OBVIOUS
  <2> HIDE DEF a, b, m
  <2>4. /\ a \o b \in Seq(Bytes) /\ Len(a \o b) = Len(a) + Len(b)
        /\ \A k \in 1 .. Len(a) : (a \o b)[k] = a[k]
        /\ \A k \in 1 .. Len(b) : (a \o b)[Len(a) + k] = b[k]
    <3>1. a \in Seq(Bytes) /\ b \in Seq(Bytes)
      BY <2>1, <2>2
    <3> QED
      BY ONLY <3>1, Concatenated
  <2>5. ASSUME NEW k \in 1 .. m + n PROVE (a \o b)[k] = Stream[p + k]
    <3>1. CASE k \in 1 .. m
      BY <2>2, <2>3, <2>4, <3>1
    <3>2. CASE k \notin 1 .. m
      <4>1. k - m \in 1 .. n /\ m + (k - m) = k /\ at + (k - m) = p + k
        BY <1>1, <1>2, <1>3, <3>2
      <4> QED
        BY <2>1, <2>3, <2>4, <4>1
    <3> QED
      BY <3>1, <3>2
  <2> QED
    BY <2>1, <2>3, <2>4, <2>5 DEF a, b
<1>6. /\ item \in Seq(Bytes) /\ p + Len(item) <= Len(Stream)
      /\ \A k \in 1 .. Len(item) : Stream[p + k] = item[k]
  <2>1. /\ request[Len(out) + 1][Len(cmd.items) + 1] \in 0 .. 99
        /\ Stands(Stream, p, item)
    BY <1>0, ItemPlace
  <2>2. item \in Seq(Bytes)
    BY <2>1, ArgumentIs
  <2> QED
    BY <2>1, <2>2 DEF Stands
<1> HIDE DEF part, item, m
<1>7. CASE Len(part) >= cmd.length
  <2>1. recv_pos' = 0 /\ ItemDone(WithItem(part))
    BY <1>7 DEF ReadItem, part
  <2>2. Len(part) = Len(item)
    BY <1>1, <1>2, <1>3, <1>5, <1>7
  <2>3. part = item
    <3>1. \A k \in 1 .. Len(part) : part[k] = item[k]
      BY <1>5, <1>6, <2>2
    <3> QED
      BY <1>5, <1>6, <2>2, <3>1, SameSeq
  <2> DEFINE q == p + Len(item)
  <2>4. q \in Nat /\ at' = q
    <3>1. Len(item) \in Nat /\ Len(item) = cmd.length
      BY <1>1, <1>3
    <3>2. m \in Nat /\ n \in Nat /\ at = p + m /\ at' = at + n /\ Len(item) = m + n
      BY <1>1, <1>2, <1>3, <1>4, <1>5, <2>2
    <3> QED
      BY <3>1, <3>2
  <2> PICK Q \in Nat : Q = q
    BY <2>4
  <2>5. HandedTo(Q)' /\ cmd'.part = <<>> /\ Whole(cmd')
    BY <1>0, <1>4, <2>1, <2>3, ItemGiven DEF item
  <2>6. Held(Q)'
    <3>1. Len(<<>>) = 0 /\ at' = Q + 0
      BY <2>4
    <3> QED
      BY <1>4, <2>1, <2>5, <3>1 DEF Held
  <2> QED
    BY <1>4, <2>5, <2>6 DEF AsSent
<1>8. CASE ~(Len(part) >= cmd.length)
  <2>1. cmd' = [cmd EXCEPT !.part = part] /\ recv_pos' = recv_pos /\ out' = out
    BY <1>8 DEF ReadItem, part
  <2>2. /\ cmd'.args = cmd.args /\ cmd'.items = cmd.items /\ cmd'.length = cmd.length
        /\ cmd'.part = part
    <3>1. cmd \in [args : Nat, items : Seq(Seq(Bytes)), length : Nat, part : Seq(Bytes)]
      BY <1>0 DEF Cmds
    <3> QED
      BY <2>1, <3>1
  <2>3. cmd' # NoCmd /\ ~Whole(cmd')
    <3>1. ~Whole(cmd')
      BY <1>1, <1>5, <1>8, <2>2 DEF Whole
    <3> QED
      BY <3>1, NoCmdIs
  <2>4. HandedTo(p)'
    BY <1>0, <1>4, <2>1, <2>2, <2>3 DEF HandedTo
  <2>5. at' = p + Len(part)
    BY <1>1, <1>2, <1>3, <1>4, <1>5
  <2>6. Held(p)'
    BY <1>0, <1>3, <1>4, <1>5, <2>1, <2>2, <2>3, <2>5 DEF Held, item
  <2> QED
    BY <1>4, <2>4, <2>6 DEF AsSent
<1> QED
  BY <1>7, <1>8

-----------------------------------------------------------------------------
(* While the parser runs, the bytes it has are those of the stream, and of *)
(* a line that stands where it looks it has all or nothing.                *)
LEMMA LineInBuffer ==
  ASSUME ParserShape, at \notin LinesOf[request], phase = "parse", NEW p \in Nat, Held(p),
         NEW mark \in {"*", "$"}, NEW n \in 0 .. 99, Stands(Stream, p, Line(mark, n)),
         pre < recv_pos
  PROVE  /\ pre + LineLen(n) <= recv_pos /\ buf[pre] = mark
         /\ LineEnd(pre) = pre + LineLen(n) - 2
         /\ Atoi(pre + 1, LineEnd(pre) - 1) = n
<1> DEFINE L == LineLen(n)
<1>0. /\ request \in Requests /\ at \in 0 .. Len(Stream) /\ pre \in Nat
      /\ recv_pos \in 0 .. BufLen /\ BufLen \in Nat /\ Len(Stream) \in Nat
      /\ L \in 4 .. 5 /\ mark \in Bytes
  BY ParserAssumption, StreamTyped, TheBytes DEF ParserShape, LineLen
<1>1. /\ at = p + (recv_pos - pre)
      /\ \A k \in 1 .. recv_pos - pre : buf[pre + k - 1] = Stream[p + k]
  BY DEF Held
<1>2. at >= p + L
  <2>1. at \in Nat /\ at > p /\ at <= Len(StreamOf[request])
    BY <1>0, <1>1 DEF Stream
  <2>2. Stands(StreamOf[request], p, Line(mark, n))
    BY DEF Stream
  <2> QED
    BY <1>0, <2>1, <2>2, LineWhole
<1>3. pre + L <= recv_pos
  <2>1. at = p + (recv_pos - pre) /\ at >= p + L
    BY <1>1, <1>2
  <2>2. p \in Nat /\ pre \in Nat /\ recv_pos \in Nat /\ L \in Nat
    BY <1>0
  <2> QED
    BY ONLY <2>1, <2>2
<1>4. Len(Line(mark, n)) = L /\ Line(mark, n)[1] = mark
  BY <1>0, LineIs
<1>5. \A k \in 1 .. L : Stream[p + k] = Line(mark, n)[k]
  BY <1>4 DEF Stands
<1>6. ASSUME NEW k \in 1 .. L PROVE buf[pre + k - 1] = Line(mark, n)[k]
  <2>1. k \in 1 .. recv_pos - pre
    BY <1>0, <1>3
  <2> QED
    BY <1>1, <1>5, <2>1
<1>7. buf[pre] = mark
  <2>1. 1 \in 1 .. L /\ pre + 1 - 1 = pre
    BY <1>0
  <2> QED
    BY <1>4, <1>6, <2>1
<1>8. pre + L <= BufLen
  <2>1. recv_pos \in 0 .. BufLen /\ BufLen \in Nat /\ pre \in Nat /\ L \in Nat
    BY <1>0
  <2> QED
    BY ONLY <1>3, <2>1
<1> QED
  BY <1>0, <1>3, <1>6, <1>7, <1>8, LineReads

LEMMA SentParseStar ==
  ASSUME ParserShape, AsSent, WellFormed, ParseStar, ~cut'
  PROVE  AsSent'
<1> PICK p \in Nat : HandedTo(p) /\ Held(p)
  BY DEF AsSent
<1> DEFINE i == Len(out)  c == request[i + 1]  L == LineLen(Len(c))
<1>0. /\ request \in Requests /\ at \in 0 .. Len(Stream) /\ phase = "parse" /\ cmd = NoCmd
      /\ pre \in Nat /\ recv_pos \in Nat /\ pre <= recv_pos /\ at = p + (recv_pos - pre)
      /\ Len(Stream) \in Nat /\ at \notin LinesOf[request]
      /\ request' = request /\ at' = at /\ Stream' = Stream
      /\ \A k \in 1 .. recv_pos - pre : buf[pre + k - 1] = Stream[p + k]
  BY StreamTyped DEF ParserShape, ParseStar, Held, AsSent, Stream
<1>1. /\ p = CommandAt(request, i) /\ i \in Nat /\ i <= Len(request) /\ Len(request) \in Nat
  BY <1>0, StreamIs DEF HandedTo
<1>2. CASE pre = recv_pos
  <2>1. StarAt = {}
    BY <1>0, <1>2 DEF StarAt
  <2>2. /\ recv_pos' = 0 /\ phase' = "read" /\ cmd' = cmd /\ out' = out
    BY <2>1 DEF ParseStar, Drop
  <2>3. cmd.part = <<>> /\ Len(<<>>) = 0 /\ Whole(cmd)
    BY <1>0, NoCmdIs
  <2>4. HandedTo(p)'
    BY <1>0, <2>2 DEF HandedTo
  <2>5. at' = p + Len(cmd'.part)
    BY <1>0, <1>2, <2>2, <2>3
  <2>6. Held(p)'
    BY <2>2, <2>3, <2>5 DEF Held, Whole
  <2> QED
    BY <1>0, <2>4, <2>6 DEF AsSent
<1>3. CASE pre < recv_pos
  <2>1. i \in 0 .. Len(request) - 1
    <3>1. at > p /\ at <= Len(Stream)
      BY <1>0, <1>3
    <3>2. CommandAt(request, Len(request)) = Len(Stream)
      BY <1>0, CommandsStand DEF Stream
    <3>3. i # Len(request)
      BY <1>0, <1>1, <3>1, <3>2
    <3> HIDE DEF i
    <3> QED
      BY <1>1, <3>3
  <2>2. Stands(Stream, p, Line("*", Len(c))) /\ ItemAt(request, i, 0) = p + L
    BY <1>0, <1>1, <2>1, CommandsStand, ItemsStand DEF Stream
  <2>3. Len(c) \in 0 .. 99 /\ Len(c) \in Nat /\ Len(c) # 0 /\ 0 < Len(c)
    <3>1. i + 1 \in 1 .. Len(request)
      BY <1>1, <2>1
    <3>2. c \in Seq(1 .. 99) /\ Len(c) \in 0 .. 99
      BY <1>0, <3>1, StreamIs
    <3>3. c # <<>>
      BY <1>0, <3>1, StreamIs DEF WellFormed
    <3>4. Len(c) # 0
      <4> DEFINE S == 1 .. 99
      <4>1. c \in Seq(S)
        BY <3>2
      <4> HIDE DEF S, c
      <4> QED
        BY <3>3, <4>1
    <3> HIDE DEF c
    <3> QED
      BY <3>2, <3>4
  <2>4. /\ pre + L <= recv_pos /\ buf[pre] = "*"
        /\ LineEnd(pre) = pre + L - 2
        /\ Atoi(pre + 1, LineEnd(pre) - 1) = Len(c)
    <3>1. Len(c) \in 0 .. 99
      BY <2>3
    <3> QED
      BY <1>0, <1>3, <2>2, <3>1, LineInBuffer
  <2>5. L \in 4 .. 5
    BY DEF LineLen
  <2> HIDE DEF i, c, L
  <2>6. StarAt = {pre}
    <3>1. pre \in StarAt
      BY <1>0, <1>3, <2>4 DEF StarAt
    <3>2. \A x \in StarAt : x = pre
      <4> SUFFICES ASSUME NEW x \in StarAt, x # pre PROVE FALSE
        OBVIOUS
      <4>1. pre \in pre .. x - 1
        BY <1>0 DEF StarAt
      <4> QED
        BY <2>4, <4>1 DEF StarAt
    <3> QED
      BY <3>1, <3>2
  <2>7. /\ cmd' = [NoCmd EXCEPT !.args = Len(c)] /\ pre' = pre + L
        /\ buf' = [buf EXCEPT ![pre + L - 2] = NUL]
        /\ recv_pos' = recv_pos /\ out' = out /\ phase' = "parse"
    <3> DEFINE end == LineEnd(pre)
    <3>1. end # BufLen /\ end + 2 = pre + L
      <4>1. /\ end = pre + L - 2 /\ pre + L <= recv_pos /\ L \in 4 .. 5
            /\ pre \in Nat /\ recv_pos \in Nat /\ recv_pos <= BufLen /\ BufLen \in Nat
        BY <1>0, <2>4, <2>5, ParserAssumption DEF ParserShape
      <4> HIDE DEF end
      <4> QED
        BY <4>1
    <3>2. IF end = BufLen
          THEN KeepFrom(pre) /\ UNCHANGED <<cmd, out>>
          ELSE /\ buf' = [buf EXCEPT ![end] = NUL]
               /\ IF Atoi(pre + 1, end - 1) = 0 THEN Reject
                  ELSE /\ cmd' = [NoCmd EXCEPT !.args = Atoi(pre + 1, end - 1)]
                       /\ pre' = end + 2
                       /\ UNCHANGED <<recv_pos, out, phase>>
      BY <2>6 DEF ParseStar
    <3> DEFINE a == Atoi(pre + 1, end - 1)
    <3>3. a = Len(c) /\ a # 0 /\ end = pre + L - 2
      BY <2>3, <2>4
    <3> HIDE DEF end, a
    <3>4. /\ buf' = [buf EXCEPT ![end] = NUL] /\ cmd' = [NoCmd EXCEPT !.args = a]
          /\ pre' = end + 2 /\ UNCHANGED <<recv_pos, out, phase>>
      BY <3>1, <3>2, <3>3 DEF a
    <3>5. phase' = "parse"
      BY <1>0, <3>4
    <3> QED
      BY <3>1, <3>3, <3>4, <3>5
  <2>8. /\ cmd' # NoCmd /\ cmd'.args = Len(c) /\ cmd'.items = <<>> /\ cmd'.part = <<>>
        /\ Whole(cmd')
    <3> DEFINE N == Len(c)
    <3>1. N \in Nat /\ N # 0
      BY <2>3
    <3>2. cmd' = [NoCmd EXCEPT !.args = N]
      BY <2>7
    <3> HIDE DEF N
    <3>3. /\ cmd' # NoCmd /\ cmd'.args = N /\ cmd'.items = <<>> /\ cmd'.part = <<>>
          /\ Whole(cmd')
      BY <3>1, <3>2, BegunCmd
    <3> QED
      BY <3>3 DEF N
  <2> PICK Q \in Nat : Q = p + L
    BY <2>5
  <2>9. HandedTo(Q)'
    <3>1. Len(<<>>) = 0 /\ \A j \in 1 .. Len(<<>>) : FALSE
      OBVIOUS
    <3>2. i < Len(request) /\ 0 < Len(c)
      <4>1. i < Len(request)
        BY <1>1, <2>1
      <4>2. 0 < Len(c)
        BY <2>3
      <4> QED
        BY <4>1, <4>2
    <3> QED
      BY <1>0, <2>2, <2>7, <2>8, <3>1, <3>2 DEF HandedTo, i, c
  <2>10. Held(Q)'
    <3>1. pre + L <= recv_pos /\ at' = Q + (recv_pos - (pre + L))
      BY <1>0, <2>4, <2>5
    <3>2. ASSUME NEW k \in 1 .. recv_pos - (pre + L) PROVE buf'[(pre + L) + k - 1] = Stream[Q + k]
      <4>1. /\ L + k \in 1 .. recv_pos - pre /\ pre + (L + k) - 1 = (pre + L) + k - 1
            /\ p + (L + k) = Q + k /\ (pre + L) + k - 1 # pre + L - 2
            /\ (pre + L) + k - 1 \in 0 .. BufLen - 1
        BY <1>0, <2>5, ParserAssumption DEF ParserShape
      <4>2. buf'[(pre + L) + k - 1] = buf[(pre + L) + k - 1]
        BY <2>7, <4>1 DEF ParserShape
      <4> QED
        BY <1>0, <4>1, <4>2
    <3> QED
      BY <1>0, <2>7, <2>8, <3>1, <3>2 DEF Held
  <2> QED
    BY <1>0, <2>9, <2>10 DEF AsSent
<1> QED
  BY <1>0, <1>2, <1>3

LEMMA SentParseItem ==
  ASSUME ParserShape, AsSent, ParseItem, ~cut'
  PROVE  AsSent'
<1> PICK p \in Nat : HandedTo(p) /\ Held(p)
  BY DEF AsSent
<1> DEFINE n == request[Len(out) + 1][Len(cmd.items) + 1]  item == Argument(n)  L == LineLen(n)
<1>0. /\ request \in Requests /\ at \in 0 .. Len(Stream) /\ phase = "parse" /\ cmd # NoCmd
      /\ cmd \in Cmds /\ buf \in [0 .. BufLen - 1 -> Bytes] /\ BufLen \in Nat
      /\ pre \in Nat /\ recv_pos \in 0 .. BufLen /\ pre <= recv_pos /\ at = p + (recv_pos - pre)
      /\ Len(Stream) \in Nat /\ at \notin LinesOf[request]
      /\ request' = request /\ at' = at /\ Stream' = Stream
      /\ \A k \in 1 .. recv_pos - pre : buf[pre + k - 1] = Stream[p + k]
      /\ Whole(cmd) /\ cmd.part = <<>>
  BY ParserAssumption, StreamTyped DEF ParserShape, ParseItem, Held, AsSent, Stream
<1>1. n \in 0 .. 99 /\ Stands(Stream, p, item)
  BY <1>0, ItemPlace
<1>2. /\ item \in Seq(Bytes) /\ Len(item) = L + n + 2 /\ Len(item) \in Nat /\ L \in 4 .. 5
      /\ p + Len(item) <= Len(Stream) /\ \A k \in 1 .. Len(item) : Stream[p + k] = item[k]
  <2>1. item \in Seq(Bytes) /\ Len(item) = L + n + 2 /\ Len(item) \in Nat
    BY <1>1, ArgumentIs
  <2>2. L \in 4 .. 5
    BY DEF LineLen
  <2>3. p + Len(item) <= Len(Stream) /\ \A k \in 1 .. Len(item) : Stream[p + k] = item[k]
    BY <1>1 DEF Stands
  <2> QED
    BY <2>1, <2>2, <2>3
<1>3. Stands(Stream, p, Line("$", n))
  BY <1>0, <1>1, ArgumentBegins
<1> DEFINE end == LineEnd(pre)  num == ItemLength(pre, end)
<1>4. IF pre >= recv_pos THEN Drop /\ UNCHANGED <<cmd, out>>
      ELSE IF buf[pre] # "$" THEN Reject /\ UNCHANGED buf
      ELSE IF end = BufLen THEN KeepFrom(pre) /\ UNCHANGED <<cmd, out>>
      ELSE IF num <= 5 THEN Reject /\ UNCHANGED buf
      ELSE IF pre + num > recv_pos THEN BeginItem(num) ELSE TakeItem(num)
  BY DEF ParseItem
<1>5. CASE pre = recv_pos
  <2>1. recv_pos' = 0 /\ phase' = "read" /\ cmd' = cmd /\ out' = out
    BY <1>0, <1>4, <1>5 DEF Drop
  <2>2. HandedTo(p)'
    BY <1>0, <2>1 DEF HandedTo
  <2>3. at' = p + Len(cmd'.part)
    <3>1. Len(<<>>) = 0
      OBVIOUS
    <3> QED
      BY <1>0, <1>5, <2>1, <3>1
  <2>4. Held(p)'
    BY <1>0, <2>1, <2>3 DEF Held, Whole
  <2> QED
    BY <1>0, <2>2, <2>4 DEF AsSent
<1>6. CASE pre < recv_pos
  <2>1. /\ pre + L <= recv_pos /\ buf[pre] = "$" /\ end = pre + L - 2
        /\ Atoi(pre + 1, end - 1) = n
    BY <1>0, <1>1, <1>3, <1>6, LineInBuffer
  <2> HIDE DEF n, item, L
  <2>2. num = Len(item)
    <3> DEFINE a == Atoi(pre + 1, end - 1)
    <3>1. num = a + 1 + (end - pre - 1) + 2 + 2
      BY DEF ItemLength
    <3> HIDE DEF a, end, num
    <3>2. a = n /\ end = pre + L - 2
      BY <2>1 DEF a, end
    <3>3. pre \in Nat /\ n \in 0 .. 99 /\ L \in 4 .. 5 /\ Len(item) = L + n + 2
      BY <1>0, <1>1, <1>2
    <3>4. a + 1 + (end - pre - 1) + 2 + 2 = L + n + 2
      BY <3>2, <3>3
    <3> QED
      BY <3>1, <3>3, <3>4
  <2>3. end # BufLen /\ num \in Nat /\ num > 5
    <3>1. end # BufLen
      BY <1>0, <1>2, <2>1
    <3> DEFINE z == Len(item)
    <3>2. z = L + n + 2 /\ L \in 4 .. 5 /\ n \in 0 .. 99
      BY <1>1, <1>2
    <3> HIDE DEF z
    <3>3. z \in Nat /\ z > 5
      BY <3>2
    <3> QED
      BY <2>2, <3>1, <3>3 DEF z
  <2> HIDE DEF num, end
  <2>6. IF pre + num > recv_pos THEN BeginItem(num) ELSE TakeItem(num)
    <3>1. ~(pre >= recv_pos) /\ buf[pre] = "$" /\ end # BufLen /\ ~(num <= 5)
      BY <1>0, <1>6, <2>1, <2>3
    <3> QED
      BY <1>4, <3>1
  <2>4. CASE pre + num > recv_pos
    <3>1. BeginItem(num)
      BY <2>4, <2>6
    <3> DEFINE m == recv_pos - pre
               part == [i \in 1 .. m |-> buf[pre + i - 1]]
    <3>2. /\ cmd' = [cmd EXCEPT !.length = num, !.part = part]
          /\ recv_pos' = 0 /\ phase' = "read" /\ out' = out
      BY <3>1 DEF BeginItem, Drop
    <3>3. part \in Seq(Bytes) /\ Len(part) = m /\ \A k \in 1 .. m : part[k] = Stream[p + k]
      <4>1. m \in Nat /\ pre + m <= BufLen
        BY <1>0
      <4>2. \A k \in 1 .. m : part[k] = Stream[p + k]
        BY <1>0
      <4> HIDE DEF m
      <4> QED
        BY <1>0, <4>1, <4>2, CopiedIs
    <3>4. m \in Nat /\ m < num
      BY <1>0, <1>2, <2>2, <2>4
    <3>5. at' = p + m
      BY <1>0
    <3> HIDE DEF part, m
    <3>6. /\ cmd' \in Cmds /\ cmd'.args = cmd.args /\ cmd'.items = cmd.items
          /\ cmd'.length = num /\ cmd'.part = part
      <4>1. num \in Nat /\ cmd \in Cmds /\ part \in Seq(Bytes)
        BY <1>0, <2>3, <3>3
      <4>2. cmd' = [cmd EXCEPT !.length = num, !.part = part]
        BY <3>2
      <4> QED
        BY <4>1, <4>2, BegunItem
    <3>7. ~Whole(cmd') /\ cmd' # NoCmd
      <4>1. ~Whole(cmd')
        BY <3>3, <3>4, <3>6 DEF Whole
      <4> QED
        BY <4>1, NoCmdIs
    <3>8. HandedTo(p)'
      BY <1>0, <3>2, <3>6, <3>7 DEF HandedTo
    <3>9. Held(p)'
      BY <1>0, <2>2, <3>2, <3>3, <3>5, <3>6, <3>7 DEF Held, item, n
    <3> QED
      BY <1>0, <3>8, <3>9 DEF AsSent
  <2>5. CASE ~(pre + num > recv_pos)
    <3>1. TakeItem(num)
      BY <2>5, <2>6
    <3> DEFINE taken == [i \in 1 .. num |-> buf[pre + i - 1]]
    <3>2. taken = item
      <4>1. num \in Nat /\ pre + num <= recv_pos /\ pre + num <= BufLen
        BY <1>0, <1>2, <2>2, <2>5
      <4>2. taken \in Seq(Bytes) /\ Len(taken) = num
        BY <1>0, <4>1, CopiedIs
      <4>3. ASSUME NEW k \in 1 .. num PROVE taken[k] = item[k]
        <5>1. k \in 1 .. recv_pos - pre /\ k \in 1 .. Len(item)
          BY <1>0, <2>2, <4>1
        <5> QED
          BY <1>0, <1>2, <5>1
      <4> HIDE DEF taken
      <4> QED
        BY <1>2, <2>2, <4>2, <4>3, SameSeq
    <3>3. /\ ItemDone(WithItem(item)) /\ pre' = pre + num /\ buf' = buf
          /\ IF cmd' = NoCmd /\ pre' >= recv_pos
             THEN recv_pos' = 0 /\ phase' = "read"
             ELSE UNCHANGED <<recv_pos, phase>>
      BY <3>1, <3>2 DEF TakeItem
    <3> PICK Q \in Nat : Q = p + num
      BY <1>2, <2>2
    <3>4. HandedTo(Q)' /\ cmd'.part = <<>> /\ Whole(cmd')
      BY <1>0, <2>2, <3>3, ItemGiven DEF item, n
    <3>5. Held(Q)'
      <4>0. num \in Nat /\ pre + num <= recv_pos /\ Len(<<>>) = 0
        BY <1>0, <1>2, <2>2, <2>5
      <4>1. CASE cmd' = NoCmd /\ pre' >= recv_pos
        <5>1. recv_pos' = 0 /\ phase' = "read"
          BY <3>3, <4>1
        <5>2. at' = Q + 0
          BY <1>0, <3>3, <4>0, <4>1
        <5> QED
          BY <3>4, <4>0, <5>1, <5>2 DEF Held
      <4>2. CASE ~(cmd' = NoCmd /\ pre' >= recv_pos)
        <5>1. recv_pos' = recv_pos /\ phase' = "parse"
          BY <1>0, <3>3, <4>2
        <5>2. at' = Q + (recv_pos - (pre + num))
          BY <1>0, <4>0
        <5>3. ASSUME NEW k \in 1 .. recv_pos - (pre + num)
              PROVE  buf[(pre + num) + k - 1] = Stream[Q + k]
          <6>1. /\ num + k \in 1 .. recv_pos - pre /\ pre + (num + k) - 1 = (pre + num) + k - 1
                /\ p + (num + k) = Q + k
            BY <1>0, <4>0
          <6> QED
            BY <1>0, <6>1
        <5> QED
          BY <1>0, <3>3, <3>4, <4>0, <5>1, <5>2, <5>3 DEF Held
      <4> QED
        BY <4>1, <4>2
    <3> QED
      BY <1>0, <3>4, <3>5 DEF AsSent
  <2> QED
    BY <2>4, <2>5
<1> QED
  BY <1>0, <1>5, <1>6

-----------------------------------------------------------------------------
(* ParserShape, and AsSent while no read has ended inside a line.          *)
ParserInv == ParserShape /\ (WellFormed /\ ~cut => AsSent)

LEMMA SentInit == ParserInit => ParserInv
<1> SUFFICES ASSUME ParserInit PROVE ParserInv
  OBVIOUS
<1>1. ParserShape
  BY ShapeInit
<1>2. AsSent
  <2>1. at \notin LinesOf[request]
    BY DEF ParserInit, LinesOf
  <2>2. Len(<<>>) = 0 /\ <<>> \in Seq(Seq(Seq(Bytes)))
    OBVIOUS
  <2>3. request \in Requests /\ Len(request) \in Nat /\ CommandAt(request, 0) = 0
    BY StreamIs, CommandsStand DEF ParserInit
  <2>4. HandedTo(0)
    BY <2>2, <2>3 DEF ParserInit, HandedTo
  <2>5. Held(0)
    BY <2>2, NoCmdIs DEF ParserInit, Held
  <2> QED
    BY <2>1, <2>4, <2>5 DEF AsSent
<1> QED
  BY <1>1, <1>2 DEF ParserInv

LEMMA SentNext == ParserInv /\ [ParserNext]_parserVars => ParserInv'
<1> SUFFICES ASSUME ParserInv, [ParserNext]_parserVars PROVE ParserInv'
  OBVIOUS
<1>1. ParserShape /\ ParserShape'
  BY ShapeNext DEF ParserInv
<1> SUFFICES ASSUME WellFormed', ~cut' PROVE AsSent'
  BY <1>1 DEF ParserInv
<1>2. request' = request /\ (cut => cut')
  <2>1. ASSUME NEW n, ReadItem(n) PROVE request' = request /\ (cut => cut')
    BY <2>1 DEF ReadItem, Reads
  <2>2. ASSUME NEW n, ReadBuffer(n) PROVE request' = request /\ (cut => cut')
    BY <2>2 DEF ReadBuffer, Reads
  <2>3. ASSUME ReadNothing \/ ParseStar \/ ParseItem \/ UNCHANGED parserVars
        PROVE  request' = request /\ (cut => cut')
    BY <2>3 DEF ReadNothing, ParseStar, ParseItem, parserVars
  <2> QED
    BY <2>1, <2>2, <2>3 DEF ParserNext
<1>3. WellFormed /\ AsSent
  BY <1>2 DEF ParserInv, WellFormed
<1>4. ASSUME NEW n \in Sizes(Len(Stream)), ReadItem(n) PROVE AsSent'
  BY <1>1, <1>3, <1>4, SentReadItem
<1>5. ASSUME NEW n \in Sizes(Len(Stream)), ReadBuffer(n) PROVE AsSent'
  BY <1>1, <1>3, <1>5, SentReadBuffer
<1>6. CASE ReadNothing
  <2>1. recv_pos = BufLen /\ phase = "read"
    BY <1>6 DEF ReadNothing
  <2>2. recv_pos = 0
    BY <1>3, <2>1 DEF AsSent, Held
  <2> QED
    BY <2>1, <2>2, ParserAssumption
<1>7. CASE ParseStar
  BY <1>1, <1>3, <1>7, SentParseStar
<1>8. CASE ParseItem
  BY <1>1, <1>3, <1>8, SentParseItem
<1>9. CASE UNCHANGED parserVars
  <2>1. ASSUME NEW p \in Nat, HandedTo(p), Held(p) PROVE HandedTo(p)' /\ Held(p)'
    BY <1>9, <2>1 DEF HandedTo, Held, Whole, Stream, parserVars
  <2> QED
    BY <1>3, <1>9, <2>1 DEF AsSent, parserVars
<1> QED
  BY <1>4, <1>5, <1>6, <1>7, <1>8, <1>9 DEF ParserNext

(* In such a state the commands executed are those sent.                   *)
LEMMA SentMeans == ParserShape /\ AsSent => CommandsAsSent /\ phase # "closed"
<1> SUFFICES ASSUME ParserShape, AsSent PROVE CommandsAsSent /\ phase # "closed"
  OBVIOUS
<1> PICK p \in Nat : HandedTo(p) /\ Held(p)
  BY DEF AsSent
<1> DEFINE S == Seq(Seq(Bytes))
<1>0. /\ request \in Requests /\ Len(request) \in Nat /\ DOMAIN request = 1 .. Len(request)
      /\ \A i \in 1 .. Len(request) : request[i] \in Seq(1 .. 99)
      /\ at \in 0 .. Len(Stream) /\ Len(Stream) \in Nat
  BY StreamIs, StreamTyped DEF ParserShape
<1>1. Expected \in Seq(S) /\ Len(Expected) = Len(request)
  <2>1. \A i \in 1 .. Len(request) : Arguments(request[i]) \in S
    BY <1>0, ArgumentsIs
  <2>2. Expected = [i \in 1 .. Len(request) |-> Arguments(request[i])]
    BY <1>0 DEF Expected
  <2> HIDE DEF S
  <2> QED
    BY <1>0, <2>1, <2>2
<1>2. /\ out \in Seq(S) /\ Len(out) \in Nat /\ Len(out) <= Len(request)
      /\ \A n \in 1 .. Len(out) : out[n] = Expected[n]
  <2>1. out \in Seq(S) /\ Len(out) <= Len(request)
    BY DEF HandedTo
  <2>2. Len(out) \in Nat
    <3> HIDE DEF S
    <3> QED
      BY <2>1
  <2>3. \A n \in 1 .. Len(out) : n \in 1 .. Len(request)
    BY <1>0, <2>1, <2>2
  <2>4. \A n \in 1 .. Len(out) : out[n] = Arguments(request[n])
    BY DEF HandedTo
  <2> QED
    BY <1>0, <2>1, <2>2, <2>3, <2>4 DEF Expected
<1>3. IsPrefix(out, Expected)
  <2> DEFINE n == Len(out)  E == Expected
  <2> HIDE DEF S, E, n
  <2>1. n \in Nat /\ n <= Len(E) /\ E \in Seq(S) /\ out \in Seq(S) /\ Len(E) \in Nat
    BY <1>0, <1>1, <1>2 DEF n, E
  <2>2. \A i \in 1 .. n : out[i] \in S /\ E[i] \in S
    <3>1. \A i \in 1 .. n : i \in 1 .. Len(E)
      BY <2>1
    <3> QED
      BY <2>1, <3>1 DEF n
  <2>3. /\ SubSeq(out, 1, n) \in Seq(S) /\ SubSeq(E, 1, n) \in Seq(S)
        /\ Len(SubSeq(out, 1, n)) = n /\ Len(SubSeq(E, 1, n)) = n
        /\ \A i \in 1 .. n : SubSeq(out, 1, n)[i] = out[i] /\ SubSeq(E, 1, n)[i] = E[i]
    <3>1. n - 1 + 1 = n /\ \A i \in 1 .. n : 1 + i - 1 = i
      BY <2>1
    <3>2. (IF 1 <= n THEN n - 1 + 1 ELSE 0) = n
      BY <2>1
    <3> QED
      BY <2>1, <2>2, <3>1, <3>2, SubSeqProperties
  <2>4. \A i \in 1 .. n : out[i] = E[i]
    BY <1>2 DEF n, E
  <2>5. SubSeq(out, 1, n) = SubSeq(E, 1, n)
    BY <2>3, <2>4, SameSeq
  <2> QED
    BY <2>1, <2>5 DEF IsPrefix, n, E
<1>4. ASSUME phase = "read", at = Len(Stream) PROVE out = Expected
  <2>1. at = p + Len(cmd.part) /\ cmd \in Cmds
    BY <1>4 DEF Held, ParserShape
  <2>2. Len(out) = Len(request)
    <3>1. CASE cmd = NoCmd
      <4>1. p = CommandAt(request, Len(out)) /\ p = Len(Stream)
        <5>1. cmd.part = <<>> /\ Len(<<>>) = 0
          BY <3>1, NoCmdIs
        <5> QED
          BY <1>4, <2>1, <3>1, <5>1 DEF HandedTo
      <4>2. Len(out) \notin 0 .. Len(request) - 1
        <5> SUFFICES ASSUME Len(out) \in 0 .. Len(request) - 1 PROVE FALSE
          OBVIOUS
        <5> DEFINE n == Len(request[Len(out) + 1])
        <5>1. n \in 0 .. 99
          <6>1. Len(out) + 1 \in 1 .. Len(request)
            BY <1>0, <1>2
          <6> QED
            BY <1>0, <6>1, StreamIs
        <5>2. Stands(Stream, p, Line("*", n))
          BY <1>0, <4>1, CommandsStand DEF Stream
        <5>3. Len(Line("*", n)) \in 4 .. 5
          <6>1. "*" \in Bytes
            BY TheBytes
          <6>2. Len(Line("*", n)) = LineLen(n)
            BY <5>1, <6>1, LineIs
          <6>3. LineLen(n) \in 4 .. 5
            BY DEF LineLen
          <6> QED
            BY <6>2, <6>3
        <5> DEFINE z == Len(Line("*", n))
        <5>4. p + z <= Len(Stream) /\ z \in 4 .. 5 /\ p = Len(Stream)
          BY <4>1, <5>2, <5>3 DEF Stands
        <5> HIDE DEF z
        <5> QED
          BY <1>0, <5>4
      <4> QED
        BY <1>0, <1>2, <4>2
    <3>2. CASE cmd # NoCmd
      <4> DEFINE item == Argument(request[Len(out) + 1][Len(cmd.items) + 1])
      <4>1. Stands(Stream, p, item) /\ request[Len(out) + 1][Len(cmd.items) + 1] \in 0 .. 99
        BY <3>2, ItemPlace
      <4>2. Len(item) \in Nat /\ Len(item) > 0
        <5> DEFINE n == request[Len(out) + 1][Len(cmd.items) + 1]
        <5>1. n \in 0 .. 99 /\ Len(item) = LineLen(n) + n + 2
          BY <4>1, ArgumentIs
        <5>2. LineLen(n) \in 4 .. 5
          BY DEF LineLen
        <5> HIDE DEF n, item
        <5> QED
          BY <5>1, <5>2
      <4>3. p + Len(item) <= Len(Stream)
        BY <4>1 DEF Stands
      <4>4. Len(cmd.part) \in Nat /\ Len(cmd.part) < Len(item)
        <5>1. Len(<<>>) = 0 /\ cmd.length \in Nat /\ cmd.part \in Seq(Bytes)
          BY <2>1 DEF Cmds
        <5>2. CASE Whole(cmd)
          BY <4>2, <5>1, <5>2 DEF Held
        <5>3. CASE ~Whole(cmd)
          <6>1. cmd.length = Len(item)
            BY <5>3 DEF Held
          <6>2. Len(cmd.part) <= cmd.length /\ cmd.length # Len(cmd.part)
            BY <5>3 DEF Whole, ParserShape
          <6>3. Len(cmd.part) \in Nat
            BY <5>1
          <6> HIDE DEF item
          <6> QED
            BY <5>1, <6>1, <6>2, <6>3
        <5> QED
          BY <5>2, <5>3
      <4> HIDE DEF item
      <4> QED
        BY <1>0, <1>4, <2>1, <4>2, <4>3, <4>4
    <3> QED
      BY <3>1, <3>2
  <2> HIDE DEF S
  <2>3. Len(out) = Len(Expected)
    BY <1>1, <2>2
  <2> QED
    BY <1>1, <1>2, <2>3, SameSeq
<1> QED
  BY <1>3, <1>4 DEF CommandsAsSent, Held

(* The inductive invariant of the receive loop and the parser              *)
(* (tcp_server.c:120-259, 298-369).                                        *)
THEOREM ParserInvariant == ParserSpec => []ParserInv
BY SentInit, SentNext, PTL DEF ParserSpec

(* Commands whose header lines arrive whole are executed as they were      *)
(* sent, in order, and none is missing (tcp_server.c:292-297).             *)
THEOREM ParserKeepsCommands == ParserSpec => []WholeLinesAsSent
<1>1. ParserInv => WholeLinesAsSent
  <2> SUFFICES ASSUME ParserInv, ~cut PROVE CommandsAsSent /\ (WellFormed => phase # "closed")
    BY DEF WholeLinesAsSent
  <2>1. CASE WellFormed
    BY <2>1, SentMeans DEF ParserInv
  <2>2. CASE ~WellFormed
    BY <2>2 DEF CommandsAsSent
  <2> QED
    BY <2>1, <2>2
<1> QED
  BY <1>1, ParserInvariant, PTL
=============================================================================
