--------------------------- MODULE AeTimersProofs ---------------------------
(***************************************************************************)
(* No timer is lost and no deleted timer fires, for any number of timers   *)
(* and any callbacks: TypeOK and NoTimerLost of AeTimers are invariants    *)
(* and OverNeverFires holds of every step.                                 *)
(***************************************************************************)
EXTENDS AeTimers, SequenceTheorems, FiniteSetTheorems, WellFoundedInduction, TLAPS

TimerRecord == [name : Nat, id : Nat \cup {NoId}, when : Nat]

(* A list of timers younger than nx, the youngest first, in which those of *)
(* ov are marked as deleted.                                               *)
Aged(l, nx, ov) ==
  \A i \in 1 .. Len(l) :
    /\ l[i].name < nx /\ l[i].id \in {NoId, l[i].name}
    /\ l[i].name \in ov => l[i].id = NoId

YoungestFirst(l) == \A i, j \in 1 .. Len(l) : i < j => l[j].name < l[i].name

ListOK(l, nx, ov) == l \in Seq(TimerRecord) /\ Aged(l, nx, ov) /\ YoungestFirst(l)

(* What the walk relies on: the timers it has still to meet are not newer  *)
(* than maxId, and between prev and the next of them are only timers that  *)
(* finalizers created, and only while prev is null.                        *)
WalkOK(l, lf, pv, mx, bf) ==
  /\ \A i \in Len(l) - lf + 1 .. Len(l) : l[i].name <= mx
  /\ pv = NoId => \A i \in 1 .. Len(l) - lf : l[i].name \in bf
  /\ pv # NoId => Len(l) - lf >= 1 /\ l[Len(l) - lf].name = pv

NoneLost(l, nx, out, bf) ==
  /\ \A n \in 0 .. nx - 1 : n \in out \cup bf \/ \E i \in 1 .. Len(l) : l[i].name = n
  /\ \A i \in 1 .. Len(l) : l[i].name \notin out

Scalars ==
  /\ nextId \in 0 .. MaxTimers /\ now \in 1 .. MaxTime
  /\ phase \in {"before", "poll", "files", "pass"}
  /\ deadline \in Nat \cup {Forever}
  /\ {prev, maxId} \subseteq NoId .. nextId - 1
  /\ over \cup byFinal \cup gone \subseteq 0 .. nextId - 1

TimerInv ==
  /\ Scalars
  /\ ListOK(list, nextId, over)
  /\ left \in 0 .. Len(list)
  /\ phase = "pass" => WalkOK(list, left, prev, maxId, byFinal)
  /\ NoneLost(list, nextId, gone, byFinal)

-----------------------------------------------------------------------------
LEMMA Numbers == MaxTime \in Nat \ {0} /\ MaxTimers \in Nat /\ Delays \subseteq Nat \ {0}
  BY TimerAssumption

(* m is l, perhaps with a new timer at its head, and says the same names.  *)
Grown(l, m, k, nx) ==
  /\ k \in {0, 1} /\ Len(m) = Len(l) + k
  /\ \A i \in 1 .. Len(l) : m[i + k].name = l[i].name
  /\ k = 1 => m[1].name = nx

LEMMA Marked ==
  ASSUME NEW l, NEW nx, NEW ov, ListOK(l, nx, ov), NEW del
  PROVE  /\ ListOK(Mark(l, del), nx, ov \cup del)
         /\ Len(Mark(l, del)) = Len(l)
         /\ \A i \in 1 .. Len(l) :
              /\ Mark(l, del)[i].name = l[i].name
              /\ l[i].id = NoId => Mark(l, del)[i].id = NoId
<1> DEFINE m == Mark(l, del)
<1>1. /\ l \in Seq(TimerRecord) /\ Len(l) \in Nat /\ DOMAIN l = 1 .. Len(l)
      /\ \A i \in 1 .. Len(l) : l[i] \in TimerRecord
  BY DEF ListOK
<1>2. m = [i \in 1 .. Len(l) |-> IF l[i].id \in del THEN [l[i] EXCEPT !.id = NoId] ELSE l[i]]
  BY <1>1 DEF Mark
<1> HIDE DEF m
<1>3. ASSUME NEW i \in 1 .. Len(l)
      PROVE  /\ m[i] \in TimerRecord /\ m[i].name = l[i].name
             /\ m[i].id = IF l[i].id \in del THEN NoId ELSE l[i].id
  BY <1>1, <1>2 DEF TimerRecord
<1>4. m \in Seq(TimerRecord) /\ Len(m) = Len(l)
  <2>1. m \in [1 .. Len(l) -> TimerRecord]
    BY <1>2, <1>3
  <2> QED
    BY <1>1, <2>1
<1>5. Aged(m, nx, ov \cup del)
  BY <1>3, <1>4 DEF Aged, ListOK
<1>6. YoungestFirst(m)
  BY <1>3, <1>4 DEF YoungestFirst, ListOK
<1> QED
  BY <1>3, <1>4, <1>5, <1>6 DEF ListOK, m

LEMMA PushedOn ==
  ASSUME NEW nx \in Nat, NEW w \in Nat, NEW ov, ov \subseteq 0 .. nx - 1,
         NEW m, ListOK(m, nx, ov)
  PROVE  Grown(m, Push(m, Timer(nx, w)), 1, nx) /\ ListOK(Push(m, Timer(nx, w)), nx + 1, ov)
<1> DEFINE t == Timer(nx, w)
           u == <<t>>
           p == Push(m, t)
<1>1. m \in Seq(TimerRecord) /\ Len(m) \in Nat /\ \A i \in 1 .. Len(m) : m[i] \in TimerRecord
  BY DEF ListOK
<1>2. t \in TimerRecord /\ t.name = nx /\ t.id = nx
  BY DEF Timer, TimerRecord
<1>3. p = u \o m
  BY DEF Push
<1> HIDE DEF t, p
<1>4. u \in Seq(TimerRecord) /\ Len(u) = 1 /\ u[1] = t
  BY <1>2
<1> HIDE DEF u
<1>5. /\ p \in Seq(TimerRecord) /\ Len(p) = 1 + Len(m)
      /\ \A i \in 1 .. 1 + Len(m) : p[i] = IF i <= 1 THEN t ELSE m[i - 1]
  <2>1. /\ u \o m \in Seq(TimerRecord) /\ Len(u \o m) = Len(u) + Len(m)
        /\ \A i \in 1 .. Len(u) + Len(m) : (u \o m)[i] = IF i <= Len(u) THEN u[i] ELSE m[i - Len(u)]
    BY <1>1, <1>4, ConcatProperties
  <2>2. \A i \in 1 .. 1 + Len(m) : i <= 1 => i = 1
    OBVIOUS
  <2> QED
    BY <1>1, <1>3, <1>4, <2>1, <2>2
<1>6. Grown(m, p, 1, nx)
  BY <1>1, <1>2, <1>5 DEF Grown
<1>7. Aged(p, nx + 1, ov)
  <2> SUFFICES ASSUME NEW i \in 1 .. 1 + Len(m)
               PROVE  /\ p[i].name < nx + 1 /\ p[i].id \in {NoId, p[i].name}
                      /\ p[i].name \in ov => p[i].id = NoId
    BY <1>1, <1>5 DEF Aged
  <2>1. CASE i = 1
    BY <1>1, <1>2, <1>5, <2>1
  <2>2. CASE i # 1
    <3>1. i - 1 \in 1 .. Len(m) /\ p[i] = m[i - 1]
      BY <1>1, <1>5, <2>2
    <3>2. m[i - 1] \in TimerRecord
      BY <1>1, <3>1
    <3> QED
      BY <1>1, <3>1, <3>2 DEF ListOK, Aged, TimerRecord
  <2> QED
    BY <2>1, <2>2
<1>8. YoungestFirst(p)
  <2> SUFFICES ASSUME NEW i \in 1 .. 1 + Len(m), NEW j \in 1 .. 1 + Len(m), i < j
               PROVE  p[j].name < p[i].name
    BY <1>1, <1>5 DEF YoungestFirst
  <2>1. j - 1 \in 1 .. Len(m) /\ p[j] = m[j - 1]
    BY <1>1, <1>5
  <2>2. CASE i = 1
    BY <1>1, <1>2, <1>5, <2>1, <2>2 DEF ListOK, Aged
  <2>3. CASE i # 1
    <3>1. i - 1 \in 1 .. Len(m) /\ p[i] = m[i - 1] /\ i - 1 < j - 1
      BY <1>1, <1>5, <2>3
    <3> QED
      BY <2>1, <3>1 DEF ListOK, YoungestFirst
  <2> QED
    BY <2>2, <2>3
<1>9. Grown(m, p, 1, nx) /\ ListOK(p, nx + 1, ov)
  BY <1>5, <1>6, <1>7, <1>8 DEF ListOK
<1> QED
  BY <1>9 DEF p, t

(* The calls of one piece of user code, of which m has the deletion.       *)
LEMMA Pushed ==
  ASSUME NEW m, NEW ov, Scalars, ListOK(m, nextId, ov), ov \subseteq 0 .. nextId - 1,
         NEW new \in {NoTimer} \cup Delays,
         list' = IF new = NoTimer THEN m ELSE Push(m, Timer(nextId, now + new)),
         nextId' = IF new = NoTimer THEN nextId ELSE nextId + 1
  PROVE  \E k \in {0, 1} : /\ nextId' = nextId + k
                           /\ Grown(m, list', k, nextId)
                           /\ ListOK(list', nextId', ov)
<1>1. nextId \in Nat /\ now \in Nat /\ Len(m) \in Nat
  BY Numbers DEF Scalars, ListOK
<1>2. CASE new = NoTimer
  BY <1>1, <1>2 DEF Grown
<1>3. CASE new # NoTimer
  <2>1. new \in Nat
    BY <1>3, Numbers
  <2>2. now + new \in Nat
    BY <1>1, <2>1
  <2>3. /\ Grown(m, Push(m, Timer(nextId, now + new)), 1, nextId)
        /\ ListOK(Push(m, Timer(nextId, now + new)), nextId + 1, ov)
    BY <1>1, <2>2, PushedOn
  <2> QED
    BY <1>3, <2>3
<1> QED
  BY <1>2, <1>3

LEMMA UserCodeEffect ==
  ASSUME NEW l, Scalars, ListOK(l, nextId, over), UserCode(l)
  PROVE  /\ \E k \in {0, 1} : /\ nextId' = nextId + k
                              /\ Grown(l, list', k, nextId)
         /\ ListOK(list', nextId', over')
         /\ nextId' \in 0 .. MaxTimers /\ over' \subseteq 0 .. nextId' - 1
<1>1. PICK new \in {NoTimer} \cup Delays, del \in {{}} \cup {{n} : n \in LiveNames(l)} :
        /\ new # NoTimer => nextId < MaxTimers
        /\ list' = IF new = NoTimer THEN Mark(l, del)
                   ELSE Push(Mark(l, del), Timer(nextId, now + new))
        /\ nextId' = IF new = NoTimer THEN nextId ELSE nextId + 1
        /\ over' = over \cup del
  BY DEF UserCode
<1>2. /\ ListOK(Mark(l, del), nextId, over \cup del) /\ Len(Mark(l, del)) = Len(l)
      /\ \A i \in 1 .. Len(l) : Mark(l, del)[i].name = l[i].name
  BY Marked
<1>3. l \in Seq(TimerRecord) /\ DOMAIN l = 1 .. Len(l) /\ nextId \in Nat
  BY DEF ListOK, Scalars
<1>4. del \subseteq 0 .. nextId - 1
  <2>1. \A i \in 1 .. Len(l) : l[i] \in TimerRecord
    BY <1>3
  <2>2. \A i \in 1 .. Len(l) : l[i].id # NoId => l[i].id \in 0 .. nextId - 1
    BY <1>3, <2>1 DEF ListOK, Aged, TimerRecord
  <2> QED
    BY <1>3, <2>2 DEF LiveNames
<1>5. over \cup del \subseteq 0 .. nextId - 1
  BY <1>4 DEF Scalars
<1>6. PICK k \in {0, 1} : /\ nextId' = nextId + k
                          /\ Grown(Mark(l, del), list', k, nextId)
                          /\ ListOK(list', nextId', over \cup del)
  BY <1>1, <1>2, <1>5, Pushed
<1>7. Grown(l, list', k, nextId)
  BY <1>2, <1>6 DEF Grown
<1>8. nextId' \in 0 .. MaxTimers /\ over' \subseteq 0 .. nextId' - 1
  BY <1>1, <1>3, <1>5, Numbers DEF Scalars
<1> QED
  BY <1>1, <1>6, <1>7, <1>8

-----------------------------------------------------------------------------
(* A new timer at the head disturbs neither the walk nor the count.        *)
LEMMA GrownWalk ==
  ASSUME NEW l, NEW m, NEW k, NEW nx, Len(l) \in Nat, Grown(l, m, k, nx),
         NEW lf \in 0 .. Len(l), NEW pv, NEW mx, NEW bf, NEW bg, WalkOK(l, lf, pv, mx, bf),
         bf \subseteq bg, pv = NoId /\ k = 1 => nx \in bg
  PROVE  WalkOK(m, lf, pv, mx, bg)
<1>1. /\ k \in {0, 1} /\ Len(m) = Len(l) + k
      /\ \A i \in 1 .. Len(l) : m[i + k].name = l[i].name
      /\ k = 1 => m[1].name = nx
  BY DEF Grown
<1>2. ASSUME NEW i \in Len(m) - lf + 1 .. Len(m)
      PROVE  m[i].name <= mx
  <2>1. i - k \in Len(l) - lf + 1 .. Len(l) /\ i - k \in 1 .. Len(l) /\ (i - k) + k = i
    BY <1>1
  <2> QED
    BY <1>1, <2>1 DEF WalkOK
<1>3. ASSUME pv = NoId, NEW i \in 1 .. Len(m) - lf
      PROVE  m[i].name \in bg
  <2>1. CASE i - k \in 1 .. Len(l) - lf
    <3>1. i - k \in 1 .. Len(l) /\ (i - k) + k = i
      BY <1>1, <2>1
    <3> QED
      BY <1>1, <1>3, <2>1, <3>1 DEF WalkOK
  <2>2. CASE i - k \notin 1 .. Len(l) - lf
    <3>1. i = 1 /\ k = 1
      BY <1>1, <2>2
    <3> QED
      BY <1>1, <1>3, <3>1
  <2> QED
    BY <2>1, <2>2
<1>4. ASSUME pv # NoId
      PROVE  Len(m) - lf >= 1 /\ m[Len(m) - lf].name = pv
  <2>1. PICK q \in 1 .. Len(l) : q = Len(l) - lf /\ l[q].name = pv
    BY <1>1, <1>4 DEF WalkOK
  <2>2. q + k = Len(m) - lf /\ m[q + k].name = l[q].name
    BY <1>1, <2>1
  <2> QED
    BY <1>1, <2>1, <2>2
<1> QED
  BY <1>2, <1>3, <1>4 DEF WalkOK

LEMMA GrownNoneLost ==
  ASSUME NEW l, NEW m, NEW k, NEW nx \in Nat, Len(l) \in Nat, Grown(l, m, k, nx),
         NEW out, nx \notin out, NEW bf, NEW bg, bf \subseteq bg, NoneLost(l, nx, out, bf)
  PROVE  NoneLost(m, nx + k, out, bg)
<1>1. /\ k \in {0, 1} /\ Len(m) = Len(l) + k
      /\ \A i \in 1 .. Len(l) : m[i + k].name = l[i].name
      /\ k = 1 => m[1].name = nx
  BY DEF Grown
<1>2. ASSUME NEW n \in 0 .. nx + k - 1
      PROVE  n \in out \cup bg \/ \E i \in 1 .. Len(m) : m[i].name = n
  <2>1. CASE n = nx
    <3>1. k = 1 /\ 1 \in 1 .. Len(m)
      BY <1>1, <2>1
    <3> QED
      BY <1>1, <2>1, <3>1
  <2>2. CASE n # nx /\ n \notin out \cup bg
    <3>1. n \in 0 .. nx - 1
      BY <1>1, <2>2
    <3>2. PICK i \in 1 .. Len(l) : l[i].name = n
      BY <2>2, <3>1 DEF NoneLost
    <3>3. i + k \in 1 .. Len(m)
      BY <1>1
    <3> QED
      BY <1>1, <3>2, <3>3
  <2> QED
    BY <2>1, <2>2
<1>3. ASSUME NEW i \in 1 .. Len(m)
      PROVE  m[i].name \notin out
  <2>1. CASE i - k \in 1 .. Len(l)
    <3>1. (i - k) + k = i
      BY <1>1
    <3> QED
      BY <1>1, <2>1, <3>1 DEF NoneLost
  <2>2. CASE i - k \notin 1 .. Len(l)
    BY <1>1, <2>2
  <2> QED
    BY <2>1, <2>2
<1> QED
  BY <1>1, <1>2, <1>3 DEF NoneLost

-----------------------------------------------------------------------------
(* What taking out the timer te leaves: the list up to prev, and what      *)
(* follows te.                                                             *)
LEMMA TimerHere ==
  ASSUME TimerInv, InPass
  PROVE  /\ left \in Nat \ {0} /\ Len(list) \in Nat
         /\ At \in 1 .. Len(list) /\ Te \in TimerRecord /\ Te.name \in 0 .. nextId - 1
         /\ Te.id \in {NoId, Te.name} /\ Te.name <= maxId
         /\ WalkOK(list, left, prev, maxId, byFinal)
<1>1. phase = "pass" /\ left > 0 /\ left \in 0 .. Len(list) /\ list \in Seq(TimerRecord)
      /\ Aged(list, nextId, over) /\ WalkOK(list, left, prev, maxId, byFinal)
  BY DEF TimerInv, InPass, ListOK
<1>2. Len(list) \in Nat /\ left \in Nat \ {0} /\ At \in 1 .. Len(list) /\ At = Len(list) - left + 1
  BY <1>1 DEF At
<1>3. Te = list[At] /\ Te \in TimerRecord
  BY <1>1, <1>2 DEF Te
<1>4. Te.name < nextId /\ Te.id \in {NoId, Te.name} /\ Te.name \in Nat
  BY <1>1, <1>2, <1>3 DEF Aged, TimerRecord
<1>5. At \in Len(list) - left + 1 .. Len(list)
  BY <1>2
<1>6. Te.name <= maxId
  BY <1>1, <1>3, <1>5 DEF WalkOK
<1>7. nextId \in Nat
  BY Numbers DEF TimerInv, Scalars
<1> QED
  BY <1>1, <1>2, <1>3, <1>4, <1>6, <1>7

LEMMA Unlinked ==
  ASSUME TimerInv, InPass
  PROVE  LET u == Unlink(list, prev, At)
         IN /\ ListOK(u, nextId, over) /\ Len(u) \in Nat /\ left - 1 \in 0 .. Len(u)
            /\ WalkOK(u, left - 1, prev, maxId, byFinal)
            /\ NoneLost(u, nextId, gone \cup {Te.name}, byFinal)
<1> DEFINE p == Index(list, prev)
           u1 == SubSeq(list, 1, p)
           u2 == SubSeq(list, At + 1, Len(list))
           u == u1 \o u2
<1>1. /\ list \in Seq(TimerRecord) /\ Len(list) \in Nat /\ left \in 1 .. Len(list)
      /\ At = Len(list) - left + 1 /\ At \in 1 .. Len(list)
      /\ Aged(list, nextId, over) /\ YoungestFirst(list)
      /\ WalkOK(list, left, prev, maxId, byFinal) /\ NoneLost(list, nextId, gone, byFinal)
      /\ Te = list[At]
  BY TimerHere DEF TimerInv, ListOK, At, Te
<1>2. \A i, j \in 1 .. Len(list) : list[i].name = list[j].name => i = j
  <2> SUFFICES ASSUME NEW i \in 1 .. Len(list), NEW j \in 1 .. Len(list),
                      list[i].name = list[j].name, i < j
               PROVE  FALSE
    BY <1>1
  <2>1. list[i] \in TimerRecord /\ list[j] \in TimerRecord
    BY <1>1
  <2> QED
    BY <1>1, <2>1 DEF YoungestFirst, TimerRecord
<1>3. p = IF prev = NoId THEN 0 ELSE At - 1
  <2>1. CASE prev = NoId
    BY <2>1 DEF Index
  <2>2. CASE prev # NoId
    <3>1. At - 1 \in 1 .. Len(list) /\ list[At - 1].name = prev
      <4>1. Len(list) - left >= 1 /\ list[Len(list) - left].name = prev
        BY <1>1, <2>2 DEF WalkOK
      <4>2. At - 1 = Len(list) - left /\ At - 1 \in 1 .. Len(list)
        BY <1>1, <4>1
      <4> QED
        BY <4>1, <4>2
    <3>2. DOMAIN list = 1 .. Len(list)
      BY <1>1
    <3> QED
      BY <1>2, <2>2, <3>1, <3>2 DEF Index
  <2> QED
    BY <2>1, <2>2
<1>4. p \in 0 .. At - 1
  BY <1>1, <1>3
<1>e. \A i \in 1 .. Len(list) : list[i] \in TimerRecord
  BY <1>1
<1> HIDE DEF p
<1>5. u1 \in Seq(TimerRecord) /\ Len(u1) = p /\ \A i \in 1 .. p : u1[i] = list[i]
  <2>1. \A i \in 1 .. p : list[i] \in TimerRecord
    BY <1>1, <1>4, <1>e
  <2> QED
    BY <1>4, <2>1, SubSeqProperties
<1>6. /\ u2 \in Seq(TimerRecord) /\ Len(u2) = left - 1
      /\ \A i \in 1 .. left - 1 : u2[i] = list[At + i]
  <2>1. \A i \in At + 1 .. Len(list) : list[i] \in TimerRecord
    BY <1>1, <1>e
  <2>2. /\ u2 \in Seq(TimerRecord) /\ Len(u2) = IF At + 1 <= Len(list) THEN Len(list) - (At + 1) + 1 ELSE 0
        /\ \A i \in 1 .. Len(list) - (At + 1) + 1 : u2[i] = list[At + 1 + i - 1]
    BY <1>1, <2>1, SubSeqProperties
  <2> QED
    BY <1>1, <2>2
<1> HIDE DEF u1, u2
<1>7. /\ u \in Seq(TimerRecord) /\ Len(u) = p + left - 1
      /\ \A i \in 1 .. p + left - 1 : u[i] = list[IF i <= p THEN i ELSE i - p + At]
  <2>1. /\ u \in Seq(TimerRecord) /\ Len(u) = Len(u1) + Len(u2)
        /\ \A i \in 1 .. Len(u1) + Len(u2) : u[i] = IF i <= Len(u1) THEN u1[i] ELSE u2[i - Len(u1)]
    BY <1>5, <1>6, ConcatProperties
  <2>2. ASSUME NEW i \in 1 .. p + left - 1
        PROVE  u[i] = list[IF i <= p THEN i ELSE i - p + At]
    <3>1. CASE i <= p
      BY <1>1, <1>4, <1>5, <1>6, <2>1, <3>1
    <3>2. CASE ~(i <= p)
      <4>1. i - p \in 1 .. left - 1 /\ At + (i - p) = i - p + At
        BY <1>1, <1>4, <3>2
      <4> QED
        BY <1>1, <1>4, <1>5, <1>6, <2>1, <3>2, <4>1
    <3> QED
      BY <3>1, <3>2
  <2> QED
    BY <1>1, <1>4, <1>5, <1>6, <2>1, <2>2
<1>n. Len(u) = p + left - 1
  BY <1>7
<1> HIDE DEF u
<1> DEFINE Was(i) == IF i <= p THEN i ELSE i - p + At
<1>8. \A i \in 1 .. Len(u) : Was(i) \in 1 .. Len(list) /\ Was(i) # At /\ u[i] = list[Was(i)]
  BY <1>1, <1>4, <1>7
<1>9. \A i, j \in 1 .. Len(u) : i < j => Was(i) < Was(j)
  BY <1>1, <1>4, <1>7
<1>10. ListOK(u, nextId, over)
  <2>1. Aged(u, nextId, over)
    BY <1>1, <1>8 DEF Aged
  <2>2. YoungestFirst(u)
    BY <1>1, <1>8, <1>9 DEF YoungestFirst
  <2> QED
    BY <1>7, <2>1, <2>2 DEF ListOK
<1>11. WalkOK(u, left - 1, prev, maxId, byFinal)
  <2>1. ASSUME NEW i \in Len(u) - (left - 1) + 1 .. Len(u)
        PROVE  u[i].name <= maxId
    <3>1. i \in 1 .. Len(u) /\ Was(i) \in Len(list) - left + 1 .. Len(list)
      BY <1>1, <1>4, <1>n
    <3> QED
      BY <1>1, <1>8, <3>1 DEF WalkOK
  <2>2. ASSUME prev = NoId, NEW i \in 1 .. Len(u) - (left - 1)
        PROVE  FALSE
    BY <1>1, <1>3, <1>n, <2>2
  <2>3. ASSUME prev # NoId
        PROVE  Len(u) - (left - 1) >= 1 /\ u[Len(u) - (left - 1)].name = prev
    <3>1. Len(list) - left >= 1 /\ list[Len(list) - left].name = prev
      BY <1>1, <2>3 DEF WalkOK
    <3>2. Len(u) - (left - 1) = p /\ p = Len(list) - left /\ p \in 1 .. Len(u) /\ Was(p) = p
      BY <1>1, <1>3, <1>n, <2>3, <3>1
    <3> QED
      BY <1>8, <3>1, <3>2
  <2> QED
    BY <2>1, <2>2, <2>3 DEF WalkOK
<1>12. NoneLost(u, nextId, gone \cup {Te.name}, byFinal)
  <2>1. ASSUME NEW n \in 0 .. nextId - 1
        PROVE  n \in gone \cup {Te.name} \cup byFinal \/ \E i \in 1 .. Len(u) : u[i].name = n
    <3>1. CASE n \in gone \cup byFinal
      BY <3>1
    <3>2. CASE n \notin gone \cup byFinal
      <4>1. PICK j \in 1 .. Len(list) : list[j].name = n
        BY <1>1, <3>2 DEF NoneLost
      <4>2. CASE j = At
        BY <1>1, <4>1, <4>2
      <4>3. CASE j <= p
        <5>1. j \in 1 .. Len(u) /\ Was(j) = j
          BY <1>1, <1>4, <1>n, <4>3
        <5> QED
          BY <1>8, <4>1, <5>1
      <4>4. CASE j > At
        <5>1. j - At + p \in 1 .. Len(u) /\ Was(j - At + p) = j
          BY <1>1, <1>4, <1>n, <4>4
        <5> QED
          BY <1>8, <4>1, <5>1
      <4>5. CASE j > p /\ j < At
        <5>1. prev = NoId /\ j \in 1 .. Len(list) - left
          BY <1>1, <1>3, <4>5
        <5> QED
          BY <1>1, <4>1, <3>2, <5>1 DEF WalkOK
      <4>6. j = At \/ j <= p \/ j > At \/ (j > p /\ j < At)
        BY <1>1, <1>4
      <4> QED
        BY <4>2, <4>3, <4>4, <4>5, <4>6
    <3> QED
      BY <3>1, <3>2
  <2>2. ASSUME NEW i \in 1 .. Len(u)
        PROVE  u[i].name \notin gone \cup {Te.name}
    <3> DEFINE w == Was(i)
    <3>1. w \in 1 .. Len(list) /\ w # At /\ u[i] = list[w]
      BY <1>8
    <3> HIDE DEF w
    <3>2. list[w].name # list[At].name
      BY <1>1, <1>2, <3>1
    <3>3. list[w].name \notin gone
      BY <1>1, <3>1 DEF NoneLost
    <3> QED
      BY <1>1, <3>1, <3>2, <3>3
  <2> QED
    BY <2>1, <2>2 DEF NoneLost
<1>13. Len(u) \in Nat /\ left - 1 \in 0 .. Len(u)
  BY <1>1, <1>4, <1>7
<1> QED
  BY <1>10, <1>11, <1>12, <1>13 DEF u, u1, u2, p, Unlink

-----------------------------------------------------------------------------
(* Every step keeps the invariant.                                         *)
LEMMA TimerInvInit == Init => TimerInv
<1> SUFFICES ASSUME Init PROVE TimerInv
  OBVIOUS
<1>1. /\ list = <<>> /\ Len(list) = 0 /\ nextId = 0 /\ now = 1 /\ left = 0
      /\ prev = -1 /\ maxId = -1
      /\ phase = "before" /\ deadline = Forever /\ over = {} /\ byFinal = {} /\ gone = {}
  BY DEF Init, NoId
<1>2. Scalars
  BY <1>1, Numbers DEF Scalars, NoId
<1>3. ListOK(list, nextId, over)
  BY <1>1 DEF ListOK, Aged, YoungestFirst
<1>4. NoneLost(list, nextId, gone, byFinal)
  BY <1>1 DEF NoneLost
<1> QED
  BY <1>1, <1>2, <1>3, <1>4 DEF TimerInv

LEMMA HandlerKeeps == TimerInv /\ Handler => TimerInv'
<1> SUFFICES ASSUME TimerInv, Handler PROVE TimerInv'
  OBVIOUS
<1>1. /\ Scalars /\ ListOK(list, nextId, over) /\ left \in 0 .. Len(list)
      /\ NoneLost(list, nextId, gone, byFinal)
      /\ UserCode(list) /\ phase # "pass"
      /\ UNCHANGED <<now, phase, deadline, left, prev, maxId, byFinal, gone>>
  BY DEF TimerInv, Handler, walk
<1>2. nextId \in Nat /\ Len(list) \in Nat /\ nextId \notin gone
  BY <1>1, Numbers DEF Scalars, ListOK
<1>3. PICK k \in {0, 1} : nextId' = nextId + k /\ Grown(list, list', k, nextId)
  BY <1>1, UserCodeEffect
<1>4. /\ ListOK(list', nextId', over')
      /\ nextId' \in 0 .. MaxTimers /\ over' \subseteq 0 .. nextId' - 1
  BY <1>1, UserCodeEffect
<1>5. NoneLost(list', nextId', gone', byFinal')
  BY <1>1, <1>2, <1>3, GrownNoneLost
<1>6. Scalars'
  <2>1. nextId' \in Nat /\ nextId <= nextId'
    BY <1>2, <1>3
  <2>2. /\ {prev, maxId} \subseteq -1 .. nextId - 1
        /\ over \cup byFinal \cup gone \subseteq 0 .. nextId - 1
    BY <1>1 DEF Scalars, NoId
  <2>3. {prev', maxId'} \subseteq -1 .. nextId' - 1 /\ byFinal' \cup gone' \subseteq 0 .. nextId' - 1
    BY <1>1, <1>2, <2>1, <2>2
  <2> QED
    BY <1>1, <1>4, <2>3 DEF Scalars, NoId
<1>7. left' \in 0 .. Len(list')
  BY <1>1, <1>2, <1>3 DEF Grown
<1> QED
  BY <1>1, <1>4, <1>5, <1>6, <1>7 DEF TimerInv

LEMMA RemoveDeletedKeeps == TimerInv /\ RemoveDeleted => TimerInv'
<1> SUFFICES ASSUME TimerInv, RemoveDeleted PROVE TimerInv'
  OBVIOUS
<1> DEFINE u == Unlink(list, prev, At)
<1>1. /\ InPass /\ UserCode(u)
      /\ byFinal' = byFinal \cup nextId .. nextId' - 1
      /\ gone' = gone \cup {Te.name} /\ left' = left - 1
      /\ UNCHANGED <<now, phase, deadline, prev, maxId>>
  BY DEF RemoveDeleted
<1>2. /\ ListOK(u, nextId, over) /\ Len(u) \in Nat /\ left - 1 \in 0 .. Len(u)
      /\ WalkOK(u, left - 1, prev, maxId, byFinal)
      /\ NoneLost(u, nextId, gone \cup {Te.name}, byFinal)
  BY <1>1, Unlinked
<1> HIDE DEF u
<1>3. Scalars /\ nextId \in Nat /\ Te.name \in 0 .. nextId - 1 /\ nextId \notin gone \cup {Te.name}
  BY <1>1, TimerHere, Numbers DEF TimerInv, Scalars
<1>4. PICK k \in {0, 1} : nextId' = nextId + k /\ Grown(u, list', k, nextId)
  BY <1>1, <1>2, <1>3, UserCodeEffect
<1>5. /\ ListOK(list', nextId', over')
      /\ nextId' \in 0 .. MaxTimers /\ over' \subseteq 0 .. nextId' - 1
  BY <1>1, <1>2, <1>3, UserCodeEffect
<1>6. byFinal \subseteq byFinal' /\ (k = 1 => nextId \in byFinal')
  BY <1>1, <1>3, <1>4
<1>7. NoneLost(list', nextId', gone', byFinal')
  BY <1>1, <1>2, <1>3, <1>4, <1>6, GrownNoneLost
<1>8. WalkOK(list', left', prev', maxId', byFinal')
  BY <1>1, <1>2, <1>4, <1>6, GrownWalk
<1>9. Scalars'
  <2>1. byFinal' \subseteq 0 .. nextId' - 1 /\ gone' \subseteq 0 .. nextId' - 1
    BY <1>1, <1>3, <1>4 DEF Scalars
  <2>2. {prev', maxId'} \subseteq NoId .. nextId' - 1
    BY <1>1, <1>3, <1>4 DEF Scalars, NoId
  <2> QED
    BY <1>1, <1>3, <1>5, <2>1, <2>2 DEF Scalars
<1>10. left' \in 0 .. Len(list')
  BY <1>1, <1>2, <1>4 DEF Grown
<1> QED
  BY <1>5, <1>7, <1>8, <1>9, <1>10 DEF TimerInv

LEMMA PassOverKeeps == TimerInv /\ PassOver => TimerInv'
<1> SUFFICES ASSUME TimerInv, PassOver PROVE TimerInv'
  OBVIOUS
<1>1. /\ InPass /\ Te.id # NoId /\ left' = left - 1
      /\ prev' = IF Te.id > maxId THEN prev ELSE Te.name
      /\ UNCHANGED <<list, nextId, now, phase, deadline, maxId, over, byFinal, gone>>
  BY DEF PassOver
<1>2. /\ left \in Nat \ {0} /\ Len(list) \in Nat /\ left <= Len(list)
      /\ At = Len(list) - left + 1 /\ Te = list[At]
      /\ Te.name \in 0 .. nextId - 1 /\ Te.id = Te.name /\ Te.name <= maxId
      /\ WalkOK(list, left, prev, maxId, byFinal)
  BY <1>1, TimerHere DEF TimerInv, At, Te
<1>3. Scalars /\ nextId \in Nat /\ maxId \in Int
  BY Numbers DEF TimerInv, Scalars, NoId
<1>4. prev' = Te.name /\ prev' # NoId
  BY <1>1, <1>2, <1>3 DEF NoId
<1>5. WalkOK(list, left - 1, Te.name, maxId, byFinal)
  <2>1. \A i \in Len(list) - (left - 1) + 1 .. Len(list) : i \in Len(list) - left + 1 .. Len(list)
    BY <1>2
  <2>2. Len(list) - (left - 1) = At /\ At >= 1
    BY <1>2
  <2> QED
    BY <1>1, <1>2, <1>4, <2>1, <2>2 DEF WalkOK
<1>6. Scalars'
  BY <1>1, <1>2, <1>3, <1>4 DEF Scalars, NoId
<1>7. left' \in 0 .. Len(list)
  BY <1>1, <1>2
<1> QED
  BY <1>1, <1>4, <1>5, <1>6, <1>7 DEF TimerInv

LEMMA FireKeeps == TimerInv /\ Fire => TimerInv'
<1> SUFFICES ASSUME TimerInv, Fire PROVE TimerInv'
  OBVIOUS
<1>1. PICK retval \in {NoMore} \cup Delays, new \in {NoTimer} \cup Delays,
           del \in {{}} \cup {{n} : n \in LiveNames(list)} :
        /\ new # NoTimer => nextId < MaxTimers
        /\ list' = IF new = NoTimer THEN [Mark(list, del) EXCEPT ![At] = Rearm(Mark(list, del)[At], retval)]
                   ELSE Push([Mark(list, del) EXCEPT ![At] = Rearm(Mark(list, del)[At], retval)],
                             Timer(nextId, now + new))
        /\ nextId' = IF new = NoTimer THEN nextId ELSE nextId + 1
        /\ over' = over \cup del \cup (IF retval = NoMore THEN {Te.name} ELSE {})
  BY DEF Fire
<1>2. /\ InPass /\ left' = left - 1 /\ prev' = Te.name
      /\ UNCHANGED <<now, phase, deadline, maxId, byFinal, gone>>
  BY DEF Fire
<1> DEFINE c == Mark(list, del)
           m == [c EXCEPT ![At] = Rearm(c[At], retval)]
<1>3. /\ left \in Nat \ {0} /\ Len(list) \in Nat /\ left <= Len(list)
      /\ At = Len(list) - left + 1 /\ At \in 1 .. Len(list) /\ Te = list[At]
      /\ Te.name \in 0 .. nextId - 1 /\ Te.name <= maxId
      /\ WalkOK(list, left, prev, maxId, byFinal)
  BY <1>2, TimerHere DEF TimerInv, At, Te
<1>4. Scalars /\ nextId \in Nat /\ now \in Nat /\ ListOK(list, nextId, over) /\ DOMAIN list = 1 .. Len(list)
  BY Numbers DEF TimerInv, Scalars, ListOK
<1>5. /\ ListOK(c, nextId, over \cup del) /\ Len(c) = Len(list)
      /\ \A i \in 1 .. Len(list) : c[i].name = list[i].name
  BY <1>4, Marked
<1>6. over' \subseteq 0 .. nextId - 1
  <2>1. del \subseteq 0 .. nextId - 1
    <3>1. \A i \in 1 .. Len(list) : list[i] \in TimerRecord
      BY <1>4 DEF ListOK
    <3>2. \A i \in 1 .. Len(list) : list[i].id # NoId => list[i].id \in 0 .. nextId - 1
      BY <1>4, <3>1 DEF ListOK, Aged, TimerRecord
    <3> QED
      BY <1>4, <3>2 DEF LiveNames
  <2> QED
    BY <1>1, <1>3, <1>4, <2>1 DEF Scalars
<1> HIDE DEF c
<1>7. /\ m \in Seq(TimerRecord) /\ Len(m) = Len(list)
      /\ \A i \in 1 .. Len(list) : m[i] = IF i = At THEN Rearm(c[At], retval) ELSE c[i]
      /\ Rearm(c[At], retval).name = c[At].name
      /\ Rearm(c[At], retval).id = IF retval = NoMore THEN NoId ELSE c[At].id
  <2>1. c \in Seq(TimerRecord) /\ c[At] \in TimerRecord
    BY <1>3, <1>5 DEF ListOK
  <2>2. retval # NoMore => now + retval \in Nat
    <3>1. retval # NoMore => retval \in Nat
      BY Numbers
    <3> QED
      BY <1>4, <3>1
  <2>3. /\ Rearm(c[At], retval) \in TimerRecord
        /\ Rearm(c[At], retval).name = c[At].name
        /\ Rearm(c[At], retval).id = IF retval = NoMore THEN NoId ELSE c[At].id
    BY <2>1, <2>2 DEF Rearm, TimerRecord
  <2> QED
    BY <1>3, <1>5, <2>1, <2>3
<1> HIDE DEF m
<1>8. ListOK(m, nextId, over')
  <2>1. Aged(m, nextId, over')
    <3> SUFFICES ASSUME NEW i \in 1 .. Len(list)
                 PROVE  /\ m[i].name < nextId /\ m[i].id \in {NoId, m[i].name}
                        /\ m[i].name \in over' => m[i].id = NoId
      BY <1>7 DEF Aged
    <3>1. /\ c[i].name < nextId /\ c[i].id \in {NoId, c[i].name}
          /\ c[i].name \in over \cup del => c[i].id = NoId
      BY <1>5 DEF ListOK, Aged
    <3>2. CASE i = At
      BY <1>1, <1>7, <3>1, <3>2
    <3>3. CASE i # At
      <4>1. c[i].name # Te.name
        <5>1. list[i].name \in Nat /\ list[At].name \in Nat /\ (i < At \/ At < i)
          <6>1. list[i] \in TimerRecord /\ list[At] \in TimerRecord
            BY <1>3, <1>4 DEF ListOK
          <6> QED
            BY <6>1, <1>3, <3>3 DEF TimerRecord
        <5>2. list[i].name # list[At].name
          BY <1>3, <1>4, <5>1 DEF ListOK, YoungestFirst
        <5> QED
          BY <1>3, <1>5, <5>2
      <4> QED
        BY <1>1, <1>7, <3>1, <3>3, <4>1
    <3> QED
      BY <3>2, <3>3
  <2>2. \A i \in 1 .. Len(list) : m[i].name = list[i].name
    BY <1>5, <1>7
  <2>3. YoungestFirst(m)
    BY <1>4, <1>7, <2>2 DEF ListOK, YoungestFirst
  <2> QED
    BY <1>7, <2>1, <2>3 DEF ListOK
<1>9. PICK k \in {0, 1} : /\ nextId' = nextId + k
                          /\ Grown(m, list', k, nextId)
                          /\ ListOK(list', nextId', over')
  <2>1. list' = IF new = NoTimer THEN m ELSE Push(m, Timer(nextId, now + new))
    BY <1>1 DEF m, c
  <2>2. nextId' = IF new = NoTimer THEN nextId ELSE nextId + 1
    BY <1>1
  <2>3. Scalars
    BY <1>4
  <2> QED
    BY <1>6, <1>8, <2>1, <2>2, <2>3, Pushed
<1>10. Grown(list, list', k, nextId)
  <2>1. \A i \in 1 .. Len(list) : m[i].name = list[i].name
    BY <1>5, <1>7
  <2> QED
    BY <1>7, <1>9, <2>1 DEF Grown
<1>11. NoneLost(list', nextId', gone', byFinal')
  <2>1. NoneLost(list, nextId, gone, byFinal) /\ nextId \notin gone
    BY <1>4 DEF TimerInv, Scalars
  <2> QED
    BY <1>2, <1>3, <1>4, <1>9, <1>10, <2>1, GrownNoneLost
<1>12. WalkOK(list', left', prev', maxId', byFinal')
  <2>1. Te.name # NoId
    BY <1>3, <1>4 DEF NoId
  <2>2. WalkOK(list, left - 1, Te.name, maxId, byFinal)
    <3>1. \A i \in Len(list) - (left - 1) + 1 .. Len(list) : i \in Len(list) - left + 1 .. Len(list)
      BY <1>3
    <3>2. Len(list) - (left - 1) = At /\ At >= 1
      BY <1>3
    <3> QED
      BY <1>3, <2>1, <3>1, <3>2 DEF WalkOK
  <2>3. left - 1 \in 0 .. Len(list)
    BY <1>3
  <2> QED
    BY <1>2, <1>3, <1>10, <2>1, <2>2, <2>3, GrownWalk
<1>13. Scalars'
  <2>1. nextId' \in 0 .. MaxTimers
    BY <1>1, <1>4, Numbers DEF Scalars
  <2>2. {prev', maxId'} \subseteq NoId .. nextId' - 1
    <3>1. \A x \in -1 .. nextId - 1 : x \in -1 .. nextId' - 1
      BY <1>4, <1>9
    <3>2. \A x \in 0 .. nextId - 1 : x \in -1 .. nextId - 1
      BY <1>4
    <3>3. maxId \in -1 .. nextId - 1 /\ Te.name \in -1 .. nextId - 1
      BY <1>3, <1>4, <3>2 DEF Scalars, NoId
    <3>4. prev' \in -1 .. nextId' - 1 /\ maxId' \in -1 .. nextId' - 1
      BY <1>2, <3>1, <3>3
    <3> QED
      BY <3>4 DEF NoId
  <2>3. over' \cup byFinal' \cup gone' \subseteq 0 .. nextId' - 1
    <3>1. nextId' \in Nat /\ nextId <= nextId' /\ nextId \in Nat
      BY <1>4, <1>9
    <3>2. over' \cup byFinal \cup gone \subseteq 0 .. nextId - 1 /\ byFinal' = byFinal /\ gone' = gone
      BY <1>2, <1>4, <1>6 DEF Scalars
    <3> QED
      BY <3>1, <3>2
  <2> QED
    BY <1>2, <1>4, <2>1, <2>2, <2>3 DEF Scalars
<1>14. left' \in 0 .. Len(list')
  BY <1>2, <1>3, <1>10 DEF Grown
<1> QED
  BY <1>9, <1>11, <1>12, <1>13, <1>14 DEF TimerInv

(* A non-empty list has a timer due next.                                  *)
LEMMA EarliestExists ==
  ASSUME NEW W, W \subseteq Nat, W # {}
  PROVE  \E x \in W : \A y \in W : x <= y
<1> DEFINE Below == {0 .. n : n \in W}
           R == StrictSubsetOrdering(Nat)
           F == FiniteSubsetsOf(Nat)
<1>1. IsWellFoundedOn(R, F)
  BY FS_StrictSubsetOrderingWellFounded
<1>2. Below \subseteq F
  <2>1. \A n \in Nat : IsFiniteSet(0 .. n)
    BY FS_Interval
  <2> QED
    BY <2>1 DEF FiniteSubsetsOf
<1>3. Below # {}
  OBVIOUS
<1>4. \E b \in Below : \A c \in Below : ~(<<c, b>> \in R)
  <2> HIDE DEF Below, R, F
  <2> QED
    BY <1>1, <1>2, <1>3, WFMin
<1>5. PICK x \in W : \A y \in W : ~(<<0 .. y, 0 .. x>> \in R)
  BY <1>4
<1>6. \A y \in W : ~(y < x)
  <2> SUFFICES ASSUME NEW y \in W, y < x
               PROVE  <<0 .. y, 0 .. x>> \in R
    BY <1>5
  <2>1. 0 .. y \subseteq 0 .. x /\ x \notin 0 .. y /\ x \in 0 .. x
    OBVIOUS
  <2> QED
    BY <2>1 DEF StrictSubsetOrdering
<1> QED
  BY <1>6

LEMMA NearestIsTime ==
  ASSUME NEW l \in Seq(TimerRecord)
  PROVE  Nearest(l) \in Nat \cup {Forever}
<1>1. CASE l = <<>>
  BY <1>1 DEF Nearest
<1>2. CASE l # <<>>
  <2> DEFINE W == {l[i].when : i \in DOMAIN l}
  <2>1. /\ DOMAIN l = 1 .. Len(l) /\ 1 \in DOMAIN l
        /\ \A i \in DOMAIN l : l[i] \in TimerRecord /\ l[i].when \in Nat
    <3>1. DOMAIN l = 1 .. Len(l) /\ Len(l) \in Nat /\ Len(l) # 0
      BY <1>2
    <3>2. \A i \in 1 .. Len(l) : l[i] \in TimerRecord
      OBVIOUS
    <3> QED
      BY <3>1, <3>2 DEF TimerRecord
  <2>2. W \subseteq Nat /\ W # {}
    BY <2>1
  <2>3. \E w \in W : \A i \in DOMAIN l : w <= l[i].when
    <3>1. PICK w \in W : \A y \in W : w <= y
      <4> HIDE DEF W
      <4> QED
        BY <2>2, EarliestExists
    <3> QED
      BY <3>1
  <2>4. Nearest(l) = CHOOSE w \in W : \A i \in DOMAIN l : w <= l[i].when
    BY <1>2 DEF Nearest
  <2> HIDE DEF W
  <2> QED
    BY <2>2, <2>3, <2>4
<1> QED
  BY <1>1, <1>2

LEMMA BeginPassKeeps ==
  ASSUME TimerInv, NEW skew \in BOOLEAN, BeginPass(skew)
  PROVE  TimerInv'
<1>1. /\ phase' = "pass"
      /\ list' = IF skew THEN [i \in DOMAIN list |-> [list[i] EXCEPT !.when = 0]] ELSE list
      /\ left' = Len(list) /\ prev' = NoId /\ maxId' = nextId - 1
      /\ UNCHANGED <<nextId, now, deadline, over, byFinal, gone>>
  BY DEF BeginPass
<1>2. /\ Scalars /\ nextId \in Nat /\ NoneLost(list, nextId, gone, byFinal)
      /\ list \in Seq(TimerRecord) /\ Len(list) \in Nat /\ DOMAIN list = 1 .. Len(list)
      /\ Aged(list, nextId, over) /\ YoungestFirst(list)
      /\ \A i \in 1 .. Len(list) : list[i] \in TimerRecord
  BY Numbers DEF TimerInv, Scalars, ListOK
<1>3. /\ list' \in Seq(TimerRecord) /\ Len(list') = Len(list)
      /\ \A i \in 1 .. Len(list) : list'[i].name = list[i].name /\ list'[i].id = list[i].id
  <2>1. CASE skew
    <3> DEFINE m == [i \in 1 .. Len(list) |-> [list[i] EXCEPT !.when = 0]]
    <3>1. \A i \in 1 .. Len(list) : /\ m[i] \in TimerRecord
                                    /\ m[i].name = list[i].name /\ m[i].id = list[i].id
      BY <1>2 DEF TimerRecord
    <3>2. m \in [1 .. Len(list) -> TimerRecord]
      BY <3>1
    <3>3. list' = m
      BY <1>1, <1>2, <2>1
    <3> HIDE DEF m
    <3>4. m \in Seq(TimerRecord) /\ Len(m) = Len(list)
      BY <1>2, <3>2
    <3> QED
      BY <3>1, <3>3, <3>4
  <2>2. CASE ~skew
    BY <1>1, <1>2, <2>2
  <2> QED
    BY <2>1, <2>2
<1>4. ListOK(list', nextId, over)
  BY <1>2, <1>3 DEF ListOK, Aged, YoungestFirst
<1>5. NoneLost(list', nextId, gone, byFinal)
  BY <1>2, <1>3 DEF NoneLost
<1>6. WalkOK(list', Len(list), NoId, nextId - 1, byFinal)
  <2>1. \A i \in Len(list) - Len(list) + 1 .. Len(list) : i \in 1 .. Len(list)
    BY <1>2
  <2>2. ASSUME NEW i \in 1 .. Len(list)
        PROVE  list'[i].name <= nextId - 1
    <3>1. list[i].name \in Nat /\ list[i].name < nextId
      BY <1>2 DEF Aged, TimerRecord
    <3> QED
      BY <1>2, <1>3, <3>1
  <2>3. \A i \in 1 .. Len(list) - Len(list) : FALSE
    BY <1>2
  <2> QED
    BY <1>2, <1>3, <2>1, <2>2, <2>3 DEF WalkOK
<1>7. Scalars'
  BY <1>1, <1>2 DEF Scalars, NoId
<1>8. left' \in 0 .. Len(list')
  BY <1>1, <1>2, <1>3
<1> QED
  BY <1>1, <1>4, <1>5, <1>6, <1>7, <1>8 DEF TimerInv

LEMMA TimerInvNext == TimerInv /\ [Next]_vars => TimerInv'
<1> SUFFICES ASSUME TimerInv, [Next]_vars PROVE TimerInv'
  OBVIOUS
<1>1. CASE Tick
  BY <1>1, Numbers DEF Tick, walk, TimerInv, Scalars
<1>2. CASE Handler
  BY <1>2, HandlerKeeps
<1>3. CASE Sleep
  <2>1. deadline' \in Nat \cup {Forever}
    BY <1>3, NearestIsTime DEF Sleep, TimerInv, ListOK
  <2> QED
    BY <1>3, <2>1 DEF Sleep, walk, TimerInv, Scalars
<1>4. CASE Wake
  BY <1>4 DEF Wake, walk, TimerInv, Scalars
<1>5. ASSUME NEW skew \in BOOLEAN, BeginPass(skew) PROVE TimerInv'
  BY <1>5, BeginPassKeeps
<1>6. CASE Step
  BY <1>6, RemoveDeletedKeeps, PassOverKeeps, FireKeeps DEF Step
<1>7. CASE EndPass
  BY <1>7 DEF EndPass, walk, TimerInv, Scalars
<1>8. CASE UNCHANGED vars
  BY <1>8 DEF vars, walk, TimerInv, Scalars
<1> QED
  BY <1>1, <1>2, <1>3, <1>4, <1>5, <1>6, <1>7, <1>8 DEF Next

LEMMA TimerInvType == TimerInv => TypeOK
<1> SUFFICES ASSUME TimerInv PROVE TypeOK
  OBVIOUS
<1>1. InPass => Te.id <= maxId
  <2> SUFFICES ASSUME InPass PROVE Te.id <= maxId
    OBVIOUS
  <2>1. Te.id \in {NoId, Te.name} /\ Te.name <= maxId
    BY TimerHere
  <2>2. NoId <= maxId
    BY Numbers DEF TimerInv, Scalars, NoId
  <2> QED
    BY <2>1, <2>2
<1>2. /\ list \in Seq(TimerRecord) /\ DOMAIN list = 1 .. Len(list)
      /\ \A i \in 1 .. Len(list) : list[i] \in TimerRecord
  BY DEF TimerInv, ListOK
<1>3. nextId \in Nat
  BY Numbers DEF TimerInv, Scalars
<1>4. \A i \in DOMAIN list :
        /\ list[i].name \in 0 .. nextId - 1
        /\ list[i].id \in {NoId, list[i].name}
        /\ list[i].when \in Nat
  BY <1>2, <1>3 DEF TimerInv, ListOK, Aged, TimerRecord
<1> QED
  BY <1>1, <1>4 DEF TimerInv, Scalars, TypeOK

LEMMA TimerInvLost == TimerInv => NoTimerLost
<1> SUFFICES ASSUME TimerInv PROVE NoTimerLost
  OBVIOUS
<1>1. /\ list \in Seq(TimerRecord) /\ DOMAIN list = 1 .. Len(list) /\ Len(list) \in Nat
      /\ \A i \in 1 .. Len(list) : list[i] \in TimerRecord
  BY DEF TimerInv, ListOK
<1>2. /\ (0 .. nextId - 1) \ Names(list) \subseteq gone \cup byFinal
      /\ gone \cap Names(list) = {}
  BY <1>1 DEF TimerInv, NoneLost, Names
<1>3. \A i, j \in 1 .. Len(list) : list[i].name = list[j].name => i = j
  <2> SUFFICES ASSUME NEW i \in 1 .. Len(list), NEW j \in 1 .. Len(list),
                      list[i].name = list[j].name, i < j
               PROVE  FALSE
    BY <1>1
  <2>1. list[i].name \in Nat /\ list[j].name < list[i].name
    BY <1>1 DEF TimerInv, ListOK, YoungestFirst, TimerRecord
  <2> QED
    BY <2>1
<1>4. IsInjective([i \in DOMAIN list |-> list[i].name])
  BY <1>1, <1>3 DEF IsInjective
<1> QED
  BY <1>2, <1>4 DEF NoTimerLost

LEMMA TimerInvOver == TimerInv /\ Fire => Te.name \notin over
<1> SUFFICES ASSUME TimerInv, Fire PROVE Te.name \notin over
  OBVIOUS
<1>1. InPass /\ Te.id # NoId
  BY DEF Fire
<1>2. At \in 1 .. Len(list) /\ Te = list[At]
  BY <1>1, TimerHere DEF Te
<1> QED
  BY <1>1, <1>2 DEF TimerInv, ListOK, Aged

-----------------------------------------------------------------------------
LEMMA TimerInvariant == Spec => []TimerInv
  BY TimerInvInit, TimerInvNext, PTL DEF Spec

(* The walk of processTimeEvents never meets a timer created while it      *)
(* runs, whatever callbacks and finalizers do (ae.c:408-413).              *)
THEOREM TimersTyped == Spec => []TypeOK
  BY TimerInvariant, TimerInvType, PTL

(* Relinking around a deleted timer takes out that timer and no other that *)
(* a finalizer did not create (ae.c:393-405).                              *)
THEOREM TimersNeverLost == Spec => []NoTimerLost
  BY TimerInvariant, TimerInvLost, PTL

(* A timer that was deleted never fires again (ae.c:327-338, 429-431).     *)
THEOREM DeletedNeverFires == Spec => OverNeverFires
<1>1. TimerInv => [Fire => Te.name \notin over]_vars
  BY TimerInvOver
<1> QED
  BY <1>1, TimerInvariant, PTL DEF Spec, OverNeverFires
=============================================================================
