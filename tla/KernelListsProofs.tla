------------------------- MODULE KernelListsProofs --------------------------
(***************************************************************************)
(* After any calls on any number of heads and entries of list.h the memory *)
(* is what the calls mean: HlistsLinked, of KernelHlists, and ListsLinked, *)
(* of KernelLists, are invariants, and so is LoopsComplete, of ListWalks.  *)
(* The proofs speak of memories and sequences as values: Chained holds of  *)
(* a memory l, sequences ls and fake nodes fk that agree, Agree of a       *)
(* memory l and the sequences ls of the live heads lv.                     *)
(***************************************************************************)
EXTENDS ListWalks, SequenceTheorems, FiniteSetTheorems, WellFoundedInduction, TLAPS

(***************************************************************************)
(* The lists with a one-word head                                          *)
(***************************************************************************)
Shaped(l) ==
  /\ l = [pointer |-> l.pointer, pprev |-> l.pprev]
  /\ l.pointer = [c \in Holder |-> l.pointer[c]]
  /\ l.pprev = [n \in HlistNode |-> l.pprev[n]]

(* No node is twice on a list, on two of them, or on one and fake.         *)
Once(ls) ==
  \A g, h \in HlistHead : \A i \in 1 .. Len(ls[g]), j \in 1 .. Len(ls[h]) :
    ls[g][i] = ls[h][j] => g = h /\ i = j

Plain(ls, fk) == \A h \in HlistHead : \A i \in 1 .. Len(ls[h]) : ls[h][i] \notin fk

Apart(ls, fk) ==
  /\ ls \in [HlistHead -> Seq(HlistNode)]
  /\ fk \subseteq HlistNode
  /\ Once(ls) /\ Plain(ls, fk)

Chained(l, ls, fk) ==
  /\ Shaped(l)
  /\ Apart(ls, fk)
  /\ \A h \in HlistHead : HRepresents(l, h, ls[h])
  /\ \A n \in fk : l.pprev[n] = n /\ l.pointer[n] = HNull

HlistInv == Chained(hlinks, hlists, fake)

-----------------------------------------------------------------------------
(* What lies where in a sequence with one element more, or one less.       *)
OneLonger(s, t, i, n) ==
  /\ t \in Seq(HlistNode)
  /\ Len(t) = Len(s) + 1
  /\ \A j \in 1 .. Len(s) + 1 : t[j] = IF j < i THEN s[j] ELSE IF j = i THEN n ELSE s[j - 1]

LEMMA InsertedAt ==
  ASSUME NEW s \in Seq(HlistNode), NEW i \in 1 .. Len(s) + 1, NEW n \in HlistNode
  PROVE  OneLonger(s, HInserted(s, i, n), i, n)
<1> DEFINE u == SubSeq(s, 1, i - 1)
           v == SubSeq(s, i, Len(s))
           w == u \o <<n>>
<1>1. /\ u \in Seq(HlistNode) /\ Len(u) = i - 1
      /\ \A j \in 1 .. i - 1 : u[j] = s[j]
  BY SubSeqProperties
<1>2. /\ v \in Seq(HlistNode) /\ Len(v) = Len(s) + 1 - i
      /\ \A j \in 1 .. Len(s) + 1 - i : v[j] = s[i + j - 1]
  BY SubSeqProperties
<1> HIDE DEF u, v
<1>3. /\ w \in Seq(HlistNode) /\ Len(w) = i
      /\ \A j \in 1 .. i : w[j] = IF j < i THEN s[j] ELSE n
  <2>1. <<n>> \in Seq(HlistNode) /\ Len(<<n>>) = 1 /\ <<n>>[1] = n
    OBVIOUS
  <2> QED
    BY <1>1, <2>1, ConcatProperties
<1> HIDE DEF w
<1>0. Len(s) \in Nat
  OBVIOUS
<1>4. /\ w \o v \in Seq(HlistNode) /\ Len(w \o v) = Len(s) + 1
      /\ \A j \in 1 .. Len(s) + 1 : (w \o v)[j] = IF j <= i THEN w[j] ELSE v[j - i]
  <2>1. /\ w \o v \in Seq(HlistNode) /\ Len(w \o v) = Len(w) + Len(v)
        /\ \A j \in 1 .. Len(w) + Len(v) : (w \o v)[j] = IF j <= Len(w) THEN w[j] ELSE v[j - Len(w)]
    BY <1>2, <1>3, ConcatProperties
  <2> QED
    BY <1>0, <1>2, <1>3, <2>1
<1>5. HInserted(s, i, n) = w \o v
  BY DEF HInserted, u, v, w
<1>6. OneLonger(s, w \o v, i, n)
  BY <1>2, <1>3, <1>4 DEF OneLonger
<1> QED
  BY <1>5, <1>6

LEMMA WithoutAt ==
  ASSUME NEW s \in Seq(HlistNode), NEW i \in 1 .. Len(s)
  PROVE  /\ HWithout(s, i) \in Seq(HlistNode)
         /\ Len(HWithout(s, i)) = Len(s) - 1
         /\ \A j \in 1 .. Len(s) - 1 : HWithout(s, i)[j] = IF j < i THEN s[j] ELSE s[j + 1]
<1> DEFINE u == SubSeq(s, 1, i - 1)
           v == SubSeq(s, i + 1, Len(s))
<1>1. /\ u \in Seq(HlistNode) /\ Len(u) = i - 1
      /\ \A j \in 1 .. i - 1 : u[j] = s[j]
  BY SubSeqProperties
<1>2. /\ v \in Seq(HlistNode) /\ Len(v) = Len(s) - i
      /\ \A j \in 1 .. Len(s) - i : v[j] = s[i + j]
  BY SubSeqProperties
<1> HIDE DEF u, v
<1>0. Len(s) \in Nat
  OBVIOUS
<1>4. /\ u \o v \in Seq(HlistNode) /\ Len(u \o v) = Len(s) - 1
      /\ \A j \in 1 .. Len(s) - 1 : (u \o v)[j] = IF j < i THEN u[j] ELSE v[j - i + 1]
  <2>1. /\ u \o v \in Seq(HlistNode) /\ Len(u \o v) = Len(u) + Len(v)
        /\ \A j \in 1 .. Len(u) + Len(v) : (u \o v)[j] = IF j <= Len(u) THEN u[j] ELSE v[j - Len(u)]
    BY <1>1, <1>2, ConcatProperties
  <2>2. Len(u) + Len(v) = Len(s) - 1
    BY <1>0, <1>1, <1>2
  <2>3. ASSUME NEW j \in 1 .. Len(s) - 1
        PROVE  (u \o v)[j] = IF j < i THEN u[j] ELSE v[j - i + 1]
    <3>1. (j <= i - 1 <=> j < i) /\ j - (i - 1) = j - i + 1
      BY <1>0
    <3> QED
      BY <1>1, <2>1, <2>2, <3>1
  <2> QED
    BY <2>1, <2>2, <2>3
<1>5. HWithout(s, i) = u \o v
  BY DEF HWithout, u, v
<1> QED
  BY <1>0, <1>1, <1>2, <1>4, <1>5

(* The holders of a list are all different, and those of two lists too.    *)
LEMMA HoldersApart ==
  ASSUME NEW ls, NEW fk, Apart(ls, fk),
         NEW g \in HlistHead, NEW h \in HlistHead,
         NEW i \in 0 .. Len(ls[g]), NEW j \in 0 .. Len(ls[h]),
         HAt(g, ls[g], i) = HAt(h, ls[h], j)
  PROVE  g = h /\ i = j
  BY HlistAssumption DEF Apart, Once, HAt

LEMMA HolderHere ==
  ASSUME NEW ls, NEW fk, Apart(ls, fk), NEW h \in HlistHead, NEW i \in 0 .. Len(ls[h])
  PROVE  /\ HAt(h, ls[h], i) \in Holder /\ HAt(h, ls[h], i) # HNull
         /\ HAt(h, ls[h], i) \notin fk
         /\ i # 0 => HAt(h, ls[h], i) = ls[h][i] /\ ls[h][i] \in HlistNode
  BY HlistAssumption DEF Apart, Plain, HAt, Holder

-----------------------------------------------------------------------------
(* What the stores of an insertion do, cell by cell.                       *)
Linking(l, m, n, a, b) ==
  /\ Shaped(m)
  /\ m.pointer[n] = b /\ m.pointer[a] = n
  /\ \A c \in Holder \ {n, a} : m.pointer[c] = l.pointer[c]
  /\ m.pprev[n] = a /\ (b # HNull => m.pprev[b] = n)
  /\ \A c \in HlistNode \ {n, b} : m.pprev[c] = l.pprev[c]

(* ks are the lists ls, but for h, which has n more, at position i.        *)
Longer(ls, ks, h, i, n) ==
  /\ ks \in [HlistHead -> Seq(HlistNode)]
  /\ \A g \in HlistHead \ {h} : ks[g] = ls[g]
  /\ Len(ks[h]) = Len(ls[h]) + 1
  /\ \A j \in 1 .. Len(ls[h]) + 1 :
       ks[h][j] = IF j < i THEN ls[h][j] ELSE IF j = i THEN n ELSE ls[h][j - 1]

LEMMA LongerApart ==
  ASSUME NEW ls, NEW fk, NEW ks, Apart(ls, fk),
         NEW h \in HlistHead, NEW i \in 1 .. Len(ls[h]) + 1,
         NEW n \in HlistNode \ fk,
         \A g \in HlistHead : \A j \in 1 .. Len(ls[g]) : ls[g][j] # n,
         Longer(ls, ks, h, i, n)
  PROVE  Apart(ks, fk)
<1>0. Len(ls[h]) \in Nat /\ \A g \in HlistHead : Len(ks[g]) \in Nat
  BY DEF Apart, Longer
(* Where an element of ks was in ls, if it is not the new one.             *)
<1>1. ASSUME NEW f \in HlistHead, NEW x \in 1 .. Len(ks[f]), ~(f = h /\ x = i)
      PROVE  \E o \in 1 .. Len(ls[f]) :
               /\ ks[f][x] = ls[f][o]
               /\ o = IF f = h /\ x > i THEN x - 1 ELSE x
  <2>1. CASE f # h
    BY <2>1 DEF Longer
  <2>2. CASE f = h /\ x < i
    <3>1. x \in 1 .. Len(ls[h])
      BY <1>0, <2>2
    <3> QED
      BY <3>1, <2>2 DEF Longer
  <2>3. CASE f = h /\ x > i
    <3>1. x - 1 \in 1 .. Len(ls[h]) /\ x \in 1 .. Len(ls[h]) + 1
      BY <1>0, <2>3 DEF Longer
    <3>2. ks[f][x] = ls[h][x - 1]
      BY <3>1, <2>3 DEF Longer
    <3> QED
      BY <3>1, <3>2, <2>3
  <2> QED
    BY <1>1, <2>1, <2>2, <2>3
<1>2. ks[h][i] = n
  BY DEF Longer
<1>3. ASSUME NEW f \in HlistHead, NEW g \in HlistHead,
             NEW x \in 1 .. Len(ks[f]), NEW y \in 1 .. Len(ks[g]), ks[f][x] = ks[g][y]
      PROVE  f = g /\ x = y
  <2>1. CASE f = h /\ x = i /\ g = h /\ y = i
    BY <2>1
  <2>2. CASE f = h /\ x = i /\ ~(g = h /\ y = i)
    <3>1. \E o \in 1 .. Len(ls[g]) : ks[g][y] = ls[g][o]
      BY <1>1, <2>2
    <3> QED
      BY <1>2, <1>3, <2>2, <3>1
  <2>3. CASE g = h /\ y = i /\ ~(f = h /\ x = i)
    <3>1. \E o \in 1 .. Len(ls[f]) : ks[f][x] = ls[f][o]
      BY <1>1, <2>3
    <3> QED
      BY <1>2, <1>3, <2>3, <3>1
  <2>4. CASE ~(f = h /\ x = i) /\ ~(g = h /\ y = i)
    <3>1. PICK o \in 1 .. Len(ls[f]) : ks[f][x] = ls[f][o] /\ o = IF f = h /\ x > i THEN x - 1 ELSE x
      BY <1>1, <2>4
    <3>2. PICK q \in 1 .. Len(ls[g]) : ks[g][y] = ls[g][q] /\ q = IF g = h /\ y > i THEN y - 1 ELSE y
      BY <1>1, <2>4
    <3>3. ls[f][o] = ls[g][q]
      BY <1>3, <3>1, <3>2
    <3>4. f = g /\ o = q
      BY <3>3 DEF Apart, Once
    <3> QED
      BY <3>1, <3>2, <3>4, <2>4, <1>0
  <2> QED
    BY <2>1, <2>2, <2>3, <2>4
<1>4. ASSUME NEW f \in HlistHead, NEW x \in 1 .. Len(ks[f])
      PROVE  ks[f][x] \notin fk
  <2>1. CASE f = h /\ x = i
    BY <1>2, <2>1
  <2>2. CASE ~(f = h /\ x = i)
    <3>1. \E o \in 1 .. Len(ls[f]) : ks[f][x] = ls[f][o]
      BY <1>1, <2>2
    <3> QED
      BY <3>1 DEF Apart, Plain
  <2> QED
    BY <2>1, <2>2
<1> QED
  BY <1>3, <1>4 DEF Apart, Once, Plain, Longer

(* Linking a node in at position i leaves all as it should be.            *)
LEMMA LinkInKeeps ==
  ASSUME NEW l, NEW m, NEW ls, NEW ks, NEW fk, Chained(l, ls, fk),
         NEW h \in HlistHead, NEW i \in 1 .. Len(ls[h]) + 1,
         NEW n \in HlistNode \ fk,
         \A g \in HlistHead : \A j \in 1 .. Len(ls[g]) : ls[g][j] # n,
         Longer(ls, ks, h, i, n),
         Linking(l, m, n, HAt(h, ls[h], i - 1), HAt(h, ls[h], i))
  PROVE  Chained(m, ks, fk)
<1> DEFINE a == HAt(h, ls[h], i - 1)
           b == HAt(h, ls[h], i)
<1>1. /\ Shaped(l) /\ Apart(ls, fk)
      /\ \A g \in HlistHead : HRepresents(l, g, ls[g])
      /\ \A c \in fk : l.pprev[c] = c /\ l.pointer[c] = HNull
  BY DEF Chained
<1>2. /\ \A g \in HlistHead : Len(ls[g]) \in Nat
      /\ Len(ks[h]) = Len(ls[h]) + 1 /\ i - 1 \in 0 .. Len(ls[h])
  BY <1>1 DEF Apart, Longer
<1>3. a # n /\ a \notin fk
  BY <1>1, <1>2, HolderHere, HlistAssumption DEF HAt
<1>4. b # n /\ (i = Len(ls[h]) + 1 => b = HNull) /\ (i # Len(ls[h]) + 1 => b = ls[h][i])
  BY <1>1, <1>2, HlistAssumption DEF HAt
<1>5. b \notin fk
  BY <1>1, <1>2, <1>4, HlistAssumption DEF Apart, Plain
<1>6. /\ HAt(h, ks[h], i) = n
      /\ \A j \in 0 .. i - 1 : HAt(h, ks[h], j) = HAt(h, ls[h], j)
      /\ \A j \in i + 1 .. Len(ls[h]) + 2 : HAt(h, ks[h], j) = HAt(h, ls[h], j - 1)
  BY <1>2 DEF HAt, Longer
<1>7. /\ m.pointer[n] = b /\ m.pointer[a] = n
      /\ \A c \in Holder \ {n, a} : m.pointer[c] = l.pointer[c]
      /\ m.pprev[n] = a /\ (b # HNull => m.pprev[b] = n)
      /\ \A c \in HlistNode \ {n, b} : m.pprev[c] = l.pprev[c]
  BY DEF Linking
<1>8. ASSUME NEW g \in HlistHead, NEW j \in 0 .. Len(ls[g]), ~(g = h /\ j = i - 1)
      PROVE  m.pointer[HAt(g, ls[g], j)] = HAt(g, ls[g], j + 1)
  <2>1. HAt(g, ls[g], j) \in Holder
    BY <1>1, HolderHere
  <2>2. HAt(g, ls[g], j) # a
    BY <1>1, <1>2, <1>8, HoldersApart
  <2>3. HAt(g, ls[g], j) # n
    BY <1>2, HlistAssumption DEF HAt
  <2>4. l.pointer[HAt(g, ls[g], j)] = HAt(g, ls[g], j + 1)
    BY <1>1 DEF HRepresents
  <2> HIDE DEF a
  <2> QED
    BY <1>7, <2>1, <2>2, <2>3, <2>4
<1>9. ASSUME NEW g \in HlistHead, NEW j \in 1 .. Len(ls[g]), ~(g = h /\ j = i)
      PROVE  m.pprev[ls[g][j]] = HAt(g, ls[g], j - 1)
  <2>1. ls[g][j] \in HlistNode
    BY <1>1 DEF Apart
  <2>2. ls[g][j] # b
    <3>1. CASE i = Len(ls[h]) + 1
      BY <3>1, <1>4, <2>1, HlistAssumption
    <3>2. CASE i # Len(ls[h]) + 1
      <4>1. i \in 1 .. Len(ls[h])
        BY <3>2, <1>2
      <4>2. \A x \in 1 .. Len(ls[h]) : ls[g][j] = ls[h][x] => g = h /\ j = x
        BY <1>1 DEF Apart, Once
      <4>3. ls[g][j] # ls[h][i]
        BY <4>1, <4>2, <1>9
      <4> QED
        BY <3>2, <4>3, <1>4
    <3> QED
      BY <3>1, <3>2
  <2>3. ls[g][j] # n
    OBVIOUS
  <2>4. l.pprev[ls[g][j]] = HAt(g, ls[g], j - 1)
    BY <1>1 DEF HRepresents
  <2> HIDE DEF b
  <2> QED
    BY <1>7, <2>1, <2>2, <2>3, <2>4
<1>10. HRepresents(m, h, ks[h])
  <2>1. ASSUME NEW j \in 0 .. Len(ks[h])
        PROVE  m.pointer[HAt(h, ks[h], j)] = HAt(h, ks[h], j + 1)
    <3>1. CASE j < i - 1
      <4>1. j \in 0 .. Len(ls[h]) /\ j \in 0 .. i - 1 /\ j + 1 \in 0 .. i - 1 /\ j # i - 1
        BY <3>1, <1>2
      <4> QED
        BY <4>1, <1>6, <1>8
    <3>2. CASE j = i - 1
      BY <3>2, <1>2, <1>6, <1>7
    <3>3. CASE j = i
      BY <3>3, <1>2, <1>6, <1>7
    <3>4. CASE j > i
      <4>1. /\ j - 1 \in 0 .. Len(ls[h]) /\ j - 1 # i - 1 /\ j - 1 + 1 = j /\ j + 1 - 1 = j
            /\ j \in i + 1 .. Len(ls[h]) + 2 /\ j + 1 \in i + 1 .. Len(ls[h]) + 2
        BY <3>4, <1>2
      <4>2. m.pointer[HAt(h, ls[h], j - 1)] = HAt(h, ls[h], j)
        BY <4>1, <1>8
      <4>3. HAt(h, ks[h], j) = HAt(h, ls[h], j - 1) /\ HAt(h, ks[h], j + 1) = HAt(h, ls[h], j)
        BY <4>1, <1>6
      <4> QED
        BY <4>2, <4>3
    <3> QED
      BY <3>1, <3>2, <3>3, <3>4, <1>2
  <2>2. ASSUME NEW j \in 1 .. Len(ks[h])
        PROVE  m.pprev[ks[h][j]] = HAt(h, ks[h], j - 1)
    <3>0. ks[h][j] = HAt(h, ks[h], j)
      BY <1>2 DEF HAt
    <3>1. CASE j < i
      <4>1. /\ j \in 1 .. Len(ls[h]) /\ j # i /\ j \in 0 .. i - 1 /\ j - 1 \in 0 .. i - 1
        BY <3>1, <1>2
      <4>2. ls[h][j] = HAt(h, ls[h], j)
        BY <4>1 DEF HAt
      <4> QED
        BY <3>0, <4>1, <4>2, <1>6, <1>9
    <3>2. CASE j = i
      BY <3>0, <3>2, <1>2, <1>6, <1>7
    <3>3. CASE j = i + 1
      <4>1. /\ j - 1 = i /\ j \in i + 1 .. Len(ls[h]) + 2 /\ i # Len(ls[h]) + 1
        BY <3>3, <1>2
      <4>2. HAt(h, ks[h], j) = b /\ HAt(h, ks[h], j - 1) = n
        BY <4>1, <1>6
      <4>3. b # HNull
        BY <4>1, <1>1, <1>2, <1>4, HlistAssumption DEF Apart
      <4> QED
        BY <3>0, <4>2, <4>3, <1>7
    <3>4. CASE j > i + 1
      <4>1. /\ j - 1 \in 1 .. Len(ls[h]) /\ j - 1 # i
            /\ j \in i + 1 .. Len(ls[h]) + 2 /\ j - 1 \in i + 1 .. Len(ls[h]) + 2
        BY <3>4, <1>2
      <4>2. ls[h][j - 1] = HAt(h, ls[h], j - 1)
        BY <4>1 DEF HAt
      <4>3. HAt(h, ks[h], j) = HAt(h, ls[h], j - 1) /\ HAt(h, ks[h], j - 1) = HAt(h, ls[h], j - 1 - 1)
        BY <4>1, <1>6
      <4>4. m.pprev[ls[h][j - 1]] = HAt(h, ls[h], j - 1 - 1)
        BY <4>1, <1>9
      <4> QED
        BY <3>0, <4>2, <4>3, <4>4
    <3> QED
      BY <3>1, <3>2, <3>3, <3>4, <1>2
  <2> QED
    BY <2>1, <2>2 DEF HRepresents
<1>11. ASSUME NEW g \in HlistHead
       PROVE  HRepresents(m, g, ks[g])
  <2>1. CASE g = h
    BY <2>1, <1>10
  <2>2. CASE g # h
    <3>1. ks[g] = ls[g]
      BY <2>2 DEF Longer
    <3>2. \A j \in 0 .. Len(ls[g]) : m.pointer[HAt(g, ls[g], j)] = HAt(g, ls[g], j + 1)
      BY <2>2, <1>8
    <3>3. \A j \in 1 .. Len(ls[g]) : m.pprev[ls[g][j]] = HAt(g, ls[g], j - 1)
      BY <2>2, <1>9
    <3> QED
      BY <3>1, <3>2, <3>3 DEF HRepresents
  <2> QED
    BY <2>1, <2>2
<1>12. ASSUME NEW c \in fk
       PROVE  m.pprev[c] = c /\ m.pointer[c] = HNull
  <2>1. c \in HlistNode /\ c \in Holder /\ c # n /\ c # a /\ c # b
    BY <1>1, <1>3, <1>5 DEF Apart, Holder
  <2> HIDE DEF a, b
  <2> QED
    BY <2>1, <1>1, <1>7
<1>13. Apart(ks, fk)
  BY <1>1, LongerApart
<1> QED
  BY <1>11, <1>12, <1>13 DEF Chained, Linking

-----------------------------------------------------------------------------
(* The same for taking out the node n at position i.                       *)
Unlinking(l, m, n, a, b) ==
  /\ Shaped(m)
  /\ m.pointer[a] = b
  /\ \A c \in Holder \ {n, a} : m.pointer[c] = l.pointer[c]
  /\ b # HNull => m.pprev[b] = a
  /\ \A c \in HlistNode \ {n, b} : m.pprev[c] = l.pprev[c]

Shorter(ls, ks, h, i) ==
  /\ ks \in [HlistHead -> Seq(HlistNode)]
  /\ \A g \in HlistHead \ {h} : ks[g] = ls[g]
  /\ Len(ks[h]) = Len(ls[h]) - 1
  /\ \A j \in 1 .. Len(ls[h]) - 1 : ks[h][j] = IF j < i THEN ls[h][j] ELSE ls[h][j + 1]

LEMMA ShorterApart ==
  ASSUME NEW ls, NEW fk, NEW ks, Apart(ls, fk),
         NEW h \in HlistHead, NEW i \in 1 .. Len(ls[h]), Shorter(ls, ks, h, i)
  PROVE  Apart(ks, fk)
<1>0. Len(ls[h]) \in Nat
  BY DEF Apart
<1>1. ASSUME NEW f \in HlistHead, NEW x \in 1 .. Len(ks[f])
      PROVE  \E o \in 1 .. Len(ls[f]) :
               /\ ks[f][x] = ls[f][o]
               /\ o = IF f = h /\ x >= i THEN x + 1 ELSE x
  <2>1. CASE f # h
    BY <2>1 DEF Shorter
  <2>2. CASE f = h /\ x < i
    <3>1. x \in 1 .. Len(ls[h]) /\ x \in 1 .. Len(ls[h]) - 1
      BY <1>0, <2>2 DEF Shorter
    <3> QED
      BY <3>1, <2>2 DEF Shorter
  <2>3. CASE f = h /\ x >= i
    <3>1. x + 1 \in 1 .. Len(ls[h]) /\ x \in 1 .. Len(ls[h]) - 1 /\ ~(x < i)
      BY <1>0, <2>3 DEF Shorter
    <3>2. ks[f][x] = ls[h][x + 1]
      BY <3>1, <2>3 DEF Shorter
    <3> QED
      BY <3>1, <3>2, <2>3
  <2> QED
    BY <1>0, <2>1, <2>2, <2>3
<1>2. ASSUME NEW f \in HlistHead, NEW g \in HlistHead,
             NEW x \in 1 .. Len(ks[f]), NEW y \in 1 .. Len(ks[g]), ks[f][x] = ks[g][y]
      PROVE  f = g /\ x = y
  <2>1. PICK o \in 1 .. Len(ls[f]) : ks[f][x] = ls[f][o] /\ o = IF f = h /\ x >= i THEN x + 1 ELSE x
    BY <1>1
  <2>2. PICK q \in 1 .. Len(ls[g]) : ks[g][y] = ls[g][q] /\ q = IF g = h /\ y >= i THEN y + 1 ELSE y
    BY <1>1
  <2>3. ls[f][o] = ls[g][q]
    BY <1>2, <2>1, <2>2
  <2>4. f = g /\ o = q
    BY <2>3 DEF Apart, Once
  <2> QED
    BY <2>1, <2>2, <2>4, <1>0
<1>3. ASSUME NEW f \in HlistHead, NEW x \in 1 .. Len(ks[f])
      PROVE  ks[f][x] \notin fk
  <2>1. \A o \in 1 .. Len(ls[f]) : ls[f][o] \notin fk
    BY DEF Apart, Plain
  <2> QED
    BY <1>1, <2>1
<1> QED
  BY <1>2, <1>3 DEF Apart, Once, Plain, Shorter

LEMMA UnlinkKeeps ==
  ASSUME NEW l, NEW m, NEW ls, NEW ks, NEW fk, Chained(l, ls, fk),
         NEW h \in HlistHead, NEW i \in 1 .. Len(ls[h]), Shorter(ls, ks, h, i),
         Unlinking(l, m, ls[h][i], HAt(h, ls[h], i - 1), HAt(h, ls[h], i + 1))
  PROVE  Chained(m, ks, fk)
<1> DEFINE n == ls[h][i]
           a == HAt(h, ls[h], i - 1)
           b == HAt(h, ls[h], i + 1)
<1>1. /\ Shaped(l) /\ Apart(ls, fk)
      /\ \A g \in HlistHead : HRepresents(l, g, ls[g])
      /\ \A c \in fk : l.pprev[c] = c /\ l.pointer[c] = HNull
  BY DEF Chained
<1>2. /\ \A g \in HlistHead : Len(ls[g]) \in Nat
      /\ Len(ks[h]) = Len(ls[h]) - 1 /\ i - 1 \in 0 .. Len(ls[h]) /\ i \in 0 .. Len(ls[h])
  BY <1>1 DEF Apart, Shorter
<1>3. /\ a \notin fk /\ n \notin fk /\ n = HAt(h, ls[h], i)
  BY <1>1, <1>2, HolderHere DEF HAt
<1>4. /\ i = Len(ls[h]) => b = HNull
      /\ i # Len(ls[h]) => i + 1 \in 1 .. Len(ls[h]) /\ b = ls[h][i + 1]
  BY <1>1, <1>2, HlistAssumption DEF HAt
<1>5. b \notin fk
  BY <1>1, <1>2, <1>4, HlistAssumption DEF Apart, Plain
<1>6. /\ \A j \in 0 .. i - 1 : HAt(h, ks[h], j) = HAt(h, ls[h], j)
      /\ \A j \in i .. Len(ls[h]) : HAt(h, ks[h], j) = HAt(h, ls[h], j + 1)
  BY <1>2 DEF HAt, Shorter
<1>7. /\ m.pointer[a] = b
      /\ \A c \in Holder \ {n, a} : m.pointer[c] = l.pointer[c]
      /\ b # HNull => m.pprev[b] = a
      /\ \A c \in HlistNode \ {n, b} : m.pprev[c] = l.pprev[c]
  BY DEF Unlinking
<1>8. ASSUME NEW g \in HlistHead, NEW j \in 0 .. Len(ls[g]), ~(g = h /\ j \in {i - 1, i})
      PROVE  m.pointer[HAt(g, ls[g], j)] = HAt(g, ls[g], j + 1)
  <2>1. HAt(g, ls[g], j) \in Holder
    BY <1>1, HolderHere
  <2>2. HAt(g, ls[g], j) # a
    BY <1>1, <1>2, <1>8, HoldersApart
  <2>3. HAt(g, ls[g], j) # n
    BY <1>1, <1>2, <1>3, <1>8, HoldersApart
  <2>4. l.pointer[HAt(g, ls[g], j)] = HAt(g, ls[g], j + 1)
    BY <1>1 DEF HRepresents
  <2> HIDE DEF a, n
  <2> QED
    BY <1>7, <2>1, <2>2, <2>3, <2>4
<1>9. ASSUME NEW g \in HlistHead, NEW j \in 1 .. Len(ls[g]), ~(g = h /\ j \in {i, i + 1})
      PROVE  m.pprev[ls[g][j]] = HAt(g, ls[g], j - 1)
  <2>1. ls[g][j] \in HlistNode
    BY <1>1 DEF Apart
  <2>2. ls[g][j] # b
    <3>1. CASE i = Len(ls[h])
      BY <3>1, <1>4, <2>1, HlistAssumption
    <3>2. CASE i # Len(ls[h])
      BY <3>2, <1>1, <1>4, <1>9 DEF Apart, Once
    <3> QED
      BY <3>1, <3>2
  <2>3. ls[g][j] # n
    BY <1>1, <1>9 DEF Apart, Once
  <2>4. l.pprev[ls[g][j]] = HAt(g, ls[g], j - 1)
    BY <1>1 DEF HRepresents
  <2> HIDE DEF b, n
  <2> QED
    BY <1>7, <2>1, <2>2, <2>3, <2>4
<1>10. HRepresents(m, h, ks[h])
  <2>1. ASSUME NEW j \in 0 .. Len(ks[h])
        PROVE  m.pointer[HAt(h, ks[h], j)] = HAt(h, ks[h], j + 1)
    <3>1. CASE j < i - 1
      <4>1. j \in 0 .. Len(ls[h]) /\ j \in 0 .. i - 1 /\ j + 1 \in 0 .. i - 1 /\ j \notin {i - 1, i}
        BY <3>1, <1>2
      <4> QED
        BY <4>1, <1>6, <1>8
    <3>2. CASE j = i - 1
      <4>1. j \in 0 .. i - 1 /\ j + 1 = i /\ i \in i .. Len(ls[h])
        BY <3>2, <1>2
      <4>2. HAt(h, ks[h], j) = a /\ HAt(h, ks[h], j + 1) = b
        BY <3>2, <4>1, <1>6
      <4> QED
        BY <4>2, <1>7
    <3>3. CASE j > i - 1
      <4>1. /\ j + 1 \in 0 .. Len(ls[h]) /\ j + 1 \notin {i - 1, i}
            /\ j \in i .. Len(ls[h]) /\ j + 1 \in i .. Len(ls[h])
        BY <3>3, <1>2
      <4>2. m.pointer[HAt(h, ls[h], j + 1)] = HAt(h, ls[h], j + 1 + 1)
        BY <4>1, <1>8
      <4> QED
        BY <4>1, <4>2, <1>6
    <3> QED
      BY <3>1, <3>2, <3>3, <1>2
  <2>2. ASSUME NEW j \in 1 .. Len(ks[h])
        PROVE  m.pprev[ks[h][j]] = HAt(h, ks[h], j - 1)
    <3>0. ks[h][j] = HAt(h, ks[h], j)
      BY <1>2 DEF HAt
    <3>1. CASE j < i
      <4>1. /\ j \in 1 .. Len(ls[h]) /\ j \notin {i, i + 1} /\ j \in 0 .. i - 1 /\ j - 1 \in 0 .. i - 1
        BY <3>1, <1>2
      <4>2. ls[h][j] = HAt(h, ls[h], j)
        BY <4>1 DEF HAt
      <4> QED
        BY <3>0, <4>1, <4>2, <1>6, <1>9
    <3>2. CASE j = i
      <4>1. j - 1 \in 0 .. i - 1 /\ j \in i .. Len(ls[h]) /\ i # Len(ls[h])
        BY <3>2, <1>2
      <4>2. HAt(h, ks[h], j - 1) = a /\ HAt(h, ks[h], j) = b
        BY <3>2, <4>1, <1>6
      <4>3. b # HNull
        <5>1. b = ls[h][i + 1] /\ i + 1 \in 1 .. Len(ls[h])
          BY <4>1, <1>2, <1>4
        <5>2. ls[h] \in Seq(HlistNode)
          BY <1>1 DEF Apart
        <5>3. b \in HlistNode
          BY <5>1, <5>2
        <5> QED
          BY <5>3, HlistAssumption
      <4> QED
        BY <3>0, <4>2, <4>3, <1>7
    <3>3. CASE j > i
      <4>0. i \in Nat /\ j \in Nat /\ Len(ls[h]) \in Nat /\ i < j /\ j < Len(ls[h]) /\ 1 <= i
        BY <3>3, <1>2
      <4>1. /\ j + 1 \in 1 .. Len(ls[h]) /\ j + 1 \notin {i, i + 1} /\ j + 1 - 1 = j /\ j - 1 + 1 = j
            /\ j \in i .. Len(ls[h]) /\ j - 1 \in i .. Len(ls[h])
        BY <4>0
      <4>2. ls[h][j + 1] = HAt(h, ls[h], j + 1)
        BY <4>1 DEF HAt
      <4>3. m.pprev[ls[h][j + 1]] = HAt(h, ls[h], j)
        BY <4>1, <1>9
      <4>4. HAt(h, ks[h], j) = HAt(h, ls[h], j + 1) /\ HAt(h, ks[h], j - 1) = HAt(h, ls[h], j)
        BY <4>1, <1>6
      <4> QED
        BY <3>0, <4>2, <4>3, <4>4
    <3> QED
      BY <3>1, <3>2, <3>3, <1>2
  <2> QED
    BY <2>1, <2>2 DEF HRepresents
<1>11. ASSUME NEW g \in HlistHead
       PROVE  HRepresents(m, g, ks[g])
  <2>1. CASE g = h
    BY <2>1, <1>10
  <2>2. CASE g # h
    <3>1. ks[g] = ls[g]
      BY <2>2 DEF Shorter
    <3>2. \A j \in 0 .. Len(ls[g]) : m.pointer[HAt(g, ls[g], j)] = HAt(g, ls[g], j + 1)
      BY <2>2, <1>8
    <3>3. \A j \in 1 .. Len(ls[g]) : m.pprev[ls[g][j]] = HAt(g, ls[g], j - 1)
      BY <2>2, <1>9
    <3> QED
      BY <3>1, <3>2, <3>3 DEF HRepresents
  <2> QED
    BY <2>1, <2>2
<1>12. ASSUME NEW c \in fk
       PROVE  m.pprev[c] = c /\ m.pointer[c] = HNull
  <2>1. c \in HlistNode /\ c \in Holder /\ c # n /\ c # a /\ c # b
    BY <1>1, <1>3, <1>5 DEF Apart, Holder
  <2> HIDE DEF a, b, n
  <2> QED
    BY <2>1, <1>1, <1>7
<1>13. Apart(ks, fk)
  BY <1>1, ShorterApart
<1> QED
  BY <1>11, <1>12, <1>13 DEF Chained, Unlinking

-----------------------------------------------------------------------------
(* A node on no list may be given any links; it is fake if they are its    *)
(* own.                                                                    *)
LEMMA LooseNode ==
  ASSUME NEW l, NEW m, NEW ls, NEW fk, NEW gk, NEW n \in HlistNode, Chained(l, ls, fk), Shaped(m),
         \A g \in HlistHead : \A j \in 1 .. Len(ls[g]) : ls[g][j] # n,
         \A c \in Holder \ {n} : m.pointer[c] = l.pointer[c],
         \A c \in HlistNode \ {n} : m.pprev[c] = l.pprev[c],
         gk \subseteq fk \cup {n},
         n \in gk => m.pprev[n] = n /\ m.pointer[n] = HNull
  PROVE  Chained(m, ls, gk)
<1>1. /\ Shaped(l) /\ Apart(ls, fk)
      /\ \A g \in HlistHead : HRepresents(l, g, ls[g])
      /\ \A c \in fk : l.pprev[c] = c /\ l.pointer[c] = HNull
  BY DEF Chained
<1>2. ASSUME NEW g \in HlistHead
      PROVE  HRepresents(m, g, ls[g])
  <2>1. ASSUME NEW j \in 0 .. Len(ls[g])
        PROVE  m.pointer[HAt(g, ls[g], j)] = HAt(g, ls[g], j + 1)
    <3>1. HAt(g, ls[g], j) \in Holder /\ HAt(g, ls[g], j) # n
      BY <1>1, HolderHere, HlistAssumption DEF HAt
    <3> QED
      BY <3>1, <1>1 DEF HRepresents
  <2>2. ASSUME NEW j \in 1 .. Len(ls[g])
        PROVE  m.pprev[ls[g][j]] = HAt(g, ls[g], j - 1)
    <3>1. ls[g][j] \in HlistNode \ {n}
      BY <1>1 DEF Apart
    <3> QED
      BY <3>1, <1>1 DEF HRepresents
  <2> QED
    BY <2>1, <2>2 DEF HRepresents
<1>3. Apart(ls, gk)
  BY <1>1 DEF Apart, Plain
<1>4. \A c \in gk : m.pprev[c] = c /\ m.pointer[c] = HNull
  BY <1>1 DEF Apart, Holder
<1> QED
  BY <1>2, <1>3, <1>4 DEF Chained

(* A list given to another head, which loses its own.                      *)
LEMMA MovedList ==
  ASSUME NEW l, NEW ls, NEW fk, Chained(l, ls, fk), NEW h \in HlistHead, NEW g \in HlistHead \ {h}
  PROVE  Chained(HlistMoveList(l, h, g), [ls EXCEPT ![g] = ls[h], ![h] = <<>>], fk)
<1> DEFINE m == HlistMoveList(l, h, g)
           ks == [ls EXCEPT ![g] = ls[h], ![h] = <<>>]
           first == l.pointer[h]
<1>1. /\ Shaped(l) /\ Apart(ls, fk)
      /\ \A f \in HlistHead : HRepresents(l, f, ls[f])
      /\ \A c \in fk : l.pprev[c] = c /\ l.pointer[c] = HNull
  BY DEF Chained
<1>2. \A f \in HlistHead : Len(ls[f]) \in Nat /\ ls[f] \in Seq(HlistNode)
  <2>1. \A f \in HlistHead : ls[f] \in Seq(HlistNode)
    BY <1>1 DEF Apart
  <2>2. \A s \in Seq(HlistNode) : Len(s) \in Nat
    OBVIOUS
  <2> QED
    BY <2>1, <2>2
<1>3. /\ ks \in [HlistHead -> Seq(HlistNode)]
      /\ ks[g] = ls[h] /\ ks[h] = <<>> /\ \A f \in HlistHead \ {g, h} : ks[f] = ls[f]
  BY <1>1 DEF Apart
<1>4. first = HAt(h, ls[h], 1)
  <2>1. HAt(h, ls[h], 0) = h /\ 0 \in 0 .. Len(ls[h])
    BY <1>2 DEF HAt
  <2> QED
    BY <2>1, <1>1 DEF HRepresents
<1>5. /\ Len(ls[h]) = 0 => first = HNull
      /\ Len(ls[h]) # 0 => first = ls[h][1] /\ first \in HlistNode /\ 1 \in 1 .. Len(ls[h])
  BY <1>2, <1>4 DEF HAt
<1>6. /\ Shaped(m)
      /\ m.pointer[g] = first /\ m.pointer[h] = HNull
      /\ \A c \in Holder \ {g, h} : m.pointer[c] = l.pointer[c]
      /\ first # HNull => m.pprev[first] = g
      /\ \A c \in HlistNode \ {first} : m.pprev[c] = l.pprev[c]
  <2>1. /\ l.pointer = [c \in Holder |-> l.pointer[c]]
        /\ l.pprev = [n \in HlistNode |-> l.pprev[n]]
    BY <1>1 DEF Shaped
  <2>2. /\ m.pointer = [l.pointer EXCEPT ![g] = first, ![h] = HNull]
        /\ m.pprev = Backward(l.pprev, first, g)
        /\ m = [pointer |-> m.pointer, pprev |-> m.pprev]
    BY DEF HlistMoveList
  <2>3. first = HNull \/ first \in HlistNode
    BY <1>2, <1>5
  <2> HIDE DEF m, first
  <2>4. /\ m.pointer = [c \in Holder |-> m.pointer[c]]
        /\ m.pointer[g] = first /\ m.pointer[h] = HNull
        /\ \A c \in Holder \ {g, h} : m.pointer[c] = l.pointer[c]
    BY <2>1, <2>2 DEF Holder
  <2>5. /\ m.pprev = [n \in HlistNode |-> m.pprev[n]]
        /\ first # HNull => m.pprev[first] = g
        /\ \A c \in HlistNode \ {first} : m.pprev[c] = l.pprev[c]
    <3>1. CASE first = HNull
      BY <3>1, <2>1, <2>2 DEF Backward
    <3>2. CASE first # HNull
      BY <3>2, <2>1, <2>2, <2>3 DEF Backward
    <3> QED
      BY <3>1, <3>2
  <2> QED
    BY <2>2, <2>4, <2>5 DEF Shaped
<1> HIDE DEF m, ks, first
<1>7. HRepresents(m, h, ks[h])
  BY <1>3, <1>6 DEF HRepresents, HAt
<1>8. HRepresents(m, g, ks[g])
  <2>1. ASSUME NEW j \in 0 .. Len(ls[h])
        PROVE  m.pointer[HAt(g, ls[h], j)] = HAt(g, ls[h], j + 1)
    <3>1. CASE j = 0
      BY <3>1, <1>4, <1>6 DEF HAt
    <3>2. CASE j # 0
      <4>1. /\ HAt(g, ls[h], j) = HAt(h, ls[h], j) /\ HAt(g, ls[h], j + 1) = HAt(h, ls[h], j + 1)
            /\ HAt(h, ls[h], j) \in Holder \ {g, h}
        BY <3>2, <1>1, <1>2, HlistAssumption DEF HAt, Apart, Holder
      <4> QED
        BY <4>1, <1>1, <1>6 DEF HRepresents
    <3> QED
      BY <3>1, <3>2
  <2>2. ASSUME NEW j \in 1 .. Len(ls[h])
        PROVE  m.pprev[ls[h][j]] = HAt(g, ls[h], j - 1)
    <3>1. CASE j = 1
      BY <3>1, <1>1, <1>2, <1>5, <1>6, HlistAssumption DEF HAt
    <3>2. CASE j # 1
      <4>1. /\ HAt(g, ls[h], j - 1) = HAt(h, ls[h], j - 1)
            /\ ls[h][j] \in HlistNode
        BY <3>2, <1>2 DEF HAt
      <4>2. ls[h][j] # first
        BY <3>2, <4>1, <1>1, <1>5, HlistAssumption DEF Apart, Once
      <4> QED
        BY <4>1, <4>2, <1>1, <1>6 DEF HRepresents
    <3> QED
      BY <3>1, <3>2
  <2> QED
    BY <2>1, <2>2, <1>3 DEF HRepresents
<1>9. ASSUME NEW f \in HlistHead \ {g, h}
      PROVE  HRepresents(m, f, ks[f])
  <2>1. ASSUME NEW j \in 0 .. Len(ls[f])
        PROVE  HAt(f, ls[f], j) \in Holder \ {g, h}
    BY <1>1, HolderHere, HlistAssumption DEF HAt
  <2>2. ASSUME NEW j \in 1 .. Len(ls[f])
        PROVE  ls[f][j] \in HlistNode \ {first}
    <3>1. ls[f][j] \in HlistNode
      BY <1>2
    <3>2. CASE Len(ls[h]) = 0
      BY <3>1, <3>2, <1>5, HlistAssumption
    <3>3. CASE Len(ls[h]) # 0
      <4>1. first = ls[h][1] /\ 1 \in 1 .. Len(ls[h])
        BY <3>3, <1>5
      <4> QED
        BY <3>1, <4>1, <1>1 DEF Apart, Once
    <3> QED
      BY <3>2, <3>3
  <2>3. \A j \in 0 .. Len(ls[f]) : m.pointer[HAt(f, ls[f], j)] = HAt(f, ls[f], j + 1)
    BY <2>1, <1>1, <1>6 DEF HRepresents
  <2>4. \A j \in 1 .. Len(ls[f]) : m.pprev[ls[f][j]] = HAt(f, ls[f], j - 1)
    BY <2>2, <1>1, <1>6 DEF HRepresents
  <2> QED
    BY <2>3, <2>4, <1>3 DEF HRepresents
<1>10. Apart(ks, fk)
  <2> DEFINE Old(f) == IF f = g THEN h ELSE f
  <2>1. ASSUME NEW f \in HlistHead, NEW x \in 1 .. Len(ks[f])
        PROVE  f # h /\ Old(f) \in HlistHead /\ x \in 1 .. Len(ls[Old(f)]) /\ ks[f][x] = ls[Old(f)][x]
    <3>1. f # h
      BY <1>3
    <3> QED
      BY <3>1, <1>3
  <2>2. ASSUME NEW f \in HlistHead, NEW e \in HlistHead,
               NEW x \in 1 .. Len(ks[f]), NEW y \in 1 .. Len(ks[e]), ks[f][x] = ks[e][y]
        PROVE  f = e /\ x = y
    <3>1. Old(f) = Old(e) /\ x = y
      BY <2>1, <2>2, <1>1 DEF Apart, Once
    <3> QED
      BY <3>1, <2>1
  <2>3. ASSUME NEW f \in HlistHead, NEW x \in 1 .. Len(ks[f])
        PROVE  ks[f][x] \notin fk
    BY <2>1, <1>1 DEF Apart, Plain
  <2> QED
    BY <2>2, <2>3, <1>1, <1>3 DEF Apart, Once, Plain
<1>11. \A c \in fk : m.pprev[c] = c /\ m.pointer[c] = HNull
  <2>1. \A c \in fk : c \in HlistNode /\ c \in Holder \ {g, h} /\ c # first
    BY <1>1, <1>5, HlistAssumption DEF Apart, Plain, Holder
  <2> QED
    BY <2>1, <1>1, <1>6
<1>12. Chained(m, ks, fk)
  BY <1>3, <1>6, <1>7, <1>8, <1>9, <1>10, <1>11 DEF Chained
<1> QED
  BY <1>12 DEF m, ks

-----------------------------------------------------------------------------
(* The stores of each operation of list.h are those that link or unlink.   *)
LEMMA HeadLinks ==
  ASSUME NEW l, Shaped(l), NEW n \in HlistNode, NEW h \in HlistHead,
         l.pointer[h] \in (HlistNode \ {n}) \cup {HNull}
  PROVE  Linking(l, HlistAddHead(l, n, h), n, h, l.pointer[h])
<1> DEFINE b == l.pointer[h]
           m == HlistAddHead(l, n, h)
<1>1. /\ l.pointer = [c \in Holder |-> l.pointer[c]]
      /\ l.pprev = [c \in HlistNode |-> l.pprev[c]]
      /\ n \in Holder /\ h \in Holder /\ h # n /\ b # n
  BY HlistAssumption DEF Shaped, Holder
<1>2. /\ m.pointer = [l.pointer EXCEPT ![n] = b, ![h] = n]
      /\ m.pprev = [Backward(l.pprev, b, n) EXCEPT ![n] = h]
      /\ m = [pointer |-> m.pointer, pprev |-> m.pprev]
  BY DEF HlistAddHead
<1> HIDE DEF m, b
<1>3. /\ m.pointer = [c \in Holder |-> m.pointer[c]]
      /\ m.pointer[n] = b /\ m.pointer[h] = n
      /\ \A c \in Holder \ {n, h} : m.pointer[c] = l.pointer[c]
  BY <1>1, <1>2
<1>4. /\ m.pprev = [c \in HlistNode |-> m.pprev[c]]
      /\ m.pprev[n] = h /\ (b # HNull => m.pprev[b] = n)
      /\ \A c \in HlistNode \ {n, b} : m.pprev[c] = l.pprev[c]
  <2>1. CASE b = HNull
    BY <2>1, <1>1, <1>2 DEF Backward
  <2>2. CASE b # HNull
    <3>1. b \in HlistNode
      BY <2>2 DEF b
    <3> QED
      BY <2>2, <3>1, <1>1, <1>2 DEF Backward
  <2> QED
    BY <2>1, <2>2
<1>5. Linking(l, m, n, h, b)
  BY <1>2, <1>3, <1>4 DEF Linking, Shaped
<1> QED
  BY <1>5 DEF m, b

LEMMA BeforeLinks ==
  ASSUME NEW l, Shaped(l), NEW n \in HlistNode, NEW next \in HlistNode \ {n},
         l.pprev[next] \in Holder \ {n}
  PROVE  Linking(l, HlistAddBefore(l, n, next), n, l.pprev[next], next)
<1> DEFINE a == l.pprev[next]
           m == HlistAddBefore(l, n, next)
<1>1. /\ l.pointer = [c \in Holder |-> l.pointer[c]]
      /\ l.pprev = [c \in HlistNode |-> l.pprev[c]]
      /\ n \in Holder /\ a \in Holder /\ a # n
  BY DEF Shaped, Holder
<1>2. /\ m.pointer = [l.pointer EXCEPT ![n] = next, ![a] = n]
      /\ m.pprev = [l.pprev EXCEPT ![n] = a, ![next] = n]
      /\ m = [pointer |-> m.pointer, pprev |-> m.pprev]
  BY DEF HlistAddBefore
<1> HIDE DEF m, a
<1>3. /\ m.pointer = [c \in Holder |-> m.pointer[c]]
      /\ m.pointer[n] = next /\ m.pointer[a] = n
      /\ \A c \in Holder \ {n, a} : m.pointer[c] = l.pointer[c]
  BY <1>1, <1>2
<1>4. /\ m.pprev = [c \in HlistNode |-> m.pprev[c]]
      /\ m.pprev[n] = a /\ m.pprev[next] = n
      /\ \A c \in HlistNode \ {n, next} : m.pprev[c] = l.pprev[c]
  BY <1>1, <1>2
<1>5. Linking(l, m, n, a, next)
  BY <1>2, <1>3, <1>4 DEF Linking, Shaped
<1> QED
  BY <1>5 DEF m, a

LEMMA BehindLinks ==
  ASSUME NEW l, Shaped(l), NEW n \in HlistNode, NEW prev \in HlistNode \ {n},
         l.pointer[prev] \in (HlistNode \ {n}) \cup {HNull}
  PROVE  Linking(l, HlistAddBehind(l, n, prev), n, prev, l.pointer[prev])
<1> DEFINE b == l.pointer[prev]
           m == HlistAddBehind(l, n, prev)
<1>1. /\ l.pointer = [c \in Holder |-> l.pointer[c]]
      /\ l.pprev = [c \in HlistNode |-> l.pprev[c]]
      /\ n \in Holder /\ prev \in Holder /\ b # n
  BY HlistAssumption DEF Shaped, Holder
<1>2. /\ m.pointer = [l.pointer EXCEPT ![n] = b, ![prev] = n]
      /\ m.pprev = Backward([l.pprev EXCEPT ![n] = prev], b, n)
      /\ m = [pointer |-> m.pointer, pprev |-> m.pprev]
  BY DEF HlistAddBehind
<1> HIDE DEF m, b
<1>3. /\ m.pointer = [c \in Holder |-> m.pointer[c]]
      /\ m.pointer[n] = b /\ m.pointer[prev] = n
      /\ \A c \in Holder \ {n, prev} : m.pointer[c] = l.pointer[c]
  BY <1>1, <1>2
<1>4. /\ m.pprev = [c \in HlistNode |-> m.pprev[c]]
      /\ m.pprev[n] = prev /\ (b # HNull => m.pprev[b] = n)
      /\ \A c \in HlistNode \ {n, b} : m.pprev[c] = l.pprev[c]
  <2>1. CASE b = HNull
    BY <2>1, <1>1, <1>2 DEF Backward
  <2>2. CASE b # HNull
    <3>1. b \in HlistNode
      BY <2>2 DEF b
    <3> QED
      BY <2>2, <3>1, <1>1, <1>2 DEF Backward
  <2> QED
    BY <2>1, <2>2
<1>5. Linking(l, m, n, prev, b)
  BY <1>2, <1>3, <1>4 DEF Linking, Shaped
<1> QED
  BY <1>5 DEF m, b

(* Both ways to delete unlink the node; its own links become x and y.      *)
LEMMA DeleteUnlinks ==
  ASSUME NEW l, Shaped(l), NEW n \in HlistNode,
         l.pprev[n] \in Holder \ {n}, l.pointer[n] \in (HlistNode \ {n}) \cup {HNull},
         NEW m \in {HlistDel(l, n), HlistDelInit(l, n)}
  PROVE  Unlinking(l, m, n, l.pprev[n], l.pointer[n])
<1> DEFINE a == l.pprev[n]
           b == l.pointer[n]
           u == HlistUnlink(l, n)
<1>1. /\ l.pointer = [c \in Holder |-> l.pointer[c]]
      /\ l.pprev = [c \in HlistNode |-> l.pprev[c]]
      /\ n \in Holder /\ a \in Holder /\ a # n /\ b # n /\ a # HNull
  BY HlistAssumption DEF Shaped, Holder
<1>2. u.pointer = [l.pointer EXCEPT ![a] = b] /\ u.pprev = Backward(l.pprev, b, a)
  BY DEF HlistUnlink
<1>3. PICK x, y : m = [pointer |-> [u.pointer EXCEPT ![n] = x], pprev |-> [u.pprev EXCEPT ![n] = y]]
  BY <1>1 DEF HlistDel, HlistDelInit, InitHlistNode, HlistUnhashed
<1>b. b = HNull \/ b \in HlistNode
  OBVIOUS
<1> HIDE DEF a, b, u
<1>4. /\ m.pointer = [c \in Holder |-> m.pointer[c]] /\ m.pointer[a] = b
      /\ \A c \in Holder \ {n, a} : m.pointer[c] = l.pointer[c]
  BY <1>1, <1>2, <1>3
<1>5. /\ m.pprev = [c \in HlistNode |-> m.pprev[c]] /\ (b # HNull => m.pprev[b] = a)
      /\ \A c \in HlistNode \ {n, b} : m.pprev[c] = l.pprev[c]
  <2>1. CASE b = HNull
    BY <2>1, <1>1, <1>2, <1>3 DEF Backward
  <2>2. CASE b # HNull
    BY <2>2, <1>b, <1>1, <1>2, <1>3 DEF Backward
  <2> QED
    BY <2>1, <2>2
<1>6. m = [pointer |-> m.pointer, pprev |-> m.pprev]
  BY <1>3
<1>7. Unlinking(l, m, n, a, b)
  BY <1>4, <1>5, <1>6 DEF Unlinking, Shaped
<1> QED
  BY <1>7 DEF a, b

(* Inserting and removing on sequences is being longer and shorter.        *)
LEMMA InsertedLonger ==
  ASSUME NEW ls \in [HlistHead -> Seq(HlistNode)], NEW h \in HlistHead,
         NEW i \in 1 .. Len(ls[h]) + 1, NEW n \in HlistNode
  PROVE  Longer(ls, [ls EXCEPT ![h] = HInserted(ls[h], i, n)], h, i, n)
<1> DEFINE t == ls[h]
           s == HInserted(t, i, n)
<1>1. t \in Seq(HlistNode) /\ i \in 1 .. Len(t) + 1
  OBVIOUS
<1> HIDE DEF t
<1>2. OneLonger(t, s, i, n)
  BY <1>1, InsertedAt
<1> HIDE DEF s
<1> DEFINE ks == [ls EXCEPT ![h] = s]
<1>3. /\ ks \in [HlistHead -> Seq(HlistNode)]
      /\ ks[h] = s /\ \A g \in HlistHead \ {h} : ks[g] = ls[g]
  BY <1>2 DEF OneLonger
<1> HIDE DEF ks
<1>4. Longer(ls, ks, h, i, n)
  BY <1>2, <1>3 DEF OneLonger, Longer, t
<1> QED
  BY <1>4 DEF s, ks, t

LEMMA WithoutShorter ==
  ASSUME NEW ls \in [HlistHead -> Seq(HlistNode)], NEW h \in HlistHead, NEW i \in 1 .. Len(ls[h])
  PROVE  Shorter(ls, [ls EXCEPT ![h] = HWithout(ls[h], i)], h, i)
<1> DEFINE s == HWithout(ls[h], i)
<1>1. ls[h] \in Seq(HlistNode)
  OBVIOUS
<1>2. /\ s \in Seq(HlistNode) /\ Len(s) = Len(ls[h]) - 1
      /\ \A j \in 1 .. Len(ls[h]) - 1 : s[j] = IF j < i THEN ls[h][j] ELSE ls[h][j + 1]
  BY <1>1, WithoutAt
<1> HIDE DEF s
<1> DEFINE ks == [ls EXCEPT ![h] = s]
<1>3. /\ ks \in [HlistHead -> Seq(HlistNode)]
      /\ ks[h] = s /\ \A g \in HlistHead \ {h} : ks[g] = ls[g]
  BY <1>2
<1> HIDE DEF ks
<1>4. Shorter(ls, ks, h, i)
  BY <1>2, <1>3 DEF Shorter
<1> QED
  BY <1>4 DEF s, ks

-----------------------------------------------------------------------------
(* Every step keeps the invariant.                                         *)
LEMMA LooseIsOut ==
  ASSUME HlistInv, NEW n \in Unhashed
  PROVE  /\ n \in HlistNode \ fake
         /\ \A g \in HlistHead : \A j \in 1 .. Len(hlists[g]) : hlists[g][j] # n
  BY DEF Unhashed, Hashed

(* What the links of the i-th node of list h are.                          *)
LEMMA NodeLinks ==
  ASSUME NEW l, NEW ls, NEW fk, Chained(l, ls, fk), NEW h \in HlistHead, NEW s, s = ls[h],
         NEW i \in 1 .. Len(s)
  PROVE  /\ s[i] \in HlistNode \ fk
         /\ l.pprev[s[i]] = HAt(h, s, i - 1) /\ l.pointer[s[i]] = HAt(h, s, i + 1)
         /\ HAt(h, s, i - 1) \in Holder \ {s[i]}
         /\ HAt(h, s, i + 1) \in (HlistNode \ {s[i]}) \cup {HNull}
<1>1. Apart(ls, fk) /\ HRepresents(l, h, s)
  BY DEF Chained
<1>2. s \in Seq(HlistNode) /\ s[i] \notin fk
  BY <1>1 DEF Apart, Plain
<1>3. /\ Len(s) \in Nat /\ s[i] \in HlistNode /\ i - 1 \in 0 .. Len(s) /\ i \in 0 .. Len(s)
      /\ HAt(h, s, i) = s[i]
  BY <1>2 DEF HAt
<1>4. l.pprev[s[i]] = HAt(h, s, i - 1) /\ l.pointer[s[i]] = HAt(h, s, i + 1)
  BY <1>1, <1>3 DEF HRepresents
<1>5. HAt(h, s, i - 1) \in Holder /\ HAt(h, s, i - 1) # s[i]
  BY <1>1, <1>3, HolderHere, HoldersApart
<1>6. HAt(h, s, i + 1) \in HlistNode \cup {HNull}
  BY <1>2, <1>3 DEF HAt
<1>7. HAt(h, s, i + 1) # s[i]
  <2>1. CASE i + 1 \in 1 .. Len(s)
    BY <2>1, <1>1, <1>3, HoldersApart
  <2>2. CASE i + 1 \notin 1 .. Len(s)
    BY <2>2, <1>3, HlistAssumption DEF HAt
  <2> QED
    BY <2>1, <2>2
<1> QED
  BY <1>2, <1>3, <1>4, <1>5, <1>6, <1>7

LEMMA NodeHere ==
  ASSUME HlistInv, NEW h \in HlistHead, NEW i \in 1 .. Len(hlists[h])
  PROVE  LET s == hlists[h]
         IN /\ s[i] \in HlistNode \ fake
            /\ hlinks.pprev[s[i]] = HAt(h, s, i - 1) /\ hlinks.pointer[s[i]] = HAt(h, s, i + 1)
            /\ HAt(h, s, i - 1) \in Holder \ {s[i]}
            /\ HAt(h, s, i + 1) \in (HlistNode \ {s[i]}) \cup {HNull}
  BY NodeLinks DEF HlistInv

LEMMA AddHeadKeeps ==
  ASSUME HlistInv, NEW h \in HlistHead, NEW n \in Unhashed, AddHead(h, n)
  PROVE  HlistInv'
<1> DEFINE s == hlists[h]
           m == HlistAddHead(hlinks, n, h)
           ks == [hlists EXCEPT ![h] = HInserted(s, 1, n)]
<1>1. Chained(hlinks, hlists, fake) /\ Shaped(hlinks) /\ Apart(hlists, fake)
  BY DEF HlistInv, Chained
<1>2. /\ n \in HlistNode \ fake
      /\ \A g \in HlistHead : \A j \in 1 .. Len(hlists[g]) : hlists[g][j] # n
  BY LooseIsOut
<1>3. hlists \in [HlistHead -> Seq(HlistNode)]
  BY <1>1 DEF Apart
<1>4. s \in Seq(HlistNode) /\ Len(s) \in Nat /\ 1 \in 1 .. Len(s) + 1
  BY <1>3
<1>5. hlinks.pointer[h] = HAt(h, s, 1) /\ HAt(h, s, 1 - 1) = h
  BY <1>1, <1>4 DEF Chained, HRepresents, HAt
<1>6. HAt(h, s, 1) \in (HlistNode \ {n}) \cup {HNull}
  BY <1>2, <1>4 DEF HAt
<1>7. Linking(hlinks, m, n, HAt(h, s, 1 - 1), HAt(h, s, 1))
  BY <1>1, <1>2, <1>5, <1>6, HeadLinks
<1>8. Longer(hlists, ks, h, 1, n)
  BY <1>2, <1>3, <1>4, InsertedLonger
<1> HIDE DEF m, ks
<1>9. PICK k \in 1 .. Len(hlists[h]) + 1 : k = 1
  BY <1>4 DEF s
<1>10. Linking(hlinks, m, n, HAt(h, hlists[h], k - 1), HAt(h, hlists[h], k))
  BY <1>7, <1>9 DEF s
<1>11. Longer(hlists, ks, h, k, n)
  BY <1>8, <1>9
<1> HIDE DEF s
<1>12. Chained(m, ks, fake)
  BY <1>1, <1>2, <1>10, <1>11, LinkInKeeps
<1> QED
  BY <1>12 DEF HlistInv, AddHead, m, ks, s

LEMMA AddBeforeKeeps ==
  ASSUME HlistInv, NEW h \in HlistHead, NEW i \in 1 .. Len(hlists[h]), NEW n \in Unhashed,
         AddBefore(h, i, n)
  PROVE  HlistInv'
<1> DEFINE s == hlists[h]
           m == HlistAddBefore(hlinks, n, s[i])
           ks == [hlists EXCEPT ![h] = HInserted(s, i, n)]
<1>1. Chained(hlinks, hlists, fake) /\ Shaped(hlinks) /\ Apart(hlists, fake)
  BY DEF HlistInv, Chained
<1>2. /\ n \in HlistNode \ fake
      /\ \A g \in HlistHead : \A j \in 1 .. Len(hlists[g]) : hlists[g][j] # n
  BY LooseIsOut
<1>3. hlists \in [HlistHead -> Seq(HlistNode)]
  BY <1>1 DEF Apart
<1>4. s \in Seq(HlistNode) /\ Len(s) \in Nat /\ i \in 1 .. Len(s) + 1 /\ i - 1 \in 0 .. Len(s)
  BY <1>3
<1>5. /\ s[i] \in HlistNode \ {n} /\ HAt(h, s, i) = s[i]
      /\ hlinks.pprev[s[i]] = HAt(h, s, i - 1) /\ HAt(h, s, i - 1) \in Holder
  BY <1>2, NodeHere DEF HAt
<1>6. HAt(h, s, i - 1) # n
  BY <1>2, <1>4, HlistAssumption DEF HAt
<1>7. Linking(hlinks, m, n, HAt(h, s, i - 1), HAt(h, s, i))
  BY <1>1, <1>2, <1>5, <1>6, BeforeLinks
<1>8. Longer(hlists, ks, h, i, n)
  BY <1>2, <1>3, <1>4, InsertedLonger
<1> HIDE DEF m, ks
<1>9. PICK k \in 1 .. Len(hlists[h]) + 1 : k = i
  BY <1>4 DEF s
<1>10. Linking(hlinks, m, n, HAt(h, hlists[h], k - 1), HAt(h, hlists[h], k))
  BY <1>7, <1>9 DEF s
<1>11. Longer(hlists, ks, h, k, n)
  BY <1>8, <1>9
<1> HIDE DEF s
<1>12. Chained(m, ks, fake)
  BY <1>1, <1>2, <1>10, <1>11, LinkInKeeps
<1> QED
  BY <1>12 DEF HlistInv, AddBefore, m, ks, s

LEMMA AddBehindKeeps ==
  ASSUME HlistInv, NEW h \in HlistHead, NEW i \in 1 .. Len(hlists[h]), NEW n \in Unhashed,
         AddBehind(h, i, n)
  PROVE  HlistInv'
<1> DEFINE s == hlists[h]
           m == HlistAddBehind(hlinks, n, s[i])
           ks == [hlists EXCEPT ![h] = HInserted(s, i + 1, n)]
<1>1. Chained(hlinks, hlists, fake) /\ Shaped(hlinks) /\ Apart(hlists, fake)
  BY DEF HlistInv, Chained
<1>2. /\ n \in HlistNode \ fake
      /\ \A g \in HlistHead : \A j \in 1 .. Len(hlists[g]) : hlists[g][j] # n
  BY LooseIsOut
<1>3. hlists \in [HlistHead -> Seq(HlistNode)]
  BY <1>1 DEF Apart
<1>4. s \in Seq(HlistNode) /\ Len(s) \in Nat /\ i + 1 \in 1 .. Len(s) + 1 /\ i + 1 - 1 = i
  BY <1>3
<1>5. /\ s[i] \in HlistNode \ {n} /\ HAt(h, s, i) = s[i]
      /\ hlinks.pointer[s[i]] = HAt(h, s, i + 1) /\ HAt(h, s, i + 1) \in HlistNode \cup {HNull}
  BY <1>2, NodeHere DEF HAt
<1>6. HAt(h, s, i + 1) # n
  BY <1>2, <1>4, HlistAssumption DEF HAt
<1>7. Linking(hlinks, m, n, HAt(h, s, i + 1 - 1), HAt(h, s, i + 1))
  BY <1>1, <1>2, <1>4, <1>5, <1>6, BehindLinks
<1>8. Longer(hlists, ks, h, i + 1, n)
  BY <1>2, <1>3, <1>4, InsertedLonger
<1> HIDE DEF m, ks
<1>9. PICK k \in 1 .. Len(hlists[h]) + 1 : k = i + 1
  BY <1>4 DEF s
<1>10. Linking(hlinks, m, n, HAt(h, hlists[h], k - 1), HAt(h, hlists[h], k))
  BY <1>7, <1>9 DEF s
<1>11. Longer(hlists, ks, h, k, n)
  BY <1>8, <1>9
<1> HIDE DEF s
<1>12. Chained(m, ks, fake)
  BY <1>1, <1>2, <1>10, <1>11, LinkInKeeps
<1> QED
  BY <1>12 DEF HlistInv, AddBehind, m, ks, s

(* Both ways to delete take one node off its list and leave the others.    *)
LEMMA HDelKeeps ==
  ASSUME NEW l, NEW ls, NEW fk, Chained(l, ls, fk), NEW h \in HlistHead, NEW s, s = ls[h],
         NEW i \in 1 .. Len(s), NEW m \in {HlistDel(l, s[i]), HlistDelInit(l, s[i])}
  PROVE  Chained(m, [ls EXCEPT ![h] = HWithout(s, i)], fk)
<1>1. Shaped(l) /\ ls \in [HlistHead -> Seq(HlistNode)]
  BY DEF Chained, Apart
<1>2. Shorter(ls, [ls EXCEPT ![h] = HWithout(s, i)], h, i)
  BY <1>1, WithoutShorter
<1>3. /\ s[i] \in HlistNode
      /\ l.pprev[s[i]] = HAt(h, s, i - 1) /\ l.pointer[s[i]] = HAt(h, s, i + 1)
      /\ HAt(h, s, i - 1) \in Holder \ {s[i]}
      /\ HAt(h, s, i + 1) \in (HlistNode \ {s[i]}) \cup {HNull}
  BY NodeLinks
<1>4. Unlinking(l, m, s[i], HAt(h, s, i - 1), HAt(h, s, i + 1))
  BY <1>1, <1>3, DeleteUnlinks
<1> QED
  BY <1>2, <1>4, UnlinkKeeps

LEMMA HDeleteKeeps ==
  ASSUME HlistInv, NEW h \in HlistHead, NEW i \in 1 .. Len(hlists[h]), HDelete(h, i)
  PROVE  HlistInv'
<1> DEFINE s == hlists[h]
           ks == [hlists EXCEPT ![h] = HWithout(s, i)]
<1>1. PICK m \in {HlistDel(hlinks, s[i]), HlistDelInit(hlinks, s[i])} :
        hlinks' = m /\ hlists' = ks /\ fake' = fake
  BY DEF HDelete
<1>2. Chained(m, ks, fake)
  BY HDelKeeps DEF HlistInv
<1> HIDE DEF ks
<1> QED
  BY <1>1, <1>2 DEF HlistInv

(* The stores to a node that is on no list stay in it.                     *)
LEMMA LooseKeeps ==
  ASSUME HlistInv, NEW n \in Unhashed, InitNode(n) \/ AddFake(n) \/ DeleteUnhashed(n)
  PROVE  HlistInv'
<1>1. Chained(hlinks, hlists, fake) /\ Shaped(hlinks)
  BY DEF HlistInv, Chained
<1>2. /\ n \in HlistNode \ fake /\ n \in Holder
      /\ \A g \in HlistHead : \A j \in 1 .. Len(hlists[g]) : hlists[g][j] # n
  BY LooseIsOut DEF Holder
<1>3. /\ hlists' = hlists /\ fake' \subseteq fake \cup {n}
      /\ Shaped(hlinks')
      /\ \A c \in Holder \ {n} : hlinks'.pointer[c] = hlinks.pointer[c]
      /\ \A c \in HlistNode \ {n} : hlinks'.pprev[c] = hlinks.pprev[c]
      /\ n \in fake' => hlinks'.pprev[n] = n /\ hlinks'.pointer[n] = HNull
  <2>1. CASE InitNode(n)
    BY <2>1, <1>1, <1>2 DEF InitNode, InitHlistNode, Shaped
  <2>2. CASE AddFake(n)
    BY <2>2, <1>1, <1>2 DEF AddFake, HlistAddFake, Shaped
  <2>3. CASE DeleteUnhashed(n)
    BY <2>3, <1>1, <1>2 DEF DeleteUnhashed, HlistDelInit
  <2> QED
    BY <2>1, <2>2, <2>3
<1>4. Chained(hlinks', hlists, fake')
  BY <1>1, <1>2, <1>3, LooseNode
<1> QED
  BY <1>3, <1>4 DEF HlistInv

LEMMA DeleteFakeKeeps ==
  ASSUME HlistInv, NEW n \in fake, DeleteFake(n)
  PROVE  HlistInv'
<1>1. Chained(hlinks, hlists, fake) /\ Shaped(hlinks) /\ Apart(hlists, fake)
  BY DEF HlistInv, Chained
<1>2. /\ n \in HlistNode /\ n \in Holder /\ n # HNull
      /\ hlinks.pprev[n] = n /\ hlinks.pointer[n] = HNull
  BY <1>1, HlistAssumption DEF Chained, Apart, Holder
<1>3. \A g \in HlistHead : \A j \in 1 .. Len(hlists[g]) : hlists[g][j] # n
  BY <1>1 DEF Apart, Plain
<1>4. PICK x, y :
        hlinks' = [pointer |-> [[hlinks.pointer EXCEPT ![n] = HNull] EXCEPT ![n] = x],
                   pprev |-> [hlinks.pprev EXCEPT ![n] = y]]
  BY <1>2 DEF DeleteFake, HlistDel, HlistDelInit, HlistUnlink, HlistUnhashed, InitHlistNode, Backward
<1>5. /\ Shaped(hlinks')
      /\ \A c \in Holder \ {n} : hlinks'.pointer[c] = hlinks.pointer[c]
      /\ \A c \in HlistNode \ {n} : hlinks'.pprev[c] = hlinks.pprev[c]
  BY <1>1, <1>2, <1>4 DEF Shaped
<1>6. fake' \subseteq fake \cup {n} /\ n \notin fake' /\ hlists' = hlists
  BY DEF DeleteFake
<1>7. Chained(hlinks', hlists, fake')
  BY <1>1, <1>2, <1>3, <1>5, <1>6, LooseNode
<1> QED
  BY <1>6, <1>7 DEF HlistInv

-----------------------------------------------------------------------------
(* The invariant holds at first, every step keeps it, and it says more     *)
(* than HlistsLinked.                                                      *)
LEMMA HlistInvInit == HlistInit => HlistInv
<1> SUFFICES ASSUME HlistInit PROVE HlistInv
  OBVIOUS
<1>1. /\ hlists \in [HlistHead -> Seq(HlistNode)]
      /\ \A h \in HlistHead : hlists[h] = <<>> /\ Len(hlists[h]) = 0
      /\ fake = {}
  BY DEF HlistInit
<1>2. Apart(hlists, fake)
  BY <1>1 DEF Apart, Once, Plain
<1>3. Shaped(hlinks) /\ \A c \in Holder : hlinks.pointer[c] = HNull
  BY DEF HlistInit, Shaped
<1>4. ASSUME NEW h \in HlistHead
      PROVE  HRepresents(hlinks, h, hlists[h])
  <2>1. Len(hlists[h]) = 0 /\ h \in Holder
    BY <1>1 DEF Holder
  <2>2. HAt(h, hlists[h], 0) = h /\ HAt(h, hlists[h], 0 + 1) = HNull
    BY <2>1 DEF HAt
  <2>3. \A j \in 0 .. Len(hlists[h]) : j = 0
    BY <2>1
  <2>4. \A j \in 1 .. Len(hlists[h]) : FALSE
    BY <2>1
  <2> QED
    BY <2>1, <2>2, <2>3, <2>4, <1>3 DEF HRepresents
<1> QED
  BY <1>1, <1>2, <1>3, <1>4 DEF HlistInv, Chained

LEMMA HlistInvNext == HlistInv /\ [HlistNext]_hlistVars => HlistInv'
<1> SUFFICES ASSUME HlistInv, [HlistNext]_hlistVars PROVE HlistInv'
  OBVIOUS
<1>1. ASSUME NEW n \in Unhashed, InitNode(n) \/ AddFake(n) \/ DeleteUnhashed(n) PROVE HlistInv'
  BY <1>1, LooseKeeps
<1>2. ASSUME NEW n \in fake, DeleteFake(n) PROVE HlistInv'
  BY <1>2, DeleteFakeKeeps
<1>3. ASSUME NEW h \in HlistHead, NEW n \in Unhashed, AddHead(h, n) PROVE HlistInv'
  BY <1>3, AddHeadKeeps
<1>4. ASSUME NEW h \in HlistHead, NEW g \in HlistHead \ {h}, MoveList(h, g) PROVE HlistInv'
  BY <1>4, MovedList DEF HlistInv, MoveList
<1>5. ASSUME NEW h \in HlistHead, NEW i \in 1 .. Len(hlists[h]), HDelete(h, i) PROVE HlistInv'
  BY <1>5, HDeleteKeeps
<1>6. ASSUME NEW h \in HlistHead, NEW i \in 1 .. Len(hlists[h]), NEW n \in Unhashed, AddBefore(h, i, n)
      PROVE  HlistInv'
  BY <1>6, AddBeforeKeeps
<1>7. ASSUME NEW h \in HlistHead, NEW i \in 1 .. Len(hlists[h]), NEW n \in Unhashed, AddBehind(h, i, n)
      PROVE  HlistInv'
  BY <1>7, AddBehindKeeps
<1>8. CASE UNCHANGED hlistVars
  BY <1>8 DEF HlistInv, hlistVars
<1> QED
  BY <1>1, <1>2, <1>3, <1>4, <1>5, <1>6, <1>7, <1>8 DEF HlistNext

LEMMA HlistInvLinks == HlistInv => HlistsLinked
<1> SUFFICES ASSUME HlistInv PROVE HlistsLinked
  OBVIOUS
<1>1. /\ \A h \in HlistHead : HRepresents(hlinks, h, hlists[h])
      /\ \A c \in fake : hlinks.pprev[c] = c /\ hlinks.pointer[c] = HNull
      /\ Apart(hlists, fake)
  BY DEF HlistInv, Chained
<1>2. \A h \in HlistHead : hlists[h] \in Seq(HlistNode)
  BY <1>1 DEF Apart
<1>3. ASSUME NEW n \in Hashed, NEW h \in HlistHead
      PROVE  /\ HlistFake(hlinks, n) <=> n \in fake
             /\ HlistIsSingularNode(hlinks, n, h) <=> hlists[h] = <<n>>
  <2>1. CASE n \in fake
    <3>1. hlinks.pprev[n] = n /\ n # h
      BY <1>1, <2>1, HlistAssumption DEF Apart
    <3>2. hlists[h] # <<n>>
      <4>1. hlists[h] = <<n>> => 1 \in 1 .. Len(hlists[h]) /\ hlists[h][1] = n
        OBVIOUS
      <4> QED
        BY <4>1, <1>1, <2>1 DEF Apart, Plain
    <3> QED
      BY <2>1, <3>1, <3>2 DEF HlistFake, HlistIsSingularNode
  <2>2. CASE n \notin fake
    <3>0. PICK g \in HlistHead : \E i \in 1 .. Len(hlists[g]) : n = hlists[g][i]
      BY <2>2 DEF Hashed
    <3>1. PICK i \in 1 .. Len(hlists[g]) : n = hlists[g][i]
      BY <3>0
    <3> DEFINE s == hlists[g]
    <3>2. /\ hlinks.pprev[n] = HAt(g, s, i - 1) /\ hlinks.pointer[n] = HAt(g, s, i + 1)
          /\ HAt(g, s, i - 1) # n
      BY <3>1, NodeHere
    <3>3. Len(s) \in Nat /\ s \in Seq(HlistNode)
      BY <1>2
    <3>4. HAt(g, s, i + 1) = HNull <=> i = Len(s)
      BY <3>3, HlistAssumption DEF HAt
    <3>5. HAt(g, s, i - 1) = h <=> g = h /\ i = 1
      <4>1. i - 1 \in 0 .. Len(s) /\ 0 \in 0 .. Len(hlists[h]) /\ HAt(h, hlists[h], 0) = h
        BY <1>2, <3>3 DEF HAt
      <4>2. HAt(g, s, i - 1) = h => g = h /\ i - 1 = 0
        BY <4>1, <1>1, HoldersApart
      <4> QED
        BY <4>2 DEF HAt
    <3>6. g = h /\ i = 1 /\ i = Len(s) => hlists[h] = <<n>>
      BY <3>1, <3>3
    <3>7. hlists[h] = <<n>> => g = h /\ i = 1 /\ i = Len(s)
      <4>0. \A j \in 1 .. Len(hlists[h]) : hlists[g][i] = hlists[h][j] => g = h /\ i = j
        BY <1>1 DEF Apart, Once
      <4> SUFFICES ASSUME hlists[h] = <<n>> PROVE g = h /\ i = 1 /\ i = Len(s)
        OBVIOUS
      <4>1. 1 \in 1 .. Len(hlists[h]) /\ hlists[h][1] = n /\ Len(hlists[h]) = 1
        OBVIOUS
      <4>2. hlists[g][i] = hlists[h][1]
        BY <4>1, <3>1
      <4>3. g = h /\ i = 1
        BY <4>0, <4>1, <4>2
      <4> QED
        BY <4>1, <4>3
    <3>8. HlistIsSingularNode(hlinks, n, h) <=> hlists[h] = <<n>>
      BY <3>2, <3>4, <3>5, <3>6, <3>7 DEF HlistIsSingularNode
    <3>9. hlinks.pprev[n] # n
      BY <3>2
    <3> QED
      BY <2>2, <3>8, <3>9 DEF HlistFake
  <2> QED
    BY <2>1, <2>2
<1> QED
  <2>1. \A n \in Hashed : /\ HlistFake(hlinks, n) <=> n \in fake
                          /\ \A h \in HlistHead : HlistIsSingularNode(hlinks, n, h) <=> hlists[h] = <<n>>
    <3> SUFFICES ASSUME NEW n \in Hashed
                 PROVE  HlistFake(hlinks, n) <=> n \in fake
      BY <1>3
    <3>1. CASE n \in fake
      BY <3>1, <1>1 DEF HlistFake
    <3>2. CASE n \notin fake
      BY <3>2, <1>3 DEF Hashed
    <3> QED
      BY <3>1, <3>2
  <2> QED
    BY <2>1, <1>1 DEF HlistsLinked

(* Whatever calls are made, and on however many heads and nodes, each head *)
(* of list.h leads to the nodes and in the order the calls mean, every     *)
(* pprev is the address of the pointer that leads to its node, and         *)
(* hlist_fake and hlist_is_singular_node answer rightly.                   *)
THEOREM HlistsAlwaysLinked == HlistSpec => []HlistsLinked
<1>1. HlistSpec => []HlistInv
  BY HlistInvInit, HlistInvNext, PTL DEF HlistSpec
<1> QED
  BY <1>1, HlistInvLinks, PTL

-----------------------------------------------------------------------------
(***************************************************************************)
(* The doubly linked lists.  An entry that is on no list may hold          *)
(* anything; the operations are made of four: a head is initialised, a     *)
(* chain is taken out of a ring, a chain is put into one, an entry on no   *)
(* list is written to.                                                     *)
(***************************************************************************)
Mem(l) == l.next = [c \in Cell |-> l.next[c]] /\ l.prev = [c \in Cell |-> l.prev[c]]

(* The memory l and the sequences ls agree on the live heads lv.           *)
Agree(l, ls, lv) ==
  /\ Mem(l)
  /\ ls \in [ListHead -> Seq(ListEntry)]
  /\ lv \subseteq ListHead
  /\ \A h \in lv : Represents(l, h, ls[h])

ListInv == Agree(links, lists, live)

(* Outside C the memories l and m are the same.                            *)
SameOff(l, m, C) == \A c \in Cell \ C : m.next[c] = l.next[c] /\ m.prev[c] = l.prev[c]

(* None of the cells C is of the ring of h.                                *)
Clear(h, s, C) == \A x \in 0 .. Len(s) : At(h, s, x) \notin C

(* The entries r are a chain, and on no list.                              *)
Loose(l, ls, lv, r) ==
  /\ r \in Seq(ListEntry) /\ Len(r) > 0
  /\ \A x, y \in 1 .. Len(r) : r[x] = r[y] => x = y
  /\ \A x \in 1 .. Len(r) - 1 : l.next[r[x]] = r[x + 1] /\ l.prev[r[x + 1]] = r[x]
  /\ \A h \in lv : \A x \in 1 .. Len(ls[h]), y \in 1 .. Len(r) : ls[h][x] # r[y]

(* m is l with the chain from first to last put between a and b.           *)
Linked(l, m, a, first, last, b) ==
  /\ Mem(m)
  /\ m.next[a] = first /\ m.prev[first] = a /\ m.next[last] = b /\ m.prev[b] = last
  /\ \A c \in Cell : /\ c \notin {a, last} => m.next[c] = l.next[c]
                     /\ c \notin {first, b} => m.prev[c] = l.prev[c]

(* t is s without the elements from i to j, or with r behind the k-th.     *)
TakenOut(s, i, j, t) ==
  /\ t \in Seq(ListEntry) /\ Len(t) = Len(s) - (j - i + 1)
  /\ \A x \in 1 .. Len(t) : t[x] = IF x < i THEN s[x] ELSE s[x + (j - i + 1)]

PutIn(s, k, r, t) ==
  /\ t \in Seq(ListEntry) /\ Len(t) = Len(s) + Len(r)
  /\ \A x \in 1 .. Len(t) : t[x] = IF x <= k THEN s[x]
                                   ELSE IF x <= k + Len(r) THEN r[x - k] ELSE s[x - Len(r)]

-----------------------------------------------------------------------------
LEMMA Positions ==
  ASSUME NEW h \in ListHead, NEW s \in Seq(ListEntry)
  PROVE  /\ Len(s) \in Nat /\ h \notin ListEntry /\ h \in Cell
         /\ At(h, s, 0) = h /\ At(h, s, Len(s) + 1) = h
         /\ \A x \in 1 .. Len(s) : At(h, s, x) = s[x] /\ s[x] \in ListEntry /\ s[x] \in Cell
         /\ \A x \in Int : At(h, s, x) \in Cell
<1>1. Len(s) \in Nat /\ h \notin ListEntry /\ h \in Cell
  BY ListAssumption DEF Cell
<1>2. At(h, s, 0) = h /\ At(h, s, Len(s) + 1) = h
  BY <1>1 DEF At
<1>3. \A x \in 1 .. Len(s) : At(h, s, x) = s[x] /\ s[x] \in ListEntry /\ s[x] \in Cell
  BY ElementOfSeq DEF At, Cell
<1>4. \A x \in Int : At(h, s, x) \in Cell
  BY <1>1, <1>3 DEF At
<1> QED
  BY <1>1, <1>2, <1>3, <1>4

LEMMA LeastOf ==
  ASSUME NEW T, T \subseteq Nat, T # {}
  PROVE  \E x \in T : \A y \in T : x <= y
<1> DEFINE Upto == {0 .. n : n \in T}
           R == StrictSubsetOrdering(Nat)
           F == FiniteSubsetsOf(Nat)
<1>1. Upto \subseteq F /\ Upto # {}
  <2>1. ASSUME NEW n \in T
        PROVE  0 .. n \in F
    <3>1. n \in Nat /\ 0 .. n \subseteq Nat
      OBVIOUS
    <3>2. IsFiniteSet(0 .. n)
      BY <3>1, FS_Interval
    <3> QED
      BY <3>1, <3>2 DEF FiniteSubsetsOf
  <2> HIDE DEF F
  <2> QED
    BY <2>1
<1>2. \E b \in Upto : \A c \in Upto : ~(<<c, b>> \in R)
  <2>1. IsWellFoundedOn(R, F)
    BY FS_StrictSubsetOrderingWellFounded
  <2> HIDE DEF Upto, R, F
  <2> QED
    BY <1>1, <2>1, WFMin
<1>3. PICK x \in T : \A y \in T : ~(<<0 .. y, 0 .. x>> \in R)
  BY <1>2
<1>4. ASSUME NEW y \in T, y < x
      PROVE  <<0 .. y, 0 .. x>> \in R
  <2>1. 0 .. y \subseteq 0 .. x /\ x \notin 0 .. y /\ x \in 0 .. x
    BY <1>4
  <2> QED
    BY <2>1 DEF StrictSubsetOrdering
<1> HIDE DEF Upto, R, F
<1>5. ASSUME NEW y \in T
      PROVE  x <= y
  <2>1. x \in Nat /\ y \in Nat
    OBVIOUS
  <2>2. ~(y < x)
    BY <1>3, <1>4
  <2> QED
    BY <2>1, <2>2
<1> QED
  BY <1>5

LEMMA NextPlace ==
  ASSUME NEW l, NEW ls, NEW lv, Agree(l, ls, lv), NEW h \in lv, NEW g \in lv,
         NEW i \in 1 .. Len(ls[h]), NEW j \in 1 .. Len(ls[g]), ls[h][i] = ls[g][j],
         ~(h = g /\ i = j)
  PROVE  /\ Len(ls[h]) \in Nat /\ i + 1 \in 1 .. Len(ls[h]) /\ j + 1 \in 1 .. Len(ls[g])
         /\ ls[h][i + 1] = ls[g][j + 1]
<1>1. PICK s \in Seq(ListEntry), t \in Seq(ListEntry) : s = ls[h] /\ t = ls[g]
  BY DEF Agree
<1>2. h \in ListHead /\ g \in ListHead /\ Len(s) \in Nat /\ Len(t) \in Nat
  BY DEF Agree
<1>3. i \in 1 .. Len(s) /\ j \in 1 .. Len(t) /\ i \in 0 .. Len(s) /\ j \in 0 .. Len(t) /\ s[i] = t[j]
  BY <1>1, <1>2
<1>4. Represents(l, h, s) /\ Represents(l, g, t)
  BY <1>1 DEF Agree
<1>5. l.next[At(h, s, i)] = At(h, s, i + 1) /\ l.next[At(g, t, j)] = At(g, t, j + 1)
  BY <1>3, <1>4 DEF Represents
<1>6. At(h, s, i) = At(g, t, j)
  BY <1>3 DEF At
<1>7. At(h, s, i + 1) = At(g, t, j + 1)
  BY <1>5, <1>6
<1>8. h \notin ListEntry /\ g \notin ListEntry
  BY <1>2, Positions
<1>9. CASE i + 1 \in 1 .. Len(s) /\ j + 1 \in 1 .. Len(t)
  BY <1>1, <1>2, <1>7, <1>9 DEF At
<1>10. CASE i + 1 \in 1 .. Len(s) /\ j + 1 \notin 1 .. Len(t)
  <2>1. s[i + 1] = g /\ s[i + 1] \in ListEntry
    BY <1>7, <1>10, ElementOfSeq DEF At
  <2> QED
    BY <2>1, <1>8
<1>11. CASE i + 1 \notin 1 .. Len(s) /\ j + 1 \in 1 .. Len(t)
  <2>1. t[j + 1] = h /\ t[j + 1] \in ListEntry
    BY <1>7, <1>11, ElementOfSeq DEF At
  <2> QED
    BY <2>1, <1>8
<1>12. CASE i + 1 \notin 1 .. Len(s) /\ j + 1 \notin 1 .. Len(t)
  <2>1. h = g
    BY <1>7, <1>12 DEF At
  <2>2. i = Len(s) /\ j = Len(t)
    BY <1>2, <1>3, <1>12
  <2> QED
    BY <2>1, <2>2, <1>1
<1> QED
  BY <1>9, <1>10, <1>11, <1>12

(* What the header asks of its callers follows from the rings: of two      *)
(* places of one entry the next pointers lead to two places of one entry,  *)
(* and so on, until they lead to a head.                                   *)
LEMMA OnlyOnce ==
  ASSUME NEW l, NEW ls, NEW lv, Agree(l, ls, lv)
  PROVE  \A h, g \in lv : \A i \in 1 .. Len(ls[h]), j \in 1 .. Len(ls[g]) :
           ls[h][i] = ls[g][j] => h = g /\ i = j
<1> DEFINE Twice(n) == \E h, g \in lv : \E i \in 1 .. Len(ls[h]), j \in 1 .. Len(ls[g]) :
                         n = Len(ls[h]) - i /\ ls[h][i] = ls[g][j] /\ ~(h = g /\ i = j)
           T == {n \in Nat : Twice(n)}
<1>1. ASSUME NEW n \in Nat, Twice(n)
      PROVE  n - 1 \in Nat /\ Twice(n - 1)
  <2>1. PICK h \in lv, g \in lv : \E i \in 1 .. Len(ls[h]), j \in 1 .. Len(ls[g]) :
          n = Len(ls[h]) - i /\ ls[h][i] = ls[g][j] /\ ~(h = g /\ i = j)
    BY <1>1
  <2>2. PICK i \in 1 .. Len(ls[h]), j \in 1 .. Len(ls[g]) :
          n = Len(ls[h]) - i /\ ls[h][i] = ls[g][j] /\ ~(h = g /\ i = j)
    BY <2>1
  <2> HIDE DEF Twice, T
  <2>3. /\ Len(ls[h]) \in Nat /\ i + 1 \in 1 .. Len(ls[h]) /\ j + 1 \in 1 .. Len(ls[g])
        /\ ls[h][i + 1] = ls[g][j + 1]
    BY <2>2, NextPlace
  <2>4. n - 1 = Len(ls[h]) - (i + 1) /\ n - 1 \in Nat /\ ~(h = g /\ i + 1 = j + 1)
    BY <2>2, <2>3
  <2>5. PICK x \in 1 .. Len(ls[h]), y \in 1 .. Len(ls[g]) : x = i + 1 /\ y = j + 1
    BY <2>3
  <2>6. ls[h][x] = ls[g][y] /\ n - 1 = Len(ls[h]) - x /\ ~(h = g /\ x = y)
    BY <2>3, <2>4, <2>5
  <2> QED
    BY <2>4, <2>6 DEF Twice
<1>2. T = {}
  <2> SUFFICES ASSUME T # {} PROVE FALSE
    OBVIOUS
  <2>1. T \subseteq Nat /\ \A n \in T : n - 1 \in T
    BY <1>1
  <2> HIDE DEF T, Twice
  <2>2. PICK n \in T : \A m \in T : n <= m
    BY <2>1, LeastOf
  <2> QED
    BY <2>1, <2>2
<1>3. ASSUME NEW h \in lv, NEW g \in lv, NEW i \in 1 .. Len(ls[h]), NEW j \in 1 .. Len(ls[g]),
             ls[h][i] = ls[g][j], ~(h = g /\ i = j)
      PROVE  FALSE
  <2>1. Len(ls[h]) - i \in Nat
    <3>1. Len(ls[h]) \in Nat
      BY <1>3, NextPlace
    <3> QED
      BY <3>1
  <2>2. Twice(Len(ls[h]) - i)
    BY <1>3
  <2> HIDE DEF Twice
  <2>3. Len(ls[h]) - i \in T
    BY <2>1, <2>2
  <2> HIDE DEF T
  <2> QED
    BY <2>3, <1>2
<1> QED
  BY <1>3

(* The cells of the rings are all different.                               *)
LEMMA CellsDiffer ==
  ASSUME NEW l, NEW ls, NEW lv, Agree(l, ls, lv), NEW h \in lv, NEW g \in lv
  PROVE  /\ \A x \in 0 .. Len(ls[h]), y \in 0 .. Len(ls[g]) :
              At(h, ls[h], x) = At(g, ls[g], y) => h = g /\ x = y
         /\ \A x, y \in 1 .. Len(ls[h]) + 1 : At(h, ls[h], x) = At(h, ls[h], y) => x = y
<1>1. PICK s \in Seq(ListEntry), t \in Seq(ListEntry) : s = ls[h] /\ t = ls[g]
  BY DEF Agree
<1>2. h \in ListHead /\ g \in ListHead /\ Len(s) \in Nat /\ Len(t) \in Nat
  BY DEF Agree
<1>3. ASSUME NEW x \in 0 .. Len(s), NEW y \in 0 .. Len(t), At(h, s, x) = At(g, t, y)
      PROVE  h = g /\ x = y
  <2>1. CASE x = 0 \/ y = 0
    BY <2>1, <1>2, <1>3, Positions DEF At
  <2>2. CASE x \in 1 .. Len(s) /\ y \in 1 .. Len(t)
    BY <2>2, <1>1, <1>2, <1>3, Positions, OnlyOnce
  <2> QED
    BY <2>1, <2>2
<1>4. ASSUME NEW x \in 1 .. Len(s) + 1, NEW y \in 1 .. Len(s) + 1, At(h, s, x) = At(h, s, y)
      PROVE  x = y
  <2>1. CASE x = Len(s) + 1 \/ y = Len(s) + 1
    BY <2>1, <1>2, <1>4, Positions DEF At
  <2>2. CASE x \in 1 .. Len(s) /\ y \in 1 .. Len(s)
    BY <2>2, <1>1, <1>2, <1>4, Positions, OnlyOnce
  <2> QED
    BY <2>1, <2>2, <1>2
<1> QED
  BY <1>1, <1>3, <1>4

LEMMA RingKept ==
  ASSUME NEW l, NEW m, NEW C, SameOff(l, m, C), NEW h \in ListHead, NEW s \in Seq(ListEntry),
         Represents(l, h, s), Clear(h, s, C)
  PROVE  Represents(m, h, s)
<1>1. Clear(h, s, C) /\ At(h, s, Len(s) + 1) \notin C /\ Len(s) \in Nat
  <2>1. Len(s) \in Nat /\ At(h, s, 0) = h /\ At(h, s, Len(s) + 1) = h
    BY Positions
  <2> QED
    BY <2>1 DEF Clear
<1>2. ASSUME NEW x \in 0 .. Len(s)
      PROVE  /\ m.next[At(h, s, x)] = At(h, s, x + 1)
             /\ m.prev[At(h, s, x + 1)] = At(h, s, x)
  <2>1. At(h, s, x) \notin C /\ At(h, s, x + 1) \notin C
    <3>1. x + 1 \in 0 .. Len(s) \/ x + 1 = Len(s) + 1
      BY <1>1
    <3> QED
      BY <3>1, <1>1 DEF Clear
  <2>2. At(h, s, x) \in Cell /\ At(h, s, x + 1) \in Cell
    BY Positions
  <2> QED
    BY <2>1, <2>2 DEF SameOff, Represents
<1> QED
  BY <1>2 DEF Represents

LEMMA AgreeOff ==
  ASSUME NEW l, NEW ls, NEW lv, Agree(l, ls, lv), NEW m, Mem(m), NEW C, SameOff(l, m, C),
         \A h \in lv : Clear(h, ls[h], C)
  PROVE  Agree(m, ls, lv)
<1>1. ASSUME NEW h \in lv
      PROVE  Represents(m, h, ls[h])
  <2>1. h \in ListHead /\ ls[h] \in Seq(ListEntry) /\ Represents(l, h, ls[h]) /\ Clear(h, ls[h], C)
    BY DEF Agree
  <2> QED
    BY <2>1, RingKept
<1> QED
  BY <1>1 DEF Agree

(* One ring changes, the others do not touch the cells C.                  *)
LEMMA AgreeWith ==
  ASSUME NEW l, NEW ls, NEW lv, Agree(l, ls, lv), NEW m, Mem(m), NEW C, SameOff(l, m, C),
         NEW h \in ListHead, NEW t \in Seq(ListEntry), Represents(m, h, t),
         \A g \in lv : g # h => Clear(g, ls[g], C)
  PROVE  Agree(m, [ls EXCEPT ![h] = t], lv \cup {h})
<1> DEFINE ns == [ls EXCEPT ![h] = t]
<1>1. ns \in [ListHead -> Seq(ListEntry)] /\ ns[h] = t /\ \A g \in ListHead : g # h => ns[g] = ls[g]
  BY DEF Agree
<1> HIDE DEF ns
<1>2. ASSUME NEW g \in lv, g # h
      PROVE  Represents(m, g, ns[g])
  <2>1. /\ g \in ListHead /\ ls[g] \in Seq(ListEntry) /\ Represents(l, g, ls[g])
        /\ Clear(g, ls[g], C)
    BY <1>2 DEF Agree
  <2>2. Represents(m, g, ls[g])
    BY <2>1, RingKept
  <2> QED
    BY <1>1, <1>2, <2>1, <2>2
<1>3. lv \subseteq ListHead
  BY DEF Agree
<1>4. \A g \in lv \cup {h} : Represents(m, g, ns[g])
  BY <1>1, <1>2
<1>5. Agree(m, ns, lv \cup {h})
  BY <1>1, <1>3, <1>4 DEF Agree
<1> QED
  BY <1>5 DEF ns

(* A new head, or one that is emptied.                                     *)
LEMMA NewRing ==
  ASSUME NEW l, NEW ls, NEW lv, Agree(l, ls, lv), NEW m, Mem(m), NEW C, SameOff(l, m, C),
         NEW h \in ListHead, m.next[h] = h, m.prev[h] = h,
         \A g \in lv : g # h => Clear(g, ls[g], C)
  PROVE  Agree(m, [ls EXCEPT ![h] = <<>>], lv \cup {h})
<1>1. <<>> \in Seq(ListEntry) /\ Len(<<>>) = 0
  BY EmptySeq
<1>2. Represents(m, h, <<>>)
  <2>1. ASSUME NEW x \in 0 .. Len(<<>>)
        PROVE  m.next[At(h, <<>>, x)] = At(h, <<>>, x + 1) /\ m.prev[At(h, <<>>, x + 1)] = At(h, <<>>, x)
    <3>1. x = 0 /\ x \notin 1 .. 0 /\ x + 1 \notin 1 .. 0
      BY <1>1
    <3>2. At(h, <<>>, x) = h /\ At(h, <<>>, x + 1) = h
      BY <3>1, <1>1 DEF At
    <3> QED
      BY <3>2
  <2> QED
    BY <2>1 DEF Represents
<1> QED
  BY <1>1, <1>2, AgreeWith

LEMMA InitRing ==
  ASSUME NEW l, NEW ls, NEW lv, Agree(l, ls, lv), NEW h \in ListHead
  PROVE  Agree(InitListHead(l, h), [ls EXCEPT ![h] = <<>>], lv \cup {h})
<1> DEFINE m == InitListHead(l, h)
<1>1. Mem(m) /\ SameOff(l, m, {h}) /\ m.next[h] = h /\ m.prev[h] = h
  BY DEF Agree, Mem, SameOff, InitListHead, Cell
<1> HIDE DEF m
<1>2. ASSUME NEW g \in lv, g # h
      PROVE  Clear(g, ls[g], {h})
  <2>1. /\ g \in ListHead /\ ls[g] \in Seq(ListEntry)
    BY DEF Agree
  <2>2. ASSUME NEW x \in 0 .. Len(ls[g])
        PROVE  At(g, ls[g], x) # h
    BY <1>2, <2>1, Positions DEF At
  <2> QED
    BY <2>2 DEF Clear
<1>3. Agree(m, [ls EXCEPT ![h] = <<>>], lv \cup {h})
  BY <1>1, <1>2, NewRing
<1> QED
  BY <1>3 DEF m

(* A list that is a list no more.                                          *)
LEMMA DropRing ==
  ASSUME NEW l, NEW ls, NEW lv, Agree(l, ls, lv), NEW h \in ListHead, NEW t \in Seq(ListEntry)
  PROVE  Agree(l, [ls EXCEPT ![h] = t], lv \ {h})
<1> DEFINE ns == [ls EXCEPT ![h] = t]
<1>1. ns \in [ListHead -> Seq(ListEntry)] /\ \A g \in ListHead : g # h => ns[g] = ls[g]
  BY DEF Agree
<1> HIDE DEF ns
<1>2. Agree(l, ns, lv \ {h})
  BY <1>1 DEF Agree
<1> QED
  BY <1>2 DEF ns

LEMMA DroppedLoose ==
  ASSUME NEW l, NEW ls, NEW lv, Agree(l, ls, lv), NEW h \in lv, ls[h] # <<>>,
         NEW t \in Seq(ListEntry)
  PROVE  Loose(l, [ls EXCEPT ![h] = t], lv \ {h}, ls[h])
<1> DEFINE ns == [ls EXCEPT ![h] = t]
<1>1. /\ h \in ListHead /\ lv \subseteq ListHead
      /\ \A g \in ListHead : g # h => ns[g] = ls[g]
  BY DEF Agree
<1> HIDE DEF ns
<1>2. PICK s \in Seq(ListEntry) : s = ls[h]
  BY DEF Agree
<1>3. Len(s) > 0
  BY <1>2, EmptySeq
<1>4. \A x, y \in 1 .. Len(s) : s[x] = s[y] => x = y
  BY <1>2, OnlyOnce
<1>5. ASSUME NEW x \in 1 .. Len(s) - 1
      PROVE  l.next[s[x]] = s[x + 1] /\ l.prev[s[x + 1]] = s[x]
  <2>1. x \in 0 .. Len(s) /\ x \in 1 .. Len(s) /\ x + 1 \in 1 .. Len(s)
    BY <1>2
  <2> QED
    BY <2>1, <1>2 DEF Agree, Represents, At
<1>6. ASSUME NEW g \in lv \ {h}, NEW x \in 1 .. Len(ns[g]), NEW y \in 1 .. Len(s)
      PROVE  ns[g][x] # s[y]
  BY <1>1, <1>2, OnlyOnce
<1>7. Loose(l, ns, lv \ {h}, s)
  BY <1>3, <1>4, <1>5, <1>6 DEF Loose
<1> QED
  BY <1>2, <1>7 DEF ns

LEMMA OneLoose ==
  ASSUME NEW l, NEW ls, NEW lv, NEW e \in ListEntry,
         \A h \in lv : \A x \in 1 .. Len(ls[h]) : ls[h][x] # e
  PROVE  Loose(l, ls, lv, <<e>>)
<1>1. <<e>> \in Seq(ListEntry) /\ Len(<<e>>) = 1 /\ <<e>>[1] = e
  OBVIOUS
<1> QED
  BY <1>1 DEF Loose

-----------------------------------------------------------------------------
(* __list_del around the entries from i to j takes them out; they are      *)
(* still a chain.                                                          *)
LEMMA TakeOut ==
  ASSUME NEW l, NEW ls, NEW lv, Agree(l, ls, lv), NEW h \in lv, NEW s, s = ls[h],
         NEW i \in 1 .. Len(s), NEW j \in i .. Len(s), NEW t, TakenOut(s, i, j, t),
         NEW m, m = DelBetween(l, At(h, s, i - 1), At(h, s, j + 1))
  PROVE  Agree(m, [ls EXCEPT ![h] = t], lv)
<1> DEFINE a == At(h, s, i - 1)
           b == At(h, s, j + 1)
<1>1. /\ h \in ListHead /\ s \in Seq(ListEntry) /\ Len(s) \in Nat /\ Represents(l, h, s) /\ Mem(l)
      /\ lv \cup {h} = lv
  BY DEF Agree
<1>2. PICK d : d = j - i + 1
  OBVIOUS
<1>3. /\ i \in Nat /\ j \in Nat /\ d \in Nat /\ 1 <= i /\ i <= j /\ j <= Len(s) /\ j = i + d - 1
      /\ Len(t) = Len(s) - d /\ Len(t) \in Nat /\ t \in Seq(ListEntry)
      /\ \A x \in 1 .. Len(t) : t[x] = IF x < i THEN s[x] ELSE s[x + d]
  BY <1>1, <1>2 DEF TakenOut
<1>4. a \in Cell /\ b \in Cell /\ i - 1 \in 0 .. Len(s) /\ j + 1 \in 1 .. Len(s) + 1
  BY <1>1, <1>3, Positions
<1>5. /\ Mem(m) /\ SameOff(l, m, {a, b}) /\ m.next[a] = b /\ m.prev[b] = a
      /\ \A c \in Cell : /\ c # a => m.next[c] = l.next[c]
                         /\ c # b => m.prev[c] = l.prev[c]
  BY <1>1, <1>4 DEF Mem, SameOff, DelBetween
<1>6. ASSUME NEW x \in 0 .. Len(s)
      PROVE  /\ x # i - 1 => m.next[At(h, s, x)] = At(h, s, x + 1)
             /\ x # j => m.prev[At(h, s, x + 1)] = At(h, s, x)
  <2>1. At(h, s, x) \in Cell /\ At(h, s, x + 1) \in Cell
    BY <1>1, Positions
  <2>2. l.next[At(h, s, x)] = At(h, s, x + 1) /\ l.prev[At(h, s, x + 1)] = At(h, s, x)
    BY <1>1 DEF Represents
  <2>3. x # i - 1 => At(h, s, x) # a
    BY <1>4, CellsDiffer
  <2>4. x # j => At(h, s, x + 1) # b
    <3>1. x + 1 \in 1 .. Len(s) + 1 /\ (x # j => x + 1 # j + 1)
      BY <1>1, <1>3
    <3> QED
      BY <3>1, <1>4, CellsDiffer
  <2> QED
    BY <2>1, <2>2, <2>3, <2>4, <1>5
<1>7. ASSUME NEW x \in 0 .. Len(t) + 1
      PROVE  At(h, t, x) = IF x < i THEN At(h, s, x) ELSE At(h, s, x + d)
  <2>1. CASE x \in 1 .. Len(t)
    <3>1. x < i => x \in 1 .. Len(s)
      BY <2>1, <1>1, <1>3
    <3>2. ~(x < i) => x + d \in 1 .. Len(s)
      BY <2>1, <1>1, <1>3
    <3> QED
      BY <2>1, <3>1, <3>2, <1>3 DEF At
  <2>2. CASE x = 0
    BY <2>2, <1>3 DEF At
  <2>3. CASE x = Len(t) + 1
    <3>1. x + d = Len(s) + 1 /\ (x < i => FALSE)
      BY <2>3, <1>1, <1>3
    <3>2. x \notin 1 .. Len(t) /\ x + d \notin 1 .. Len(s)
      BY <2>3, <3>1, <1>1, <1>3
    <3> QED
      BY <3>1, <3>2 DEF At
  <2>4. x \in 1 .. Len(t) \/ x = 0 \/ x = Len(t) + 1
    BY <1>3
  <2> QED
    BY <2>1, <2>2, <2>3, <2>4
<1> HIDE DEF a, b
<1>8. ASSUME NEW x \in 0 .. Len(t)
      PROVE  m.next[At(h, t, x)] = At(h, t, x + 1) /\ m.prev[At(h, t, x + 1)] = At(h, t, x)
  <2>0. Len(t) \in Nat
    BY <1>3
  <2>1. x \in 0 .. Len(t) + 1 /\ x + 1 \in 0 .. Len(t) + 1 /\ x \in Nat
    BY <2>0
  <2>2. CASE x < i - 1
    <3>1. At(h, t, x) = At(h, s, x) /\ At(h, t, x + 1) = At(h, s, x + 1)
      BY <2>1, <2>2, <1>3, <1>7
    <3>2. x \in 0 .. Len(s) /\ x # i - 1 /\ x # j
      BY <2>1, <2>2, <1>1, <1>3
    <3> QED
      BY <3>1, <3>2, <1>6
  <2>3. CASE x = i - 1
    <3>1. ~(x + 1 < i) /\ x < i /\ (x + 1) + d = j + 1
      BY <2>1, <2>3, <1>3
    <3>2. At(h, t, x) = a /\ At(h, t, x + 1) = b
      BY <2>1, <2>3, <3>1, <1>7 DEF a, b
    <3> QED
      BY <3>2, <1>5
  <2>4. CASE x > i - 1
    <3>1. ~(x + 1 < i) /\ ~(x < i) /\ (x + 1) + d = (x + d) + 1
      BY <2>1, <2>4, <1>3
    <3>2. At(h, t, x) = At(h, s, x + d) /\ At(h, t, x + 1) = At(h, s, (x + d) + 1)
      BY <2>1, <3>1, <1>7
    <3>3. x + d \in 0 .. Len(s) /\ x + d # i - 1 /\ x + d # j
      BY <2>1, <2>4, <1>1, <1>3
    <3> QED
      BY <3>2, <3>3, <1>6
  <2> QED
    BY <2>1, <2>2, <2>3, <2>4, <1>3
<1>9. Represents(m, h, t)
  BY <1>8 DEF Represents
<1>10. ASSUME NEW g \in lv, g # h
       PROVE  Clear(g, ls[g], {a, b})
  <2>1. ASSUME NEW x \in 0 .. Len(ls[g]), NEW y \in 0 .. Len(s) + 1
        PROVE  At(g, ls[g], x) # At(h, s, y)
    <3>1. CASE y \in 0 .. Len(s)
      BY <3>1, <1>10, CellsDiffer
    <3>2. CASE y = Len(s) + 1
      <4>1. At(h, s, y) = At(h, s, 0) /\ 0 \in 0 .. Len(s)
        BY <3>2, <1>1, Positions
      <4> QED
        BY <4>1, <1>10, CellsDiffer
    <3> QED
      BY <3>1, <3>2, <1>1
  <2>2. i - 1 \in 0 .. Len(s) + 1 /\ j + 1 \in 0 .. Len(s) + 1
    BY <1>1, <1>3
  <2> QED
    BY <2>1, <2>2 DEF Clear, a, b
<1>11. Agree(m, [ls EXCEPT ![h] = t], lv \cup {h})
  BY <1>1, <1>3, <1>5, <1>9, <1>10, AgreeWith
<1> QED
  BY <1>1, <1>11

LEMMA TakenLoose ==
  ASSUME NEW l, NEW ls, NEW lv, Agree(l, ls, lv), NEW h \in lv, NEW s, s = ls[h],
         NEW i \in 1 .. Len(s), NEW j \in i .. Len(s), NEW t, TakenOut(s, i, j, t),
         NEW m, m = DelBetween(l, At(h, s, i - 1), At(h, s, j + 1))
  PROVE  Loose(m, [ls EXCEPT ![h] = t], lv, SubSeq(s, i, j))
<1> DEFINE r == SubSeq(s, i, j)
           ns == [ls EXCEPT ![h] = t]
<1>1. /\ h \in ListHead /\ s \in Seq(ListEntry) /\ Len(s) \in Nat /\ Represents(l, h, s) /\ Mem(l)
      /\ lv \subseteq ListHead /\ ns[h] = t /\ \A g \in ListHead : g # h => ns[g] = ls[g]
  BY DEF Agree
<1>2. PICK d : d = j - i + 1
  OBVIOUS
<1>3. /\ i \in Nat /\ j \in Nat /\ d \in Nat /\ 1 <= i /\ i <= j /\ j <= Len(s) /\ j = i + d - 1
      /\ Len(t) = Len(s) - d /\ Len(t) \in Nat /\ d > 0
      /\ \A x \in 1 .. Len(t) : t[x] = IF x < i THEN s[x] ELSE s[x + d]
  <2> HIDE DEF r, ns
  <2> QED
    BY <1>1, <1>2 DEF TakenOut
<1>4. r \in Seq(ListEntry) /\ Len(r) = d /\ \A x \in 1 .. d : r[x] = s[i + x - 1]
  <2>1. \A x \in i .. j : s[x] \in ListEntry
    BY <1>1, <1>3, ElementOfSeq
  <2>2. /\ r \in Seq(ListEntry) /\ Len(r) = IF i <= j THEN j - i + 1 ELSE 0
        /\ \A x \in 1 .. j - i + 1 : r[x] = s[i + x - 1]
    BY <1>3, <2>1, SubSeqProperties
  <2> HIDE DEF r
  <2> QED
    BY <2>2, <1>2, <1>3
<1> HIDE DEF r, ns
<1>5. \A x, y \in 1 .. Len(s) : s[x] = s[y] => x = y
  BY OnlyOnce
<1>6. \A x \in 1 .. d : i + x - 1 \in 1 .. Len(s)
  BY <1>1, <1>3
<1>7. ASSUME NEW x \in 1 .. d, NEW y \in 1 .. d, r[x] = r[y]
      PROVE  x = y
  <2>1. s[i + x - 1] = s[i + y - 1]
    BY <1>4, <1>7
  <2>2. i + x - 1 = i + y - 1
    BY <2>1, <1>5, <1>6
  <2> QED
    BY <2>2, <1>3
<1>8. ASSUME NEW x \in 1 .. d - 1
      PROVE  m.next[r[x]] = r[x + 1] /\ m.prev[r[x + 1]] = r[x]
  <2>1. PICK y : y = i + x - 1
    OBVIOUS
  <2>2. /\ y \in 1 .. Len(s) /\ y + 1 \in 1 .. Len(s) /\ y \in 0 .. Len(s) /\ i - 1 \in 0 .. Len(s)
        /\ j + 1 \in 1 .. Len(s) + 1 /\ y + 1 \in 1 .. Len(s) + 1
        /\ y # i - 1 /\ y + 1 # j + 1
        /\ x \in 1 .. d /\ x + 1 \in 1 .. d /\ i + (x + 1) - 1 = y + 1
    BY <2>1, <1>1, <1>3
  <2>3. r[x] = s[y] /\ r[x + 1] = s[y + 1]
    BY <2>1, <2>2, <1>4
  <2>4. At(h, s, y) = s[y] /\ At(h, s, y + 1) = s[y + 1] /\ s[y] \in Cell /\ s[y + 1] \in Cell
    BY <2>2, <1>1, Positions
  <2>5. l.next[s[y]] = s[y + 1] /\ l.prev[s[y + 1]] = s[y]
    BY <2>2, <2>4, <1>1 DEF Represents
  <2>6. At(h, s, y) # At(h, s, i - 1) /\ At(h, s, y + 1) # At(h, s, j + 1)
    BY <2>2, CellsDiffer
  <2>7. At(h, s, i - 1) \in Cell /\ At(h, s, j + 1) \in Cell
    BY <1>1, <1>3, Positions
  <2>8. m.next[s[y]] = l.next[s[y]] /\ m.prev[s[y + 1]] = l.prev[s[y + 1]]
    BY <2>4, <2>6, <2>7, <1>1 DEF DelBetween, Mem
  <2> QED
    BY <2>3, <2>5, <2>8
<1>9. ASSUME NEW g \in lv, NEW x \in 1 .. Len(ns[g]), NEW y \in 1 .. d
      PROVE  ns[g][x] # r[y]
  <2>0. i \in Nat /\ d \in Nat /\ Len(s) \in Nat /\ y \in 1 .. d /\ Len(t) = Len(s) - d
    BY <1>1, <1>3
  <2>1. r[y] = s[i + y - 1] /\ i + y - 1 \in 1 .. Len(s)
    BY <1>4, <1>6
  <2>2. CASE g = h
    <3>1. x \in 1 .. Len(t) /\ ns[g][x] = t[x]
      BY <2>2, <1>1
    <3>2. CASE x < i
      <4>1. x \in 1 .. Len(s) /\ x # i + y - 1
        BY <2>0, <3>1, <3>2
      <4> QED
        BY <4>1, <3>1, <3>2, <2>1, <1>3, <1>5
    <3>3. CASE ~(x < i)
      <4>1. x + d \in 1 .. Len(s) /\ x + d # i + y - 1
        BY <2>0, <3>1, <3>3
      <4> QED
        BY <4>1, <3>1, <3>3, <2>1, <1>3, <1>5
    <3> QED
      BY <3>2, <3>3
  <2>3. CASE g # h
    <3>1. ns[g] = ls[g] /\ x \in 1 .. Len(ls[g])
      BY <2>3, <1>1
    <3>2. ls[g][x] # s[i + y - 1]
      BY <3>1, <2>1, <2>3, OnlyOnce
    <3> QED
      BY <3>1, <3>2, <2>1
  <2> QED
    BY <2>2, <2>3
<1>10. Loose(m, ns, lv, r)
  BY <1>3, <1>4, <1>7, <1>8, <1>9 DEF Loose
<1> QED
  BY <1>10 DEF r, ns

(* A loose chain goes between two neighbours of a ring.                    *)
LEMMA PutChain ==
  ASSUME NEW l, NEW ls, NEW lv, Agree(l, ls, lv), NEW h \in lv, NEW s, s = ls[h],
         NEW k \in 0 .. Len(s), NEW r, Loose(l, ls, lv, r), NEW t, PutIn(s, k, r, t),
         NEW m, Linked(l, m, At(h, s, k), r[1], r[Len(r)], At(h, s, k + 1))
  PROVE  Agree(m, [ls EXCEPT ![h] = t], lv)
<1> DEFINE a == At(h, s, k)
           b == At(h, s, k + 1)
<1>1. /\ h \in ListHead /\ s \in Seq(ListEntry) /\ Len(s) \in Nat /\ Represents(l, h, s) /\ Mem(l)
      /\ lv \cup {h} = lv
  BY DEF Agree
<1>2. PICK n : n = Len(r)
  OBVIOUS
<1>3. /\ n \in Nat /\ n > 0 /\ k \in Nat /\ k <= Len(s) /\ r \in Seq(ListEntry)
      /\ Len(t) = Len(s) + n /\ t \in Seq(ListEntry) /\ Len(t) \in Nat
      /\ \A x \in 1 .. Len(t) : t[x] = IF x <= k THEN s[x]
                                       ELSE IF x <= k + n THEN r[x - k] ELSE s[x - n]
  <2>1. r \in Seq(ListEntry) /\ Len(r) > 0
    BY DEF Loose
  <2>2. n \in Nat /\ n > 0
    BY <1>2, <2>1
  <2> QED
    BY <1>1, <1>2, <2>1, <2>2 DEF PutIn
<1>4. ASSUME NEW y \in 1 .. n
      PROVE  r[y] \in ListEntry /\ r[y] \in Cell
  BY <1>2, <1>3, ElementOfSeq DEF Cell
<1>5. ASSUME NEW g \in lv, NEW x \in 0 .. Len(ls[g]) + 1, NEW y \in 1 .. n
      PROVE  At(g, ls[g], x) # r[y]
  <2>1. CASE x \in 1 .. Len(ls[g])
    BY <2>1, <1>2 DEF Loose, At
  <2>2. CASE x \notin 1 .. Len(ls[g])
    <3>1. At(g, ls[g], x) = g /\ g \in ListHead
      BY <2>2 DEF At, Agree
    <3> QED
      BY <3>1, <1>4, ListAssumption
  <2> QED
    BY <2>1, <2>2
<1>6. /\ a \in Cell /\ b \in Cell /\ 1 \in 1 .. n /\ n \in 1 .. n
      /\ k \in 0 .. Len(s) + 1 /\ k + 1 \in 0 .. Len(s) + 1 /\ k + 1 \in 1 .. Len(s) + 1
  BY <1>1, <1>3, Positions
<1> HIDE DEF a, b
<1>7. /\ Mem(m) /\ m.next[a] = r[1] /\ m.prev[r[1]] = a /\ m.next[r[n]] = b /\ m.prev[b] = r[n]
      /\ \A c \in Cell : /\ c \notin {a, r[n]} => m.next[c] = l.next[c]
                         /\ c \notin {r[1], b} => m.prev[c] = l.prev[c]
  BY <1>2 DEF Linked, a, b
<1>8. ASSUME NEW x \in 0 .. Len(s), x # k
      PROVE  m.next[At(h, s, x)] = At(h, s, x + 1) /\ m.prev[At(h, s, x + 1)] = At(h, s, x)
  <2>1. At(h, s, x) \in Cell /\ At(h, s, x + 1) \in Cell
    BY <1>1, Positions
  <2>2. l.next[At(h, s, x)] = At(h, s, x + 1) /\ l.prev[At(h, s, x + 1)] = At(h, s, x)
    BY <1>1 DEF Represents
  <2>3. /\ x \in 0 .. Len(s) + 1 /\ x + 1 \in 0 .. Len(s) + 1 /\ x + 1 \in 1 .. Len(s) + 1
        /\ x + 1 # k + 1
    BY <1>1, <1>3, <1>8
  <2>4. At(h, s, x) # a /\ At(h, s, x + 1) # b
    BY <2>3, <1>6, <1>8, CellsDiffer DEF a, b
  <2>5. At(h, s, x) # r[n] /\ At(h, s, x + 1) # r[1]
    BY <2>3, <1>5, <1>6
  <2> QED
    BY <2>1, <2>2, <2>4, <2>5, <1>7
<1>9. ASSUME NEW y \in 1 .. n - 1
      PROVE  m.next[r[y]] = r[y + 1] /\ m.prev[r[y + 1]] = r[y]
  <2>1. y \in 1 .. n /\ y + 1 \in 1 .. n /\ y # n /\ y + 1 # 1
    BY <1>3
  <2>2. l.next[r[y]] = r[y + 1] /\ l.prev[r[y + 1]] = r[y]
    BY <1>2 DEF Loose
  <2>3. r[y] # r[n] /\ r[y + 1] # r[1]
    BY <2>1, <1>2, <1>6 DEF Loose
  <2>4. r[y] # a /\ r[y + 1] # b
    BY <2>1, <1>5, <1>6 DEF a, b
  <2>5. r[y] \in Cell /\ r[y + 1] \in Cell
    BY <2>1, <1>4
  <2> QED
    BY <2>2, <2>3, <2>4, <2>5, <1>7
<1>10. ASSUME NEW x \in 0 .. Len(t) + 1
       PROVE  At(h, t, x) = IF x <= k THEN At(h, s, x)
                            ELSE IF x <= k + n THEN r[x - k] ELSE At(h, s, x - n)
  <2>1. CASE x \in 1 .. Len(t)
    <3>1. x <= k => x \in 1 .. Len(s)
      BY <2>1, <1>1, <1>3
    <3>2. ~(x <= k + n) => x - n \in 1 .. Len(s)
      BY <2>1, <1>1, <1>3
    <3> QED
      BY <2>1, <3>1, <3>2, <1>3 DEF At
  <2>2. CASE x = 0
    BY <2>2, <1>3 DEF At
  <2>3. CASE x = Len(t) + 1
    <3>1. x - n = Len(s) + 1 /\ ~(x <= k) /\ ~(x <= k + n)
      BY <2>3, <1>1, <1>3
    <3>2. x \notin 1 .. Len(t) /\ x - n \notin 1 .. Len(s)
      BY <2>3, <3>1, <1>1, <1>3
    <3> QED
      BY <3>1, <3>2 DEF At
  <2>4. x \in 1 .. Len(t) \/ x = 0 \/ x = Len(t) + 1
    <3>1. Len(t) \in Nat
      BY <1>3
    <3> QED
      BY <3>1
  <2> QED
    BY <2>1, <2>2, <2>3, <2>4
<1>11. ASSUME NEW x \in 0 .. Len(t)
       PROVE  m.next[At(h, t, x)] = At(h, t, x + 1) /\ m.prev[At(h, t, x + 1)] = At(h, t, x)
  <2>0. x \in Nat /\ k \in Nat /\ n \in Nat
    BY <1>3
  <2>1. x \in 0 .. Len(t) + 1 /\ x + 1 \in 0 .. Len(t) + 1 /\ x \in Nat
    BY <1>3
  <2>2. CASE x < k
    <3>1. x <= k /\ x + 1 <= k /\ x \in 0 .. Len(s) /\ x # k
      BY <2>1, <2>2, <1>1, <1>3
    <3>2. At(h, t, x) = At(h, s, x) /\ At(h, t, x + 1) = At(h, s, x + 1)
      BY <2>1, <3>1, <1>10
    <3> QED
      BY <3>1, <3>2, <1>8
  <2>3. CASE x = k
    <3>1. x <= k /\ ~(x + 1 <= k) /\ x + 1 <= k + n /\ (x + 1) - k = 1
      BY <2>3, <1>3
    <3>2. At(h, t, x) = a /\ At(h, t, x + 1) = r[1]
      BY <2>1, <2>3, <3>1, <1>10 DEF a
    <3> QED
      BY <3>2, <1>7
  <2>4. CASE x > k /\ x < k + n
    <3>1. /\ ~(x <= k) /\ x <= k + n /\ ~(x + 1 <= k) /\ x + 1 <= k + n
          /\ (x + 1) - k = (x - k) + 1 /\ x - k \in 1 .. n - 1
      BY <2>0, <2>4
    <3>2. At(h, t, x) = r[x - k] /\ At(h, t, x + 1) = r[(x - k) + 1]
      BY <2>1, <3>1, <1>10
    <3> QED
      BY <3>1, <3>2, <1>9
  <2>5. CASE x = k + n
    <3>1. /\ ~(x <= k) /\ x <= k + n /\ ~(x + 1 <= k) /\ ~(x + 1 <= k + n)
          /\ x - k = n /\ (x + 1) - n = k + 1
      BY <2>1, <2>5, <1>3
    <3>2. At(h, t, x) = r[n] /\ At(h, t, x + 1) = b
      BY <2>1, <3>1, <1>10 DEF b
    <3> QED
      BY <3>2, <1>7
  <2>6. CASE x > k + n
    <3>0. n \in Nat /\ k \in Nat /\ Len(s) \in Nat /\ x \in Nat /\ x <= Len(s) + n
      BY <2>1, <1>1, <1>3
    <3>1. /\ ~(x <= k) /\ ~(x <= k + n) /\ ~(x + 1 <= k) /\ ~(x + 1 <= k + n)
          /\ (x + 1) - n = (x - n) + 1 /\ x - n \in 0 .. Len(s) /\ x - n # k
      BY <3>0, <2>6
    <3>2. At(h, t, x) = At(h, s, x - n) /\ At(h, t, x + 1) = At(h, s, (x - n) + 1)
      BY <2>1, <3>1, <1>10
    <3> QED
      BY <3>1, <3>2, <1>8
  <2>7. x < k \/ x = k \/ (x > k /\ x < k + n) \/ x = k + n \/ x > k + n
    BY <2>0
  <2> QED
    BY <2>2, <2>3, <2>4, <2>5, <2>6, <2>7
<1>12. Represents(m, h, t)
  BY <1>11 DEF Represents
<1>13. SameOff(l, m, {a, b, r[1], r[n]})
  BY <1>7 DEF SameOff
<1>14. ASSUME NEW g \in lv, g # h
       PROVE  Clear(g, ls[g], {a, b, r[1], r[n]})
  <2>1. ASSUME NEW x \in 0 .. Len(ls[g])
        PROVE  At(g, ls[g], x) \notin {a, b, r[1], r[n]}
    <3>1. x \in 0 .. Len(ls[g]) + 1
      BY DEF Agree
    <3>2. At(g, ls[g], x) # r[1] /\ At(g, ls[g], x) # r[n]
      BY <3>1, <1>5, <1>6
    <3>3. At(g, ls[g], x) # a
      BY <1>14, CellsDiffer DEF a
    <3>4. At(g, ls[g], x) # b
      <4>1. PICK y \in 0 .. Len(s) : At(h, s, y) = b
        <5>1. CASE k + 1 \in 0 .. Len(s)
          BY <5>1 DEF b
        <5>2. CASE k + 1 = Len(s) + 1
          <6>1. At(h, s, k + 1) = At(h, s, 0) /\ 0 \in 0 .. Len(s)
            BY <5>2, <1>1, Positions
          <6> QED
            BY <6>1 DEF b
        <5> QED
          BY <5>1, <5>2, <1>1, <1>3
      <4> QED
        BY <4>1, <1>14, CellsDiffer
    <3> QED
      BY <3>2, <3>3, <3>4
  <2> QED
    BY <2>1 DEF Clear
<1>15. Agree(m, [ls EXCEPT ![h] = t], lv \cup {h})
  BY <1>1, <1>3, <1>7, <1>12, <1>13, <1>14, AgreeWith
<1> QED
  BY <1>1, <1>15

-----------------------------------------------------------------------------
(* The sequences.                                                          *)
LEMMA ConcatTail ==
  ASSUME NEW s \in Seq(ListEntry), NEW r \in Seq(ListEntry)
  PROVE  PutIn(s, Len(s), r, s \o r) /\ PutIn(s, 0, r, r \o s)
<1> DEFINE u == s \o r
           v == r \o s
<1>1. Len(s) \in Nat /\ Len(r) \in Nat
  OBVIOUS
<1>2. /\ u \in Seq(ListEntry) /\ Len(u) = Len(s) + Len(r)
      /\ \A x \in 1 .. Len(s) + Len(r) : u[x] = IF x <= Len(s) THEN s[x] ELSE r[x - Len(s)]
  BY ConcatProperties
<1>3. /\ v \in Seq(ListEntry) /\ Len(v) = Len(r) + Len(s)
      /\ \A x \in 1 .. Len(r) + Len(s) : v[x] = IF x <= Len(r) THEN r[x] ELSE s[x - Len(r)]
  BY ConcatProperties
<1> HIDE DEF u, v
<1>4. PutIn(s, Len(s), r, u)
  BY <1>1, <1>2 DEF PutIn
<1>5. PutIn(s, 0, r, v)
  <2>1. ASSUME NEW x \in 1 .. Len(v)
        PROVE  v[x] = IF x <= 0 THEN s[x] ELSE IF x <= 0 + Len(r) THEN r[x - 0] ELSE s[x - Len(r)]
    <3>1. x \in 1 .. Len(r) + Len(s) /\ x - 0 = x /\ ~(x <= 0) /\ 0 + Len(r) = Len(r)
      BY <1>1, <1>3
    <3> QED
      BY <3>1, <1>3
  <2> QED
    BY <1>1, <1>3, <2>1 DEF PutIn
<1> QED
  BY <1>4, <1>5 DEF u, v

LEMMA PieceOf ==
  ASSUME NEW s \in Seq(ListEntry), NEW i \in 1 .. Len(s) + 1, NEW j \in i - 1 .. Len(s)
  PROVE  /\ SubSeq(s, i, j) \in Seq(ListEntry) /\ Len(SubSeq(s, i, j)) = j - i + 1
         /\ \A x \in 1 .. j - i + 1 : SubSeq(s, i, j)[x] = s[i + x - 1]
<1>1. Len(s) \in Nat
  OBVIOUS
<1>2. \A x \in i .. j : s[x] \in ListEntry
  BY <1>1, ElementOfSeq
<1>3. /\ SubSeq(s, i, j) \in Seq(ListEntry)
      /\ Len(SubSeq(s, i, j)) = IF i <= j THEN j - i + 1 ELSE 0
      /\ \A x \in 1 .. j - i + 1 : SubSeq(s, i, j)[x] = s[i + x - 1]
  BY <1>1, <1>2, SubSeqProperties
<1>4. ~(i <= j) => j - i + 1 = 0
  BY <1>1
<1> QED
  BY <1>3, <1>4

(* What is before i, and what is behind j.                                 *)
LEMMA PiecesLeft ==
  ASSUME NEW s \in Seq(ListEntry), NEW i \in 1 .. Len(s), NEW j \in i .. Len(s)
  PROVE  TakenOut(s, i, j, SubSeq(s, 1, i - 1) \o SubSeq(s, j + 1, Len(s)))
<1> DEFINE u == SubSeq(s, 1, i - 1)
           v == SubSeq(s, j + 1, Len(s))
           t == u \o v
<1>1. Len(s) \in Nat /\ i \in Nat /\ j \in Nat /\ 1 <= i /\ i <= j /\ j <= Len(s)
  OBVIOUS
<1>2. u \in Seq(ListEntry) /\ Len(u) = i - 1 /\ \A x \in 1 .. i - 1 : u[x] = s[x]
  <2>1. 1 \in 1 .. Len(s) + 1 /\ i - 1 \in 1 - 1 .. Len(s) /\ (i - 1) - 1 + 1 = i - 1
    BY <1>1
  <2>2. /\ u \in Seq(ListEntry) /\ Len(u) = (i - 1) - 1 + 1
        /\ \A x \in 1 .. (i - 1) - 1 + 1 : u[x] = s[1 + x - 1]
    BY <2>1, PieceOf
  <2> HIDE DEF u
  <2> QED
    BY <2>1, <2>2, <1>1
<1>3. v \in Seq(ListEntry) /\ Len(v) = Len(s) - j /\ \A x \in 1 .. Len(s) - j : v[x] = s[j + x]
  <2>1. j + 1 \in 1 .. Len(s) + 1 /\ Len(s) \in (j + 1) - 1 .. Len(s)
        /\ Len(s) - (j + 1) + 1 = Len(s) - j
    BY <1>1
  <2>2. /\ v \in Seq(ListEntry) /\ Len(v) = Len(s) - (j + 1) + 1
        /\ \A x \in 1 .. Len(s) - (j + 1) + 1 : v[x] = s[(j + 1) + x - 1]
    BY <2>1, PieceOf
  <2> HIDE DEF v
  <2>3. \A x \in 1 .. Len(s) - j : (j + 1) + x - 1 = j + x
    BY <1>1
  <2> QED
    BY <2>1, <2>2, <2>3
<1> HIDE DEF u, v
<1>4. /\ t \in Seq(ListEntry) /\ Len(t) = Len(u) + Len(v)
      /\ \A x \in 1 .. Len(u) + Len(v) : t[x] = IF x <= Len(u) THEN u[x] ELSE v[x - Len(u)]
  BY <1>2, <1>3, ConcatProperties
<1> HIDE DEF t
<1>5. Len(t) = Len(s) - (j - i + 1)
  BY <1>1, <1>2, <1>3, <1>4
<1>6. ASSUME NEW x \in 1 .. Len(t)
      PROVE  t[x] = IF x < i THEN s[x] ELSE s[x + (j - i + 1)]
  <2>1. x \in 1 .. Len(u) + Len(v)
    BY <1>4
  <2>2. CASE x < i
    <3>1. x <= Len(u) /\ x \in 1 .. i - 1
      BY <2>2, <1>1, <1>2
    <3> QED
      BY <2>1, <2>2, <3>1, <1>2, <1>4
  <2>3. CASE ~(x < i)
    <3>1. /\ ~(x <= Len(u)) /\ x - Len(u) \in 1 .. Len(s) - j
          /\ j + (x - Len(u)) = x + (j - i + 1)
      BY <2>1, <2>3, <1>1, <1>2, <1>3
    <3>2. t[x] = s[j + (x - Len(u))]
      BY <2>1, <3>1, <1>3, <1>4
    <3> QED
      BY <2>3, <3>1, <3>2
  <2> QED
    BY <2>2, <2>3
<1>7. TakenOut(s, i, j, t)
  BY <1>4, <1>5, <1>6 DEF TakenOut
<1> QED
  BY <1>7 DEF t, u, v

LEMMA TailLeft ==
  ASSUME NEW s \in Seq(ListEntry), s # <<>>
  PROVE  TakenOut(s, 1, 1, Tail(s)) /\ Head(s) = s[1] /\ 1 \in 1 .. Len(s)
<1>1. Len(s) \in Nat /\ Len(s) > 0
  BY EmptySeq
<1>2. /\ Tail(s) \in Seq(ListEntry) /\ Len(Tail(s)) = Len(s) - 1
      /\ \A x \in 1 .. Len(Tail(s)) : Tail(s)[x] = s[x + 1]
  BY HeadTailProperties
<1>3. \A x \in 1 .. Len(Tail(s)) : ~(x < 1)
  BY <1>1, <1>2
<1>4. Head(s) = s[1]
  BY <1>1
<1> QED
  BY <1>1, <1>2, <1>3, <1>4 DEF TakenOut

LEMMA OnePiece ==
  ASSUME NEW s \in Seq(ListEntry), NEW i \in 1 .. Len(s)
  PROVE  SubSeq(s, i, i) = <<s[i]>>
<1> DEFINE r == SubSeq(s, i, i)
<1>1. Len(s) \in Nat /\ i \in 1 .. Len(s) + 1 /\ i \in i - 1 .. Len(s) /\ i - i + 1 = 1 /\ i + 1 - 1 = i
  OBVIOUS
<1>2. r \in Seq(ListEntry) /\ Len(r) = 1 /\ r[1] = s[i]
  <2>1. /\ r \in Seq(ListEntry) /\ Len(r) = i - i + 1
        /\ \A x \in 1 .. i - i + 1 : r[x] = s[i + x - 1]
    BY <1>1, PieceOf
  <2> HIDE DEF r
  <2> QED
    BY <2>1, <1>1
<1> HIDE DEF r
<1>3. s[i] \in ListEntry
  BY ElementOfSeq
<1>4. <<s[i]>> \in Seq(ListEntry) /\ Len(<<s[i]>>) = 1 /\ <<s[i]>>[1] = s[i]
  BY <1>3
<1>5. r = <<s[i]>>
  BY <1>2, <1>4, SeqEqual
<1> QED
  BY <1>5 DEF r

-----------------------------------------------------------------------------
(* The operations of list.h.                                               *)
LEMMA Neighbours ==
  ASSUME NEW l, NEW ls, NEW lv, Agree(l, ls, lv), NEW h \in lv, NEW s, s = ls[h]
  PROVE  /\ l.next[h] = At(h, s, 1) /\ l.prev[h] = At(h, s, Len(s))
         /\ \A i \in 1 .. Len(s) : /\ l.next[s[i]] = At(h, s, i + 1)
                                   /\ l.prev[s[i]] = At(h, s, i - 1)
<1>1. h \in ListHead /\ s \in Seq(ListEntry) /\ Len(s) \in Nat /\ Represents(l, h, s)
  BY DEF Agree
<1>2. \A x \in 0 .. Len(s) : l.next[At(h, s, x)] = At(h, s, x + 1) /\ l.prev[At(h, s, x + 1)] = At(h, s, x)
  BY <1>1 DEF Represents
<1>3. l.next[h] = At(h, s, 1) /\ l.prev[h] = At(h, s, Len(s))
  <2>1. 0 \in 0 .. Len(s) /\ 0 + 1 = 1 /\ Len(s) \in 0 .. Len(s)
    BY <1>1
  <2>2. l.next[At(h, s, 0)] = At(h, s, 0 + 1) /\ l.prev[At(h, s, Len(s) + 1)] = At(h, s, Len(s))
    BY <2>1, <1>2
  <2> QED
    BY <2>1, <2>2, <1>1, Positions
<1>4. ASSUME NEW i \in 1 .. Len(s)
      PROVE  l.next[s[i]] = At(h, s, i + 1) /\ l.prev[s[i]] = At(h, s, i - 1)
  <2>1. i \in 0 .. Len(s) /\ i - 1 \in 0 .. Len(s) /\ (i - 1) + 1 = i
    BY <1>1
  <2>2. At(h, s, i) = s[i]
    BY DEF At
  <2>3. l.next[At(h, s, i)] = At(h, s, i + 1) /\ l.prev[At(h, s, (i - 1) + 1)] = At(h, s, i - 1)
    BY <2>1, <1>2
  <2> QED
    BY <2>1, <2>2, <2>3
<1> QED
  BY <1>3, <1>4

(* The neighbours and the ends of a chain that goes between them.          *)
LEMMA ChainApart ==
  ASSUME NEW l, NEW ls, NEW lv, Agree(l, ls, lv), NEW h \in lv, NEW s, s = ls[h],
         NEW k \in 0 .. Len(s), NEW r, Loose(l, ls, lv, r), NEW y \in 1 .. Len(r)
  PROVE  /\ r[y] \in Cell /\ At(h, s, k) \in Cell /\ At(h, s, k + 1) \in Cell
         /\ r[y] # At(h, s, k) /\ r[y] # At(h, s, k + 1)
<1>1. h \in ListHead /\ s \in Seq(ListEntry) /\ Len(s) \in Nat
  BY DEF Agree
<1>2. r[y] \in ListEntry /\ \A x \in 1 .. Len(s) : s[x] # r[y]
  BY ElementOfSeq DEF Loose
<1>3. ASSUME NEW x \in Int
      PROVE  At(h, s, x) # r[y]
  BY <1>1, <1>2, ListAssumption DEF At
<1> QED
  BY <1>1, <1>2, <1>3, Positions DEF Cell

LEMMA AddOne ==
  ASSUME NEW l, NEW ls, NEW lv, Agree(l, ls, lv), NEW h \in lv, NEW s, s = ls[h],
         NEW k \in 0 .. Len(s), NEW e, Loose(l, ls, lv, <<e>>), NEW t, PutIn(s, k, <<e>>, t)
  PROVE  Agree(AddBetween(l, e, At(h, s, k), At(h, s, k + 1)), [ls EXCEPT ![h] = t], lv)
<1> DEFINE a == At(h, s, k)
           b == At(h, s, k + 1)
           m == AddBetween(l, e, a, b)
           r == <<e>>
<1>1. Len(r) = 1 /\ r[1] = e /\ r[Len(r)] = e /\ 1 \in 1 .. Len(r)
  OBVIOUS
<1>2. e \in Cell /\ a \in Cell /\ b \in Cell /\ e # a /\ e # b
  BY <1>1, ChainApart
<1>3. Mem(l)
  BY DEF Agree
<1> HIDE DEF a, b
<1>4. Linked(l, m, a, e, e, b)
  BY <1>2, <1>3 DEF Linked, Mem, AddBetween
<1> HIDE DEF m, r
<1>5. Linked(l, m, At(h, s, k), r[1], r[Len(r)], At(h, s, k + 1))
  BY <1>1, <1>4 DEF a, b
<1>6. Agree(m, [ls EXCEPT ![h] = t], lv)
  BY <1>5, PutChain DEF r
<1> QED
  BY <1>6 DEF m, a, b

LEMMA AddFront ==
  ASSUME NEW l, NEW ls, NEW lv, Agree(l, ls, lv), NEW h \in lv, NEW e, Loose(l, ls, lv, <<e>>)
  PROVE  Agree(ListAdd(l, e, h), [ls EXCEPT ![h] = <<e>> \o ls[h]], lv)
<1>1. PICK s \in Seq(ListEntry) : s = ls[h]
  BY DEF Agree
<1>2. h \in ListHead /\ Len(s) \in Nat /\ 0 \in 0 .. Len(s) /\ <<e>> \in Seq(ListEntry)
  BY <1>1 DEF Agree, Loose
<1>3. PutIn(s, 0, <<e>>, <<e>> \o s)
  BY <1>2, ConcatTail
<1>4. Agree(AddBetween(l, e, At(h, s, 0), At(h, s, 0 + 1)), [ls EXCEPT ![h] = <<e>> \o s], lv)
  BY <1>1, <1>2, <1>3, AddOne
<1>5. At(h, s, 0) = h /\ l.next[h] = At(h, s, 0 + 1)
  BY <1>1, <1>2, Neighbours, Positions
<1> QED
  BY <1>1, <1>4, <1>5 DEF ListAdd

LEMMA AddBack ==
  ASSUME NEW l, NEW ls, NEW lv, Agree(l, ls, lv), NEW h \in lv, NEW e, Loose(l, ls, lv, <<e>>)
  PROVE  Agree(ListAddTail(l, e, h), [ls EXCEPT ![h] = Append(ls[h], e)], lv)
<1>1. PICK s \in Seq(ListEntry) : s = ls[h]
  BY DEF Agree
<1>2. h \in ListHead /\ Len(s) \in Nat /\ Len(s) \in 0 .. Len(s) /\ <<e>> \in Seq(ListEntry)
  BY <1>1 DEF Agree, Loose
<1>3. PutIn(s, Len(s), <<e>>, s \o <<e>>)
  BY <1>2, ConcatTail
<1>4. e \in ListEntry
  BY <1>2, ElementOfSeq
<1>5. Append(s, e) = s \o <<e>>
  BY <1>4, AppendIsConcat
<1>6. Agree(AddBetween(l, e, At(h, s, Len(s)), At(h, s, Len(s) + 1)), [ls EXCEPT ![h] = s \o <<e>>], lv)
  BY <1>1, <1>2, <1>3, AddOne
<1>7. At(h, s, Len(s) + 1) = h /\ l.prev[h] = At(h, s, Len(s))
  BY <1>1, <1>2, Neighbours, Positions
<1> QED
  BY <1>1, <1>5, <1>6, <1>7 DEF ListAddTail

LEMMA RemoveOne ==
  ASSUME NEW l, NEW ls, NEW lv, Agree(l, ls, lv), NEW h \in lv, NEW s, s = ls[h],
         NEW i \in 1 .. Len(s), NEW t, TakenOut(s, i, i, t)
  PROVE  /\ Agree(DelEntry(l, s[i]), [ls EXCEPT ![h] = t], lv)
         /\ Loose(DelEntry(l, s[i]), [ls EXCEPT ![h] = t], lv, <<s[i]>>)
<1>1. s \in Seq(ListEntry) /\ Len(s) \in Nat /\ i \in i .. Len(s)
  BY DEF Agree
<1>2. DelEntry(l, s[i]) = DelBetween(l, At(h, s, i - 1), At(h, s, i + 1))
  BY Neighbours DEF DelEntry
<1>3. SubSeq(s, i, i) = <<s[i]>>
  BY <1>1, OnePiece
<1> QED
  BY <1>1, <1>2, <1>3, TakeOut, TakenLoose

LEMMA WithoutTaken ==
  ASSUME NEW s \in Seq(ListEntry), NEW i \in 1 .. Len(s)
  PROVE  TakenOut(s, i, i, Without(s, i))
<1>1. i \in i .. Len(s)
  OBVIOUS
<1> QED
  BY <1>1, PiecesLeft DEF Without

(* A loose entry can be written to.                                        *)
LEMMA LooseWritten ==
  ASSUME NEW l, NEW ls, NEW lv, Agree(l, ls, lv), NEW e \in ListEntry,
         \A h \in lv : \A x \in 1 .. Len(ls[h]) : ls[h][x] # e, NEW y, NEW z
  PROVE  Agree([next |-> [l.next EXCEPT ![e] = y], prev |-> [l.prev EXCEPT ![e] = z]], ls, lv)
<1> DEFINE m == [next |-> [l.next EXCEPT ![e] = y], prev |-> [l.prev EXCEPT ![e] = z]]
<1>1. Mem(m) /\ SameOff(l, m, {e})
  BY DEF Agree, Mem, SameOff, Cell
<1> HIDE DEF m
<1>2. ASSUME NEW h \in lv
      PROVE  Clear(h, ls[h], {e})
  <2>1. h \in ListHead
    BY DEF Agree
  <2>2. ASSUME NEW x \in 0 .. Len(ls[h])
        PROVE  At(h, ls[h], x) # e
    BY <2>1, ListAssumption DEF At
  <2> QED
    BY <2>2 DEF Clear
<1>3. Agree(m, ls, lv)
  BY <1>1, <1>2, AgreeOff
<1> QED
  BY <1>3 DEF m

JoinedBetween(l, a, first, last, b) ==
  [next |-> [l.next EXCEPT ![a] = first, ![last] = b],
   prev |-> [l.prev EXCEPT ![first] = a, ![b] = last]]

LEMMA JoinChain ==
  ASSUME NEW l, NEW ls, NEW lv, Agree(l, ls, lv), NEW h \in lv, NEW s, s = ls[h],
         NEW k \in 0 .. Len(s), NEW r, Loose(l, ls, lv, r), NEW t, PutIn(s, k, r, t)
  PROVE  Agree(JoinedBetween(l, At(h, s, k), r[1], r[Len(r)], At(h, s, k + 1)),
               [ls EXCEPT ![h] = t], lv)
<1> DEFINE a == At(h, s, k)
           b == At(h, s, k + 1)
           first == r[1]
           last == r[Len(r)]
           m == JoinedBetween(l, a, first, last, b)
<1>1. 1 \in 1 .. Len(r) /\ Len(r) \in 1 .. Len(r)
  BY DEF Loose
<1>2. /\ first \in Cell /\ last \in Cell /\ a \in Cell /\ b \in Cell
      /\ first # b /\ last # a
  BY <1>1, ChainApart
<1>3. Mem(l)
  BY DEF Agree
<1> HIDE DEF a, b, first, last
<1>4. Linked(l, m, a, first, last, b)
  BY <1>2, <1>3 DEF Linked, Mem, JoinedBetween
<1> HIDE DEF m
<1>5. Linked(l, m, At(h, s, k), r[1], r[Len(r)], At(h, s, k + 1))
  BY <1>4 DEF a, b, first, last
<1>6. Agree(m, [ls EXCEPT ![h] = t], lv)
  BY <1>5, PutChain
<1> QED
  BY <1>6 DEF m, a, b, first, last

(* A loose chain becomes the list of g, which loses what it had.           *)
LEMMA RingOf ==
  ASSUME NEW l, NEW ls, NEW lv, Agree(l, ls, lv), NEW g \in ListHead, NEW r, Loose(l, ls, lv, r),
         NEW m, Linked(InitListHead(l, g), m, g, r[1], r[Len(r)], g)
  PROVE  Agree(m, [ls EXCEPT ![g] = r], lv \cup {g})
<1> DEFINE f == InitListHead(l, g)
           ns == [ls EXCEPT ![g] = <<>>]
<1>1. Agree(f, ns, lv \cup {g})
  BY InitRing
<1>2. /\ ns[g] = <<>> /\ \A h \in ListHead : h # g => ns[h] = ls[h]
      /\ lv \subseteq ListHead /\ ls \in [ListHead -> Seq(ListEntry)]
      /\ Len(<<>>) = 0 /\ <<>> \in Seq(ListEntry) /\ Mem(l)
  BY EmptySeq DEF Agree
<1>3. r \in Seq(ListEntry) /\ Len(r) \in Nat /\ \A x \in 1 .. Len(r) : r[x] \in Cell /\ r[x] # g
  BY ElementOfSeq, ListAssumption DEF Loose, Cell
<1>4. \A c \in Cell : c # g => f.next[c] = l.next[c] /\ f.prev[c] = l.prev[c]
  BY <1>2 DEF InitListHead, Mem
<1>5. [ns EXCEPT ![g] = r] = [ls EXCEPT ![g] = r]
  BY <1>2
<1> HIDE DEF f, ns
<1>6. Loose(f, ns, lv \cup {g}, r)
  <2>1. ASSUME NEW x \in 1 .. Len(r) - 1
        PROVE  f.next[r[x]] = r[x + 1] /\ f.prev[r[x + 1]] = r[x]
    <3>1. x \in 1 .. Len(r) /\ x + 1 \in 1 .. Len(r)
      BY <1>3
    <3> QED
      BY <3>1, <1>3, <1>4 DEF Loose
  <2>2. ASSUME NEW h \in lv \cup {g}, NEW x \in 1 .. Len(ns[h]), NEW y \in 1 .. Len(r)
        PROVE  ns[h][x] # r[y]
    <3>1. h # g
      BY <1>2
    <3>2. ns[h] = ls[h] /\ h \in lv
      BY <3>1, <1>2
    <3> QED
      BY <3>2 DEF Loose
  <2> QED
    BY <2>1, <2>2 DEF Loose
<1>7. PICK e \in Seq(ListEntry) : e = <<>>
  BY <1>2
<1>8. PutIn(e, 0, r, r) /\ 0 \in 0 .. Len(e)
  <2>1. PutIn(e, 0, r, r \o e)
    BY <1>3, ConcatTail
  <2> QED
    BY <2>1, <1>2, <1>3, <1>7, ConcatEmptySeq
<1>9. At(g, e, 0) = g /\ At(g, e, 0 + 1) = g
  BY <1>2, <1>7 DEF At
<1>10. Linked(f, m, At(g, e, 0), r[1], r[Len(r)], At(g, e, 0 + 1))
  BY <1>9 DEF f
<1>11. Agree(m, [ns EXCEPT ![g] = r], lv \cup {g})
  BY <1>1, <1>2, <1>6, <1>7, <1>8, <1>10, PutChain
<1> QED
  BY <1>5, <1>11

LEMMA SpliceFront ==
  ASSUME NEW l, NEW ls, NEW lv, Agree(l, ls, lv), NEW h \in lv, NEW g \in lv, g # h, ls[h] # <<>>
  PROVE  Agree(SpliceBetween(l, h, g, l.next[g]),
               [ls EXCEPT ![g] = ls[h] \o ls[g], ![h] = <<>>], lv \ {h})
<1> DEFINE ns == [ls EXCEPT ![h] = <<>>]
<1>1. PICK r \in Seq(ListEntry), s \in Seq(ListEntry) : r = ls[h] /\ s = ls[g]
  BY DEF Agree
<1>2. /\ h \in ListHead /\ g \in ListHead /\ <<>> \in Seq(ListEntry) /\ ns[g] = s
      /\ g \in lv \ {h} /\ Len(s) \in Nat /\ Len(r) \in Nat /\ Len(r) > 0 /\ 0 \in 0 .. Len(s)
      /\ [ns EXCEPT ![g] = r \o s] = [ls EXCEPT ![g] = r \o s, ![h] = <<>>]
  <2>1. h \in ListHead /\ g \in ListHead /\ ls \in [ListHead -> Seq(ListEntry)]
    BY DEF Agree
  <2>2. <<>> \in Seq(ListEntry) /\ Len(s) \in Nat /\ Len(r) \in Nat /\ Len(r) > 0
    BY <1>1, EmptySeq
  <2>3. ns[g] = s
    BY <2>1, <1>1
  <2>4. [ns EXCEPT ![g] = r \o s] = [ls EXCEPT ![g] = r \o s, ![h] = <<>>]
    BY <2>1
  <2> HIDE DEF ns
  <2> QED
    BY <2>1, <2>2, <2>3, <2>4
<1>3. Agree(l, ns, lv \ {h}) /\ Loose(l, ns, lv \ {h}, r)
  BY <1>1, <1>2, DropRing, DroppedLoose
<1> HIDE DEF ns
<1>4. PutIn(s, 0, r, r \o s)
  BY ConcatTail
<1>5. Agree(JoinedBetween(l, At(g, s, 0), r[1], r[Len(r)], At(g, s, 0 + 1)),
            [ns EXCEPT ![g] = r \o s], lv \ {h})
  BY <1>2, <1>3, <1>4, JoinChain
<1>6. At(g, s, 0) = g /\ l.next[g] = At(g, s, 0 + 1)
  BY <1>1, <1>2, Neighbours, Positions
<1>7. l.next[h] = r[1] /\ l.prev[h] = r[Len(r)]
  <2>1. At(h, r, 1) = r[1] /\ At(h, r, Len(r)) = r[Len(r)]
    BY <1>2 DEF At
  <2> QED
    BY <2>1, <1>1, Neighbours
<1> QED
  BY <1>1, <1>2, <1>5, <1>6, <1>7 DEF SpliceBetween, JoinedBetween

LEMMA SpliceBack ==
  ASSUME NEW l, NEW ls, NEW lv, Agree(l, ls, lv), NEW h \in lv, NEW g \in lv, g # h, ls[h] # <<>>
  PROVE  Agree(SpliceBetween(l, h, l.prev[g], g),
               [ls EXCEPT ![g] = ls[g] \o ls[h], ![h] = <<>>], lv \ {h})
<1> DEFINE ns == [ls EXCEPT ![h] = <<>>]
<1>1. PICK r \in Seq(ListEntry), s \in Seq(ListEntry) : r = ls[h] /\ s = ls[g]
  BY DEF Agree
<1>2. /\ h \in ListHead /\ g \in ListHead /\ <<>> \in Seq(ListEntry) /\ ns[g] = s
      /\ g \in lv \ {h} /\ Len(s) \in Nat /\ Len(r) \in Nat /\ Len(r) > 0 /\ Len(s) \in 0 .. Len(s)
      /\ [ns EXCEPT ![g] = s \o r] = [ls EXCEPT ![g] = s \o r, ![h] = <<>>]
  <2>1. h \in ListHead /\ g \in ListHead /\ ls \in [ListHead -> Seq(ListEntry)]
    BY DEF Agree
  <2>2. <<>> \in Seq(ListEntry) /\ Len(s) \in Nat /\ Len(r) \in Nat /\ Len(r) > 0
    BY <1>1, EmptySeq
  <2>3. ns[g] = s
    BY <2>1, <1>1
  <2>4. [ns EXCEPT ![g] = s \o r] = [ls EXCEPT ![g] = s \o r, ![h] = <<>>]
    BY <2>1
  <2> HIDE DEF ns
  <2> QED
    BY <2>1, <2>2, <2>3, <2>4
<1>3. Agree(l, ns, lv \ {h}) /\ Loose(l, ns, lv \ {h}, r)
  BY <1>1, <1>2, DropRing, DroppedLoose
<1> HIDE DEF ns
<1>4. PutIn(s, Len(s), r, s \o r)
  BY ConcatTail
<1>5. Agree(JoinedBetween(l, At(g, s, Len(s)), r[1], r[Len(r)], At(g, s, Len(s) + 1)),
            [ns EXCEPT ![g] = s \o r], lv \ {h})
  BY <1>2, <1>3, <1>4, JoinChain
<1>6. At(g, s, Len(s) + 1) = g /\ l.prev[g] = At(g, s, Len(s))
  BY <1>1, <1>2, Neighbours, Positions
<1>7. l.next[h] = r[1] /\ l.prev[h] = r[Len(r)]
  <2>1. At(h, r, 1) = r[1] /\ At(h, r, Len(r)) = r[Len(r)]
    BY <1>2 DEF At
  <2> QED
    BY <2>1, <1>1, Neighbours
<1> QED
  BY <1>1, <1>2, <1>5, <1>6, <1>7 DEF SpliceBetween, JoinedBetween

(* The first i entries of h become the list of g.                          *)
LEMMA CutRing ==
  ASSUME NEW l, NEW ls, NEW lv, Agree(l, ls, lv), NEW h \in lv, NEW s, s = ls[h],
         NEW i \in 1 .. Len(s), NEW g \in ListHead, g # h
  PROVE  Agree(CutAfter(l, g, h, s[i]),
               [ls EXCEPT ![g] = SubSeq(s, 1, i), ![h] = SubSeq(s, i + 1, Len(s))], lv \cup {g})
<1> DEFINE t == SubSeq(s, i + 1, Len(s))
           r == SubSeq(s, 1, i)
           a == At(h, s, 1 - 1)
           b == At(h, s, i + 1)
           d == DelBetween(l, a, b)
           f == InitListHead(d, g)
           m == CutAfter(l, g, h, s[i])
           ns == [ls EXCEPT ![h] = t]
<1>1. /\ h \in ListHead /\ s \in Seq(ListEntry) /\ Len(s) \in Nat /\ Mem(l) /\ i \in Nat
      /\ 1 \in 1 .. Len(s) /\ i \in 1 .. Len(s) /\ i + 1 \in Int
  BY DEF Agree
<1>2. t \in Seq(ListEntry) /\ TakenOut(s, 1, i, t)
  <2>1. i + 1 \in 1 .. Len(s) + 1 /\ Len(s) \in (i + 1) - 1 .. Len(s)
    BY <1>1
  <2>2. t \in Seq(ListEntry)
    BY <2>1, <1>1, PieceOf
  <2>3. SubSeq(s, 1, 1 - 1) = <<>>
    BY SubSeqEmpty
  <2>4. TakenOut(s, 1, i, SubSeq(s, 1, 1 - 1) \o t)
    BY <1>1, PiecesLeft
  <2> QED
    BY <2>2, <2>3, <2>4, ConcatEmptySeq
<1>3. Agree(d, ns, lv) /\ Loose(d, ns, lv, r)
  BY <1>1, <1>2, TakeOut, TakenLoose
<1>4. Len(r) = i /\ r[1] = s[1] /\ r[Len(r)] = s[i]
  <2>1. 1 \in 1 .. Len(s) + 1 /\ i \in 1 - 1 .. Len(s) /\ i - 1 + 1 = i
    BY <1>1
  <2>2. Len(r) = i - 1 + 1 /\ \A x \in 1 .. i - 1 + 1 : r[x] = s[1 + x - 1]
    BY <2>1, <1>1, PieceOf
  <2> HIDE DEF r
  <2>3. Len(r) = i /\ 1 \in 1 .. i - 1 + 1 /\ i \in 1 .. i - 1 + 1 /\ 1 + 1 - 1 = 1 /\ 1 + i - 1 = i
    BY <2>1, <2>2, <1>1
  <2> QED
    BY <2>2, <2>3
<1>5. /\ a = h /\ a \in Cell /\ b \in Cell /\ g \in Cell /\ s[1] \in Cell /\ s[i] \in Cell
      /\ l.next[h] = s[1] /\ l.next[s[i]] = b
      /\ s[1] # g /\ s[i] # g /\ s[1] # h /\ s[i] # h
  <2>1. a = h /\ At(h, s, 1) = s[1] /\ b \in Cell /\ h \in Cell
    BY <1>1, Positions
  <2>2. s[1] \in ListEntry /\ s[i] \in ListEntry
    BY <1>1, Positions
  <2> QED
    BY <2>1, <2>2, <1>1, Neighbours, ListAssumption DEF Cell
<1>6. b # g /\ b # s[1]
  <2>1. b # s[1]
    <3>1. At(h, s, 1) = s[1] /\ 1 \in 1 .. Len(s) + 1 /\ i + 1 \in 1 .. Len(s) + 1 /\ i + 1 # 1
      BY <1>1, Positions
    <3>2. \A x, y \in 1 .. Len(s) + 1 : At(h, s, x) = At(h, s, y) => x = y
      BY CellsDiffer
    <3> QED
      BY <3>1, <3>2
  <2>2. b # g
    BY <1>1, ElementOfSeq, ListAssumption DEF At
  <2> QED
    BY <2>1, <2>2
<1> HIDE DEF t, r, a, b, ns
<1>7. m = [next |-> [l.next EXCEPT ![g] = s[1], ![s[i]] = g, ![h] = b],
           prev |-> [l.prev EXCEPT ![s[1]] = g, ![g] = s[i], ![b] = h]]
  BY <1>5 DEF CutAfter
<1>8. /\ f.next = [l.next EXCEPT ![h] = b, ![g] = g]
      /\ f.prev = [l.prev EXCEPT ![b] = h, ![g] = g]
  BY <1>5 DEF DelBetween, InitListHead
<1> HIDE DEF d, f, m
<1>9. Linked(f, m, g, s[1], s[i], g)
  <2>1. h \in Cell
    BY <1>5
  <2> QED
    BY <2>1, <1>1, <1>5, <1>6, <1>7, <1>8 DEF Linked, Mem
<1>10. Agree(m, [ns EXCEPT ![g] = r], lv \cup {g})
  BY <1>3, <1>4, <1>9, RingOf DEF f
<1>11. [ns EXCEPT ![g] = r] = [ls EXCEPT ![g] = r, ![h] = t]
  BY <1>1 DEF ns, Agree
<1> QED
  BY <1>10, <1>11 DEF m, r, t

(* Another entry in the place of one.                                      *)
LEMMA ReplaceOne ==
  ASSUME NEW l, NEW ls, NEW lv, Agree(l, ls, lv), NEW h \in lv, NEW s, s = ls[h],
         NEW i \in 1 .. Len(s), NEW e \in ListEntry,
         \A g \in lv : \A x \in 1 .. Len(ls[g]) : ls[g][x] # e
  PROVE  /\ Agree(ListReplace(l, s[i], e), [ls EXCEPT ![h] = [s EXCEPT ![i] = e]], lv)
         /\ \A g \in lv : \A x \in 1 .. Len([ls EXCEPT ![h] = [s EXCEPT ![i] = e]][g]) :
              [ls EXCEPT ![h] = [s EXCEPT ![i] = e]][g][x] # s[i]
<1> DEFINE u == Without(s, i)
           t == [s EXCEPT ![i] = e]
           a == At(h, s, i - 1)
           b == At(h, s, i + 1)
           d == DelEntry(l, s[i])
           m == ListReplace(l, s[i], e)
           ms == [ls EXCEPT ![h] = u]
           ns == [ls EXCEPT ![h] = t]
<1>1. /\ h \in ListHead /\ s \in Seq(ListEntry) /\ Len(s) \in Nat /\ Mem(l) /\ Represents(l, h, s)
      /\ i \in Nat /\ 1 <= i /\ i <= Len(s) /\ ls \in [ListHead -> Seq(ListEntry)] /\ lv \subseteq ListHead
  BY DEF Agree
<1>2. /\ u \in Seq(ListEntry) /\ Len(u) = Len(s) - 1
      /\ \A x \in 1 .. Len(u) : u[x] = IF x < i THEN s[x] ELSE s[x + 1]
  <2>1. TakenOut(s, i, i, u) /\ i - i + 1 = 1
    BY <1>1, WithoutTaken
  <2> HIDE DEF u
  <2> QED
    BY <2>1 DEF TakenOut
<1>3. /\ t \in Seq(ListEntry) /\ Len(t) = Len(s)
      /\ \A x \in 1 .. Len(s) : t[x] = IF x = i THEN e ELSE s[x]
  BY <1>1, ExceptSeq
<1>4. /\ ms[h] = u /\ ms \in [ListHead -> Seq(ListEntry)]
      /\ ns[h] = t /\ \A g \in ListHead : g # h => ms[g] = ls[g] /\ ns[g] = ls[g]
      /\ [ms EXCEPT ![h] = t] = ns
  <2> HIDE DEF u, t
  <2> QED
    BY <1>1, <1>2, <1>3
<1>5. Agree(d, ms, lv)
  BY <1>1, WithoutTaken, RemoveOne
<1>6. /\ a \in Cell /\ b \in Cell /\ s[i] \in Cell /\ e \in Cell /\ l.prev[s[i]] = a /\ l.next[s[i]] = b
      /\ b # s[i]
  <2>1. At(h, s, i) = s[i] /\ i \in 1 .. Len(s) + 1 /\ i + 1 \in 1 .. Len(s) + 1 /\ i + 1 # i
        /\ i - 1 \in Int /\ i + 1 \in Int
    BY <1>1, Positions
  <2>2. b # s[i]
    BY <2>1, CellsDiffer
  <2> QED
    BY <2>1, <2>2, <1>1, Positions, Neighbours DEF Cell
<1>7. a # e /\ b # e
  BY <1>1, ListAssumption DEF At
<1> HIDE DEF u, t, a, b, ms, ns
<1>8. /\ m.next = [l.next EXCEPT ![e] = b, ![a] = e]
      /\ m.prev = [l.prev EXCEPT ![b] = e, ![e] = a]
  BY <1>1, <1>6 DEF ListReplace, Mem
<1>9. d.next = [l.next EXCEPT ![a] = b] /\ d.prev = [l.prev EXCEPT ![b] = a]
  BY <1>6 DEF DelEntry, DelBetween
<1> HIDE DEF m, d
<1>10. Linked(d, m, a, e, e, b)
  <2>1. m.next[a] = e /\ m.next[e] = b
    BY <1>1, <1>6, <1>7, <1>8 DEF Mem
  <2>2. m.prev[b] = e /\ m.prev[e] = a
    BY <1>1, <1>6, <1>7, <1>8 DEF Mem
  <2>3. Mem(m)
    BY <1>1, <1>8 DEF Mem
  <2>4. \A c \in Cell : c \notin {a, e} => m.next[c] = d.next[c]
    BY <1>1, <1>8, <1>9 DEF Mem
  <2>5. \A c \in Cell : c \notin {e, b} => m.prev[c] = d.prev[c]
    BY <1>1, <1>8, <1>9 DEF Mem
  <2> QED
    BY <2>1, <2>2, <2>3, <2>4, <2>5 DEF Linked
<1>11. Loose(d, ms, lv, <<e>>)
  <2>1. ASSUME NEW g \in lv, NEW x \in 1 .. Len(ms[g])
        PROVE  ms[g][x] # e
    <3>1. CASE g = h
      <4>1. x \in 1 .. Len(u) /\ x \in 1 .. Len(s) /\ x + 1 \in 1 .. Len(s)
        BY <3>1, <1>1, <1>2, <1>4
      <4> QED
        BY <4>1, <3>1, <1>2, <1>4
    <3>2. CASE g # h
      BY <3>2, <1>1, <1>4
    <3> QED
      BY <3>1, <3>2
  <2> QED
    BY <2>1, OneLoose
<1>12. At(h, u, i - 1) = a /\ At(h, u, (i - 1) + 1) = b /\ i - 1 \in 0 .. Len(u)
  <2>1. i - 1 \in 0 .. Len(u) /\ (i - 1) + 1 = i
    BY <1>1, <1>2
  <2>2. At(h, u, i - 1) = a
    <3>1. CASE i = 1
      BY <3>1, <1>2 DEF At, a
    <3>2. CASE i # 1
      <4>1. i - 1 \in 1 .. Len(u) /\ i - 1 < i /\ i - 1 \in 1 .. Len(s)
        BY <3>2, <1>1, <1>2
      <4> QED
        BY <4>1, <1>2 DEF At, a
    <3> QED
      BY <3>1, <3>2
  <2>3. At(h, u, i) = b
    <3>1. CASE i = Len(s)
      <4>1. i \notin 1 .. Len(u) /\ i + 1 \notin 1 .. Len(s)
        BY <3>1, <1>1, <1>2
      <4> QED
        BY <4>1 DEF At, b
    <3>2. CASE i # Len(s)
      <4>1. i \in 1 .. Len(u) /\ ~(i < i) /\ i + 1 \in 1 .. Len(s)
        BY <3>2, <1>1, <1>2
      <4> QED
        BY <4>1, <1>2 DEF At, b
    <3> QED
      BY <3>1, <3>2
  <2> QED
    BY <2>1, <2>2, <2>3
<1>13. PICK r \in Seq(ListEntry) : r = <<e>> /\ Len(r) = 1 /\ r[1] = e
  <2>1. <<e>> \in Seq(ListEntry) /\ Len(<<e>>) = 1 /\ <<e>>[1] = e
    OBVIOUS
  <2> QED
    BY <2>1
<1>14. PutIn(u, i - 1, r, t)
  <2>1. Len(t) = Len(u) + Len(r)
    BY <1>1, <1>2, <1>3, <1>13
  <2>2. ASSUME NEW x \in 1 .. Len(t)
        PROVE  t[x] = IF x <= i - 1 THEN u[x]
                      ELSE IF x <= (i - 1) + Len(r) THEN r[x - (i - 1)] ELSE u[x - Len(r)]
    <3>1. x \in 1 .. Len(s)
      BY <1>3
    <3>2. CASE x < i
      <4>1. x <= i - 1 /\ x \in 1 .. Len(u) /\ x # i
        BY <3>1, <3>2, <1>1, <1>2
      <4> QED
        BY <4>1, <3>1, <3>2, <1>2, <1>3
    <3>3. CASE x = i
      <4>1. ~(x <= i - 1) /\ x <= (i - 1) + Len(r) /\ x - (i - 1) = 1
        BY <3>3, <1>1, <1>13
      <4> QED
        BY <4>1, <3>1, <3>3, <1>3, <1>13
    <3>4. CASE x > i
      <4>1. /\ ~(x <= i - 1) /\ ~(x <= (i - 1) + Len(r)) /\ x - Len(r) \in 1 .. Len(u)
            /\ ~(x - Len(r) < i) /\ (x - Len(r)) + 1 = x /\ x # i
        BY <3>1, <3>4, <1>1, <1>2, <1>13
      <4> QED
        BY <4>1, <3>1, <1>2, <1>3
    <3> QED
      BY <3>1, <3>2, <3>3, <3>4, <1>1
  <2> QED
    BY <1>3, <2>1, <2>2 DEF PutIn
<1>15. Linked(d, m, At(h, u, i - 1), r[1], r[Len(r)], At(h, u, (i - 1) + 1))
  BY <1>10, <1>12, <1>13
<1>16. Agree(m, [ms EXCEPT ![h] = t], lv)
  BY <1>4, <1>5, <1>11, <1>12, <1>13, <1>14, <1>15, PutChain
<1>17. ASSUME NEW g \in lv, NEW x \in 1 .. Len(ns[g])
       PROVE  ns[g][x] # s[i]
  <2>1. CASE g = h
    <3>1. x \in 1 .. Len(s) /\ ns[g][x] = t[x]
      BY <2>1, <1>3, <1>4
    <3>2. s[i] # e
      BY <1>1
    <3>3. x # i => s[x] # s[i]
      BY <3>1, OnlyOnce
    <3> QED
      BY <3>1, <3>2, <3>3, <1>3
  <2>2. CASE g # h
    <3>1. ns[g] = ls[g] /\ x \in 1 .. Len(ls[g])
      BY <2>2, <1>1, <1>4
    <3> QED
      BY <3>1, <2>2, OnlyOnce
  <2> QED
    BY <2>1, <2>2
<1> QED
  BY <1>4, <1>16, <1>17 DEF m, ns, t

(* Another head in the place of one.                                       *)
LEMMA ReplaceRing ==
  ASSUME NEW l, NEW ls, NEW lv, Agree(l, ls, lv), NEW h \in lv, NEW g \in ListHead \ lv
  PROVE  Agree(ListReplace(l, h, g), [ls EXCEPT ![g] = ls[h], ![h] = <<>>], (lv \ {h}) \cup {g})
<1> DEFINE m == ListReplace(l, h, g)
           ns == [ls EXCEPT ![h] = <<>>]
<1>1. PICK s \in Seq(ListEntry) : s = ls[h]
  BY DEF Agree
<1>2. /\ h \in ListHead /\ g # h /\ lv \subseteq ListHead /\ Mem(l) /\ Len(s) \in Nat
      /\ ls \in [ListHead -> Seq(ListEntry)] /\ <<>> \in Seq(ListEntry)
  BY EmptySeq DEF Agree
<1>3. Agree(l, ns, lv \ {h})
  BY <1>2, DropRing
<1>4. [ns EXCEPT ![g] = s] = [ls EXCEPT ![g] = ls[h], ![h] = <<>>]
  BY <1>1, <1>2
<1>5. l.next[h] = At(h, s, 1) /\ l.prev[h] = At(h, s, Len(s)) /\ h \in Cell /\ g \in Cell
  BY <1>1, <1>2, Neighbours DEF Cell
<1> HIDE DEF ns
<1>6. CASE s = <<>>
  <2>1. l.next[h] = h /\ l.prev[h] = h
    BY <1>5, <1>6, EmptySeq DEF At
  <2>2. /\ m.next = [l.next EXCEPT ![g] = h, ![g] = g]
        /\ m.prev = [l.prev EXCEPT ![h] = g, ![g] = g]
    BY <2>1, <1>2, <1>5 DEF ListReplace, Mem
  <2> HIDE DEF m
  <2>3. Mem(m) /\ SameOff(l, m, {g, h}) /\ m.next[g] = g /\ m.prev[g] = g
    BY <2>2, <1>2, <1>5 DEF Mem, SameOff
  <2>4. ASSUME NEW k \in lv \ {h}, k # g
        PROVE  Clear(k, ns[k], {g, h})
    <3>1. k \in ListHead /\ ns[k] \in Seq(ListEntry) /\ k # h
      BY <1>2, <1>3 DEF Agree
    <3>2. ASSUME NEW x \in 0 .. Len(ns[k])
          PROVE  At(k, ns[k], x) \notin {g, h}
      <4>1. CASE x \in 1 .. Len(ns[k])
        <5>1. At(k, ns[k], x) \in ListEntry
          BY <4>1, <3>1, Positions
        <5> QED
          BY <5>1, <1>2, ListAssumption
      <4>2. CASE x \notin 1 .. Len(ns[k])
        BY <4>2, <3>1, <2>4 DEF At
      <4> QED
        BY <4>1, <4>2
    <3> QED
      BY <3>2 DEF Clear
  <2>5. Agree(m, [ns EXCEPT ![g] = <<>>], (lv \ {h}) \cup {g})
    BY <1>3, <2>3, <2>4, NewRing
  <2> QED
    BY <2>5, <1>4, <1>6 DEF m
<1>7. CASE s # <<>>
  <2>1. Loose(l, ns, lv \ {h}, s)
    BY <1>1, <1>2, <1>7, DroppedLoose DEF ns
  <2>2. Len(s) > 0
    BY <1>7, EmptySeq
  <2>3. PICK first \in ListEntry, last \in ListEntry : first = s[1] /\ last = s[Len(s)]
    BY <2>2, <1>2, ElementOfSeq
  <2>4. l.next[h] = first /\ l.prev[h] = last
    BY <2>2, <2>3, <1>2, <1>5 DEF At
  <2>5. first # h /\ first # g /\ last # h /\ last # g /\ first \in Cell /\ last \in Cell
    BY <2>3, <1>2, ListAssumption DEF Cell
  <2>6. /\ m.next = [l.next EXCEPT ![g] = first, ![last] = g]
        /\ m.prev = [l.prev EXCEPT ![first] = g, ![g] = last]
    BY <2>4, <2>5, <1>2, <1>5 DEF ListReplace, Mem
  <2> HIDE DEF m
  <2>7. Linked(InitListHead(l, g), m, g, first, last, g)
    BY <2>5, <2>6, <1>2, <1>5 DEF Linked, InitListHead, Mem
  <2>8. Agree(m, [ns EXCEPT ![g] = s], (lv \ {h}) \cup {g})
    BY <2>1, <2>3, <2>7, <1>3, RingOf
  <2> QED
    BY <2>8, <1>4 DEF m
<1> QED
  BY <1>6, <1>7

LEMMA BulkMoved ==
  ASSUME NEW l, NEW ls, NEW lv, Agree(l, ls, lv), NEW h \in lv, NEW s, s = ls[h],
         NEW i \in 1 .. Len(s), NEW j \in i .. Len(s)
  PROVE  Agree(ListBulkMoveTail(l, h, s[i], s[j]),
               [ls EXCEPT ![h] = SubSeq(s, 1, i - 1) \o SubSeq(s, j + 1, Len(s)) \o SubSeq(s, i, j)],
               lv)
<1> DEFINE u == SubSeq(s, 1, i - 1) \o SubSeq(s, j + 1, Len(s))
           r == SubSeq(s, i, j)
           d == DelBetween(l, At(h, s, i - 1), At(h, s, j + 1))
           ns == [ls EXCEPT ![h] = u]
<1>1. /\ h \in ListHead /\ s \in Seq(ListEntry) /\ Len(s) \in Nat /\ j \in 1 .. Len(s)
      /\ i \in Nat /\ j \in Nat /\ 1 <= i /\ i <= j /\ j <= Len(s)
      /\ ls \in [ListHead -> Seq(ListEntry)]
  BY DEF Agree
<1>2. TakenOut(s, i, j, u)
  BY <1>1, PiecesLeft
<1>3. d = DelBetween(l, l.prev[s[i]], l.next[s[j]])
  BY <1>1, Neighbours
<1>4. Agree(d, ns, lv) /\ Loose(d, ns, lv, r)
  BY <1>2, TakeOut, TakenLoose
<1>5. r \in Seq(ListEntry) /\ Len(r) = j - i + 1 /\ r[1] = s[i] /\ r[Len(r)] = s[j]
  <2>1. /\ i \in 1 .. Len(s) + 1 /\ j \in i - 1 .. Len(s) /\ 1 \in 1 .. j - i + 1
        /\ j - i + 1 \in 1 .. j - i + 1 /\ i + 1 - 1 = i /\ i + (j - i + 1) - 1 = j
    BY <1>1
  <2>2. /\ r \in Seq(ListEntry) /\ Len(r) = j - i + 1
        /\ \A x \in 1 .. j - i + 1 : r[x] = s[i + x - 1]
    BY <2>1, <1>1, PieceOf
  <2> HIDE DEF r
  <2> QED
    BY <2>1, <2>2
<1>6. u \in Seq(ListEntry) /\ Len(u) \in Nat
  <2> HIDE DEF u
  <2> QED
    BY <1>2 DEF TakenOut
<1>7. ns[h] = u /\ [ns EXCEPT ![h] = u \o r] = [ls EXCEPT ![h] = u \o r]
  <2> HIDE DEF u, r
  <2> QED
    BY <1>1
<1> HIDE DEF u, r, d, ns
<1>8. PutIn(u, Len(u), r, u \o r) /\ Len(u) \in 0 .. Len(u)
  BY <1>5, <1>6, ConcatTail
<1>9. At(h, u, Len(u) + 1) = h /\ d.prev[h] = At(h, u, Len(u))
  BY <1>1, <1>4, <1>6, <1>7, Neighbours, Positions
<1>10. Agree(JoinedBetween(d, At(h, u, Len(u)), r[1], r[Len(r)], At(h, u, Len(u) + 1)),
             [ns EXCEPT ![h] = u \o r], lv)
  BY <1>4, <1>7, <1>8, JoinChain
<1>11. JoinedBetween(d, At(h, u, Len(u)), r[1], r[Len(r)], At(h, u, Len(u) + 1))
         = ListBulkMoveTail(l, h, s[i], s[j])
  BY <1>3, <1>5, <1>9 DEF JoinedBetween, ListBulkMoveTail
<1>12. Agree(ListBulkMoveTail(l, h, s[i], s[j]), [ls EXCEPT ![h] = u \o r], lv)
  BY <1>7, <1>10, <1>11
<1> QED
  BY <1>12 DEF u, r

LEMMA RotatedLeft ==
  ASSUME NEW l, NEW ls, NEW lv, Agree(l, ls, lv), NEW h \in lv
  PROVE  Agree(ListRotateLeft(l, h),
               [ls EXCEPT ![h] = IF ls[h] = <<>> THEN <<>> ELSE Append(Tail(ls[h]), Head(ls[h]))], lv)
<1>1. PICK s \in Seq(ListEntry) : s = ls[h]
  BY DEF Agree
<1>2. h \in ListHead /\ Len(s) \in Nat /\ ls \in [ListHead -> Seq(ListEntry)] /\ l.next[h] = At(h, s, 1)
  <2>1. l.next[h] = At(h, s, 1)
    BY <1>1, Neighbours
  <2> QED
    BY <2>1 DEF Agree
<1>3. CASE s = <<>>
  <2>1. ListRotateLeft(l, h) = l
    BY <1>2, <1>3, EmptySeq DEF ListRotateLeft, ListEmpty, At
  <2>2. [ls EXCEPT ![h] = <<>>] = ls
    BY <1>1, <1>2, <1>3
  <2> QED
    BY <2>1, <2>2, <1>1, <1>3
<1>4. CASE s # <<>>
  <2> DEFINE t == Tail(s)
             d == DelEntry(l, s[1])
             ms == [ls EXCEPT ![h] = t]
  <2>1. TakenOut(s, 1, 1, t) /\ Head(s) = s[1] /\ 1 \in 1 .. Len(s)
    BY <1>4, TailLeft
  <2>2. l.next[h] = s[1] /\ s[1] # h
    BY <2>1, <1>2, Positions
  <2>3. ListRotateLeft(l, h) = ListAddTail(d, s[1], h)
    BY <2>2 DEF ListRotateLeft, ListEmpty, ListMoveTail
  <2> HIDE DEF t, d
  <2>4. Agree(d, ms, lv) /\ Loose(d, ms, lv, <<s[1]>>)
    BY <2>1, <1>1, RemoveOne DEF d
  <2>5. ms[h] = t /\ [ms EXCEPT ![h] = Append(t, s[1])] = [ls EXCEPT ![h] = Append(t, s[1])]
    BY <1>2
  <2> HIDE DEF ms
  <2>6. Agree(ListAddTail(d, s[1], h), [ms EXCEPT ![h] = Append(ms[h], s[1])], lv)
    BY <2>4, AddBack
  <2> QED
    BY <2>1, <2>3, <2>5, <2>6, <1>1, <1>4 DEF t
<1> QED
  BY <1>3, <1>4

LEMMA CutOff ==
  ASSUME NEW l, NEW ls, NEW lv, Agree(l, ls, lv), NEW h \in lv, NEW s, s = ls[h], s # <<>>,
         NEW i \in 0 .. Len(s), NEW g \in ListHead, g # h
  PROVE  Agree(ListCutPosition(l, g, h, IF i = 0 THEN h ELSE s[i]),
               [ls EXCEPT ![g] = SubSeq(s, 1, i), ![h] = SubSeq(s, i + 1, Len(s))], lv \cup {g})
<1>1. /\ h \in ListHead /\ s \in Seq(ListEntry) /\ Len(s) \in Nat /\ Len(s) > 0
      /\ ls \in [ListHead -> Seq(ListEntry)]
  BY EmptySeq DEF Agree
<1>2. 1 \in 1 .. Len(s) /\ Len(s) \in 1 .. Len(s)
  BY <1>1
<1>3. l.next[h] = s[1] /\ l.prev[h] = s[Len(s)] /\ \A x \in 1 .. Len(s) : s[x] # h
  <2>1. l.next[h] = At(h, s, 1) /\ l.prev[h] = At(h, s, Len(s))
    BY Neighbours
  <2>2. At(h, s, 1) = s[1] /\ At(h, s, Len(s)) = s[Len(s)]
    BY <1>2 DEF At
  <2>3. \A x \in 1 .. Len(s) : s[x] # h
    BY <1>1, Positions
  <2> QED
    BY <2>1, <2>2, <2>3
<1>4. ~ListEmpty(l, h)
  BY <1>2, <1>3 DEF ListEmpty
<1>5. CASE i = 0
  <2>1. ListCutPosition(l, g, h, h) = InitListHead(l, g)
    BY <1>4 DEF ListCutPosition
  <2>2. SubSeq(s, 1, 0) = <<>> /\ SubSeq(s, 0 + 1, Len(s)) = s
    <3>1. SubSeq(s, 1, 0) = <<>> /\ SubSeq(s, 1, Len(s)) = s
      BY <1>1, SubSeqEmpty, SubSeqFull
    <3> QED
      BY <3>1
  <2>3. [ls EXCEPT ![g] = <<>>, ![h] = s] = [ls EXCEPT ![g] = <<>>]
    BY <1>1
  <2>4. Agree(InitListHead(l, g), [ls EXCEPT ![g] = <<>>], lv \cup {g})
    BY InitRing
  <2> QED
    BY <2>1, <2>2, <2>3, <2>4, <1>5
<1>6. CASE i # 0
  <2>1. i \in 1 .. Len(s)
    BY <1>6
  <2>2. ~(ListIsSingular(l, h) /\ l.next[h] # s[i] /\ h # s[i])
    <3>1. ASSUME s[1] = s[Len(s)]
          PROVE  s[i] = s[1]
      <4>1. 1 = Len(s)
        <5>1. \A x, y \in 1 .. Len(s) : s[x] = s[y] => x = y
          BY OnlyOnce
        <5> QED
          BY <5>1, <3>1, <1>2
      <4>2. i \in 1 .. 1
        BY <4>1, <2>1
      <4>3. i = 1
        BY ONLY <4>2
      <4> QED
        BY <4>3
    <3> QED
      BY <3>1, <1>3 DEF ListIsSingular
  <2>3. ListCutPosition(l, g, h, s[i]) = CutAfter(l, g, h, s[i])
    BY <2>1, <2>2, <1>3, <1>4 DEF ListCutPosition
  <2>4. Agree(CutAfter(l, g, h, s[i]),
              [ls EXCEPT ![g] = SubSeq(s, 1, i), ![h] = SubSeq(s, i + 1, Len(s))], lv \cup {g})
    BY <2>1, CutRing
  <2> QED
    BY <2>3, <2>4, <1>6
<1> QED
  BY <1>5, <1>6

LEMMA CutOffBefore ==
  ASSUME NEW l, NEW ls, NEW lv, Agree(l, ls, lv), NEW h \in lv, NEW s, s = ls[h],
         NEW i \in 1 .. Len(s) + 1, NEW g \in ListHead, g # h
  PROVE  Agree(ListCutBefore(l, g, h, At(h, s, i)),
               [ls EXCEPT ![g] = SubSeq(s, 1, i - 1), ![h] = SubSeq(s, i, Len(s))], lv \cup {g})
<1>1. /\ h \in ListHead /\ s \in Seq(ListEntry) /\ Len(s) \in Nat /\ Represents(l, h, s)
      /\ ls \in [ListHead -> Seq(ListEntry)] /\ l.next[h] = At(h, s, 1)
  <2>1. l.next[h] = At(h, s, 1)
    BY Neighbours
  <2> QED
    BY <2>1 DEF Agree
<1>2. CASE i = 1
  <2>1. ListCutBefore(l, g, h, At(h, s, 1)) = InitListHead(l, g)
    BY <1>1 DEF ListCutBefore
  <2>2. SubSeq(s, 1, 1 - 1) = <<>> /\ SubSeq(s, 1, Len(s)) = s
    BY <1>1, SubSeqEmpty, SubSeqFull
  <2>3. [ls EXCEPT ![g] = <<>>, ![h] = s] = [ls EXCEPT ![g] = <<>>]
    BY <1>1
  <2>4. Agree(InitListHead(l, g), [ls EXCEPT ![g] = <<>>], lv \cup {g})
    BY InitRing
  <2> QED
    BY <2>1, <2>2, <2>3, <2>4, <1>2
<1>3. CASE i # 1
  <2>1. PICK k \in 1 .. Len(s) : i = k + 1
    <3>1. i - 1 \in 1 .. Len(s) /\ i = (i - 1) + 1
      BY <1>1, <1>3
    <3> QED
      BY <3>1
  <2>2. k \in 0 .. Len(s) /\ 1 \in 1 .. Len(s) + 1 /\ k + 1 \in 1 .. Len(s) + 1 /\ k + 1 # 1
        /\ i - 1 = k
    BY <2>1, <1>1
  <2>3. At(h, s, k) = s[k]
    BY <1>1, Positions
  <2>4. l.prev[At(h, s, k + 1)] = s[k] /\ l.next[s[k]] = At(h, s, k + 1)
    BY <2>2, <2>3, <1>1 DEF Represents
  <2>5. At(h, s, 1) # At(h, s, k + 1)
    BY <2>2, CellsDiffer
  <2>6. ListCutBefore(l, g, h, At(h, s, k + 1)) = CutAfter(l, g, h, s[k])
    BY <2>4, <2>5, <1>1 DEF ListCutBefore, CutAfter
  <2>7. Agree(CutAfter(l, g, h, s[k]),
              [ls EXCEPT ![g] = SubSeq(s, 1, k), ![h] = SubSeq(s, k + 1, Len(s))], lv \cup {g})
    BY CutRing
  <2> QED
    BY <2>1, <2>2, <2>6, <2>7
<1> QED
  BY <1>2, <1>3

-----------------------------------------------------------------------------
LEMMA NextAgrees ==
  ASSUME NEW m, NEW ms, NEW mv, Agree(m, ms, mv), links' = m, lists' = ms, live' = mv
  PROVE  ListInv'
BY DEF ListInv, Agree, Mem, Represents, At

LEMMA OffIsOff ==
  ASSUME ListInv, NEW e \in Off
  PROVE  e \in ListEntry /\ \A h \in live : \A x \in 1 .. Len(lists[h]) : lists[h][x] # e
BY DEF Off, OnLists

LEMMA InitialiseStep ==
  ASSUME ListInv, NEW h \in ListHead, Initialise(h)
  PROVE  ListInv'
<1>1. Agree(InitListHead(links, h), [lists EXCEPT ![h] = <<>>], live \cup {h})
  BY InitRing DEF ListInv
<1> QED
  BY <1>1, NextAgrees DEF Initialise

LEMMA AddStep ==
  ASSUME ListInv, NEW h \in live, NEW e \in Off, Add(h, e) \/ AddTail(h, e)
  PROVE  ListInv'
<1>1. Loose(links, lists, live, <<e>>)
  BY OffIsOff, OneLoose
<1>2. CASE Add(h, e)
  <2>1. Agree(ListAdd(links, e, h), [lists EXCEPT ![h] = <<e>> \o lists[h]], live)
    BY <1>1, AddFront DEF ListInv
  <2> QED
    BY <2>1, <1>2, NextAgrees DEF Add
<1>3. CASE AddTail(h, e)
  <2>1. Agree(ListAddTail(links, e, h), [lists EXCEPT ![h] = Append(lists[h], e)], live)
    BY <1>1, AddBack DEF ListInv
  <2> QED
    BY <2>1, <1>3, NextAgrees DEF AddTail
<1> QED
  BY <1>2, <1>3

LEMMA DeleteStep ==
  ASSUME ListInv, NEW h \in live, NEW i \in 1 .. Len(lists[h]), Delete(h, i)
  PROVE  ListInv'
<1> DEFINE e == lists[h][i]
           d == DelEntry(links, e)
           ms == [lists EXCEPT ![h] = Without(lists[h], i)]
<1>1. lists[h] \in Seq(ListEntry) /\ e \in ListEntry
  BY ElementOfSeq DEF ListInv, Agree
<1>2. TakenOut(lists[h], i, i, Without(lists[h], i))
  BY <1>1, WithoutTaken
<1>3. Agree(d, ms, live) /\ Loose(d, ms, live, <<e>>)
  BY <1>2, RemoveOne DEF ListInv
<1> HIDE DEF d, ms, e
<1>4. \A k \in live : \A x \in 1 .. Len(ms[k]) : ms[k][x] # e
  <2>1. Len(<<e>>) = 1 /\ <<e>>[1] = e /\ 1 \in 1 .. Len(<<e>>)
    OBVIOUS
  <2> QED
    BY <2>1, <1>3 DEF Loose
<1>5. Agree([next |-> [d.next EXCEPT ![e] = Poison1], prev |-> [d.prev EXCEPT ![e] = Poison2]],
            ms, live)
  BY <1>1, <1>3, <1>4, LooseWritten
<1>6. Agree([next |-> [d.next EXCEPT ![e] = e], prev |-> [d.prev EXCEPT ![e] = e]], ms, live)
  BY <1>1, <1>3, <1>4, LooseWritten
<1>7. Agree(ListDel(links, e), ms, live)
  BY <1>5 DEF ListDel, d
<1>8. Agree(ListDelInit(links, e), ms, live)
  BY <1>6 DEF ListDelInit, InitListHead, d
<1>9. lists' = ms /\ live' = live /\ (links' = ListDel(links, e) \/ links' = ListDelInit(links, e))
  BY DEF Delete, ms, e
<1> QED
  BY <1>7, <1>8, <1>9, NextAgrees

LEMMA ReplaceStep ==
  ASSUME ListInv, NEW h \in live, NEW i \in 1 .. Len(lists[h]), NEW e \in Off, Replace(h, i, e)
  PROVE  ListInv'
<1> DEFINE old == lists[h][i]
           m == ListReplace(links, old, e)
           ms == [lists EXCEPT ![h] = [lists[h] EXCEPT ![i] = e]]
<1>1. lists[h] \in Seq(ListEntry) /\ old \in ListEntry
  BY ElementOfSeq DEF ListInv, Agree
<1>2. Agree(m, ms, live) /\ \A k \in live : \A x \in 1 .. Len(ms[k]) : ms[k][x] # old
  BY OffIsOff, ReplaceOne DEF ListInv
<1>3. lists' = ms /\ live' = live /\ links' \in {m, InitListHead(m, old)}
  BY DEF Replace
<1> HIDE DEF old, m, ms
<1>4. Agree(InitListHead(m, old), ms, live)
  BY <1>1, <1>2, LooseWritten DEF InitListHead
<1> QED
  BY <1>2, <1>3, <1>4, NextAgrees

LEMMA ReplaceHeadStep ==
  ASSUME ListInv, NEW h \in live, NEW g \in ListHead \ {h}, ReplaceHead(h, g)
  PROVE  ListInv'
<1>1. Agree(ListReplace(links, h, g), [lists EXCEPT ![g] = lists[h], ![h] = <<>>], (live \ {h}) \cup {g})
  BY ReplaceRing DEF ListInv, ReplaceHead
<1> QED
  BY <1>1, NextAgrees DEF ReplaceHead

LEMMA MoveStep ==
  ASSUME ListInv, NEW h \in live, NEW i \in 1 .. Len(lists[h]), NEW g \in live,
         Move(h, i, g) \/ MoveTail(h, i, g)
  PROVE  ListInv'
<1> DEFINE e == lists[h][i]
           d == DelEntry(links, e)
           left == [lists EXCEPT ![h] = Without(lists[h], i)]
<1>1. lists[h] \in Seq(ListEntry)
  BY DEF ListInv, Agree
<1>2. TakenOut(lists[h], i, i, Without(lists[h], i))
  BY <1>1, WithoutTaken
<1>3. Agree(d, left, live) /\ Loose(d, left, live, <<e>>)
  BY <1>2, RemoveOne DEF ListInv
<1>4. live' = live
  BY DEF Move, MoveTail
<1>5. CASE Move(h, i, g)
  <2>1. links' = ListAdd(d, e, g) /\ lists' = [left EXCEPT ![g] = <<e>> \o left[g]]
    BY <1>5 DEF Move, Moved, ListMove
  <2> HIDE DEF e, d, left
  <2>2. Agree(ListAdd(d, e, g), [left EXCEPT ![g] = <<e>> \o left[g]], live)
    BY <1>3, AddFront
  <2> QED
    BY <2>1, <2>2, <1>4, NextAgrees
<1>6. CASE MoveTail(h, i, g)
  <2>1. links' = ListAddTail(d, e, g) /\ lists' = [left EXCEPT ![g] = Append(left[g], e)]
    BY <1>6 DEF MoveTail, Moved, ListMoveTail
  <2> HIDE DEF e, d, left
  <2>2. Agree(ListAddTail(d, e, g), [left EXCEPT ![g] = Append(left[g], e)], live)
    BY <1>3, AddBack
  <2> QED
    BY <2>1, <2>2, <1>4, NextAgrees
<1> QED
  BY <1>5, <1>6

LEMMA BulkMoveStep ==
  ASSUME ListInv, NEW h \in live, NEW i \in 1 .. Len(lists[h]), NEW j \in 1 .. Len(lists[h]),
         BulkMoveTail(h, i, j)
  PROVE  ListInv'
<1> DEFINE s == lists[h]
           ms == [lists EXCEPT ![h] =
                    SubSeq(s, 1, i - 1) \o SubSeq(s, j + 1, Len(s)) \o SubSeq(s, i, j)]
<1>1. j \in i .. Len(s)
  BY DEF BulkMoveTail
<1>2. Agree(ListBulkMoveTail(links, h, s[i], s[j]), ms, live)
  BY <1>1, BulkMoved DEF ListInv
<1>3. links' = ListBulkMoveTail(links, h, s[i], s[j]) /\ lists' = ms /\ live' = live
  BY DEF BulkMoveTail
<1> HIDE DEF s, ms
<1> QED
  BY <1>2, <1>3, NextAgrees

LEMMA RotateStep ==
  ASSUME ListInv, NEW h \in live, RotateLeft(h)
  PROVE  ListInv'
<1>1. Agree(ListRotateLeft(links, h),
            [lists EXCEPT ![h] = IF lists[h] = <<>> THEN <<>>
                                 ELSE Append(Tail(lists[h]), Head(lists[h]))], live)
  BY RotatedLeft DEF ListInv
<1> QED
  BY <1>1, NextAgrees DEF RotateLeft

LEMMA CutPositionStep ==
  ASSUME ListInv, NEW h \in live, NEW g \in ListHead \ {h}, NEW i \in 0 .. Len(lists[h]),
         CutPosition(h, i, g)
  PROVE  ListInv'
<1> DEFINE s == lists[h]
           entry == IF i = 0 THEN h ELSE s[i]
<1>1. links' = ListCutPosition(links, g, h, entry)
  BY DEF CutPosition
<1>2. CASE s = <<>>
  <2>1. links.next[h] = At(h, s, 1)
    BY Neighbours DEF ListInv
  <2>2. ListEmpty(links, h)
    BY <2>1, <1>2, EmptySeq DEF ListEmpty, At
  <2>3. links' = links
    BY <2>2, <1>1 DEF ListCutPosition
  <2>4. lists' = lists /\ live' = live
    BY <1>2 DEF CutPosition
  <2>5. Agree(links, lists, live)
    BY DEF ListInv
  <2> QED
    BY <2>3, <2>4, <2>5, NextAgrees
<1>3. CASE s # <<>>
  <2> DEFINE ms == [lists EXCEPT ![g] = SubSeq(s, 1, i), ![h] = SubSeq(s, i + 1, Len(s))]
  <2>1. Agree(ListCutPosition(links, g, h, entry), ms, live \cup {g})
    BY <1>3, CutOff DEF ListInv
  <2>2. lists' = ms /\ live' = live \cup {g}
    BY <1>3 DEF CutPosition
  <2> HIDE DEF s, entry, ms
  <2> QED
    BY <2>1, <2>2, <1>1, NextAgrees
<1> QED
  BY <1>2, <1>3

LEMMA CutBeforeStep ==
  ASSUME ListInv, NEW h \in live, NEW g \in ListHead \ {h}, NEW i \in 1 .. Len(lists[h]) + 1,
         CutBefore(h, i, g)
  PROVE  ListInv'
<1> DEFINE s == lists[h]
           ms == [lists EXCEPT ![g] = SubSeq(s, 1, i - 1), ![h] = SubSeq(s, i, Len(s))]
<1>1. Agree(ListCutBefore(links, g, h, At(h, s, i)), ms, live \cup {g})
  BY CutOffBefore DEF ListInv
<1>2. At(h, s, i) = IF i = Len(s) + 1 THEN h ELSE s[i]
  <2>1. Len(s) \in Nat
    BY DEF ListInv, Agree
  <2>2. i = Len(s) + 1 \/ i \in 1 .. Len(s)
    BY <2>1
  <2>3. Len(s) + 1 \notin 1 .. Len(s)
    BY <2>1
  <2> QED
    BY <2>2, <2>3 DEF At
<1>3. links' = ListCutBefore(links, g, h, At(h, s, i)) /\ lists' = ms /\ live' = live \cup {g}
  BY <1>2 DEF CutBefore
<1> HIDE DEF s, ms
<1> QED
  BY <1>1, <1>3, NextAgrees

LEMMA SpliceStep ==
  ASSUME ListInv, NEW h \in live, NEW g \in live \ {h},
         \/ Splice(h, g) \/ SpliceTail(h, g) \/ SpliceInit(h, g) \/ SpliceTailInit(h, g)
  PROVE  ListInv'
<1>1. /\ Agree(links, lists, live) /\ h \in ListHead /\ g \in ListHead /\ g \in live /\ g # h
      /\ lists \in [ListHead -> Seq(ListEntry)]
  BY DEF ListInv, Agree
<1>2. CASE lists[h] = <<>>
  <2>1. links.next[h] = At(h, lists[h], 1)
    BY <1>1, Neighbours
  <2>2. ListEmpty(links, h)
    BY <2>1, <1>2, EmptySeq DEF ListEmpty, At
  <2>3. links' = links /\ live' = live
    BY <2>2, <1>2 DEF Splice, SpliceTail, SpliceInit, SpliceTailInit,
                      ListSplice, ListSpliceTail, ListSpliceInit, ListSpliceTailInit
  <2>4. Spliced(h, g, FALSE) = lists /\ Spliced(h, g, TRUE) = lists
    <3>1. lists[g] \o <<>> = lists[g] /\ <<>> \o lists[g] = lists[g]
      BY <1>1, ConcatEmptySeq
    <3>2. [lists EXCEPT ![g] = lists[g], ![h] = lists[h]] = lists
      BY <1>1
    <3> QED
      BY <3>1, <3>2, <1>2 DEF Spliced
  <2>5. lists' = lists
    BY <2>4 DEF Splice, SpliceTail, SpliceInit, SpliceTailInit
  <2> QED
    BY <2>3, <2>5, <1>1, NextAgrees
<1>3. CASE lists[h] # <<>>
  <2> DEFINE f == SpliceBetween(links, h, g, links.next[g])
             b == SpliceBetween(links, h, links.prev[g], g)
             fs == Spliced(h, g, FALSE)
             bs == Spliced(h, g, TRUE)
  <2>1. ~ListEmpty(links, h)
    <3>1. 1 \in 1 .. Len(lists[h])
      BY <1>1, <1>3, EmptySeq
    <3>2. links.next[h] = lists[h][1] /\ lists[h][1] # h
      BY <3>1, <1>1, Neighbours, Positions DEF At
    <3> QED
      BY <3>2 DEF ListEmpty
  <2>2. Agree(f, fs, live \ {h}) /\ Agree(b, bs, live \ {h})
    BY <1>1, <1>3, SpliceFront, SpliceBack DEF Spliced
  <2>3. [fs EXCEPT ![h] = <<>>] = fs /\ [bs EXCEPT ![h] = <<>>] = bs
    BY <1>1 DEF Spliced
  <2>4. \/ links' = f /\ lists' = fs /\ live' = live \ {h}
        \/ links' = b /\ lists' = bs /\ live' = live \ {h}
        \/ links' = InitListHead(f, h) /\ lists' = fs /\ live' = live
        \/ links' = InitListHead(b, h) /\ lists' = bs /\ live' = live
    BY <2>1, <1>3 DEF Splice, SpliceTail, SpliceInit, SpliceTailInit,
                      ListSplice, ListSpliceTail, ListSpliceInit, ListSpliceTailInit
  <2> HIDE DEF f, b, fs, bs
  <2>5. (live \ {h}) \cup {h} = live
    OBVIOUS
  <2>6. Agree(InitListHead(f, h), fs, live)
    <3>1. Agree(InitListHead(f, h), [fs EXCEPT ![h] = <<>>], (live \ {h}) \cup {h})
      BY <1>1, <2>2, InitRing
    <3> QED
      BY <3>1, <2>3, <2>5
  <2>7. Agree(InitListHead(b, h), bs, live)
    <3>1. Agree(InitListHead(b, h), [bs EXCEPT ![h] = <<>>], (live \ {h}) \cup {h})
      BY <1>1, <2>2, InitRing
    <3> QED
      BY <3>1, <2>3, <2>5
  <2> QED
    BY <2>2, <2>4, <2>6, <2>7, NextAgrees
<1> QED
  BY <1>2, <1>3

LEMMA ListInitHolds ==
  ASSUME ListInit
  PROVE  ListInv
<1>1. Mem(links) /\ live \subseteq ListHead
  BY DEF ListInit, Mem
<1>2. <<>> \in Seq(ListEntry) /\ Len(<<>>) = 0
  BY EmptySeq
<1>3. lists \in [ListHead -> Seq(ListEntry)]
  BY <1>2 DEF ListInit
<1>4. ASSUME NEW h \in live
      PROVE  Represents(links, h, lists[h])
  <2>1. links.next[h] = h /\ links.prev[h] = h /\ lists[h] = <<>>
    BY DEF ListInit, Cell
  <2>2. ASSUME NEW x \in 0 .. Len(lists[h])
        PROVE  At(h, lists[h], x) = h /\ At(h, lists[h], x + 1) = h
    <3>1. x = 0 /\ x \notin 1 .. 0 /\ x + 1 \notin 1 .. 0
      BY <2>1, <1>2
    <3> QED
      BY <3>1, <2>1, <1>2 DEF At
  <2> QED
    BY <2>1, <2>2 DEF Represents
<1> QED
  BY <1>1, <1>3, <1>4 DEF ListInv, Agree

LEMMA ListInvStep ==
  ASSUME ListInv, [ListNext]_listVars
  PROVE  ListInv'
<1>1. CASE ListNext
  BY <1>1, InitialiseStep, RotateStep, AddStep, ReplaceHeadStep, CutPositionStep, CutBeforeStep,
     DeleteStep, ReplaceStep, MoveStep, BulkMoveStep, SpliceStep DEF ListNext
<1>2. CASE UNCHANGED listVars
  BY <1>2, NextAgrees DEF listVars, ListInv
<1> QED
  BY <1>1, <1>2

(***************************************************************************)
(* After any sequence of the calls of list.h, every initialised head is    *)
(* the ring of exactly the entries the calls mean, in both directions, and *)
(* no entry is on two places: for any number of heads and entries and      *)
(* lists of any length.                                                    *)
(***************************************************************************)
THEOREM ListsAlwaysLinked == ListSpec => []ListsLinked
<1>1. ListInit => ListInv
  BY ListInitHolds
<1>2. ListInv /\ [ListNext]_listVars => ListInv'
  BY ListInvStep
<1>3. ListInv => ListsLinked
  <2> SUFFICES ASSUME ListInv PROVE ListsLinked
    OBVIOUS
  <2>1. OnOneList
    BY OnlyOnce DEF ListInv, OnOneList
  <2> QED
    BY <2>1 DEF ListInv, Agree, ListsLinked
<1> QED
  BY <1>1, <1>2, <1>3, PTL DEF ListSpec

-----------------------------------------------------------------------------
(***************************************************************************)
(* The loops of ListWalks.  A loop is a recursion of as many rounds as     *)
(* there are cells and one more; a walk along a ring has fewer, because it *)
(* meets no cell twice.                                                    *)
(***************************************************************************)
(* What holds at 0, and at n + 1 if at n, holds at every index of a range. *)
LEMMA UpTo ==
  ASSUME NEW n \in Nat, NEW T, 0 \in T, \A i \in 0 .. n - 1 : i \in T => i + 1 \in T
  PROVE  0 .. n \subseteq T
<1> SUFFICES ASSUME {i \in 0 .. n : i \notin T} # {} PROVE FALSE
  OBVIOUS
<1>1. PICK m \in {i \in 0 .. n : i \notin T} : \A i \in {i \in 0 .. n : i \notin T} : m <= i
  <2>1. {i \in 0 .. n : i \notin T} \subseteq Nat
    OBVIOUS
  <2> QED
    BY <2>1, LeastOf
<1>2. m # 0 /\ m - 1 \in 0 .. n - 1 /\ m - 1 \in 0 .. n /\ (m - 1) + 1 = m
  BY <1>1
<1>3. m - 1 \in T
  BY <1>1, <1>2
<1> QED
  BY <1>1, <1>2, <1>3

(* w has the values of a recursion over a range.  There are such values.   *)
Recursion(n, c, step, w) ==
  w = [k \in 0 .. n |-> IF k = 0 THEN c ELSE step[<<k - 1, w[k - 1]>>]]

LEMMA RecursionRuns ==
  ASSUME NEW n \in Nat, NEW c, NEW step
  PROVE  \E w : Recursion(n, c, step, w)
<1> DEFINE Ran(m) == \E w : w = [k \in 0 .. m |-> IF k = 0 THEN c ELSE step[<<k - 1, w[k - 1]>>]]
           T == {m \in 0 .. n : Ran(m)}
<1>1. 0 \in T
  <2>1. [k \in 0 .. 0 |-> c] = [k \in 0 .. 0 |-> IF k = 0 THEN c ELSE step[<<k - 1, [j \in 0 .. 0 |-> c][k - 1]>>]]
    OBVIOUS
  <2>2. Ran(0)
    BY <2>1
  <2> HIDE DEF Ran
  <2> QED
    BY <2>2
<1>2. ASSUME NEW i \in 0 .. n - 1, i \in T PROVE i + 1 \in T
  <2>1. PICK w : w = [k \in 0 .. i |-> IF k = 0 THEN c ELSE step[<<k - 1, w[k - 1]>>]]
    BY <1>2
  <2> DEFINE x == step[<<i, w[i]>>]
             v == [k \in 0 .. i + 1 |-> IF k = i + 1 THEN x ELSE w[k]]
  <2>2. \A k \in 0 .. i : v[k] = w[k]
    OBVIOUS
  <2>3. v[i + 1] = step[<<i, v[i]>>]
    <3>1. v[i + 1] = x /\ v[i] = w[i]
      BY <2>2
    <3> HIDE DEF v
    <3> QED
      BY <3>1
  <2>4. ASSUME NEW k \in 0 .. i + 1
        PROVE  v[k] = IF k = 0 THEN c ELSE step[<<k - 1, v[k - 1]>>]
    <3>1. CASE k = i + 1
      <4>1. i + 1 # 0 /\ (i + 1) - 1 = i
        OBVIOUS
      <4> QED
        BY <2>3, <3>1, <4>1
    <3>2. CASE k # i + 1
      <4>1. k \in 0 .. i /\ (k # 0 => k - 1 \in 0 .. i)
        BY <3>2
      <4>2. w[k] = IF k = 0 THEN c ELSE step[<<k - 1, w[k - 1]>>]
        BY <2>1, <4>1
      <4> QED
        BY <2>2, <4>1, <4>2
    <3> QED
      BY <3>1, <3>2
  <2>5. v = [k \in 0 .. i + 1 |-> v[k]]
    OBVIOUS
  <2> HIDE DEF v, x
  <2>6. v = [k \in 0 .. i + 1 |-> IF k = 0 THEN c ELSE step[<<k - 1, v[k - 1]>>]]
    BY <2>4, <2>5
  <2>7. Ran(i + 1)
    BY <2>6
  <2>8. i + 1 \in 0 .. n
    OBVIOUS
  <2> HIDE DEF Ran
  <2> QED
    BY <2>7, <2>8
<1>3. n \in T
  <2> HIDE DEF T
  <2>1. 0 .. n \subseteq T
    BY <1>1, <1>2, UpTo
  <2> QED
    BY <2>1
<1> QED
  BY <1>3 DEF Recursion

(* What comes at the x-th place of a walk over t to end.                   *)
Nth(t, x, end) == IF x \in 1 .. Len(t) THEN t[x] ELSE end

(* The pointers to lead along t to end.                                    *)
Leads(to, t, end) ==
  /\ t \in Seq(Cell \cup Holder)
  /\ \A x, y \in 1 .. Len(t) : t[x] = t[y] => x = y
  /\ \A x \in 1 .. Len(t) : t[x] # end /\ to[t[x]] = Nth(t, x + 1, end)

(* Two sequences of one length with the same elements are one.             *)
LEMMA SameSequence ==
  ASSUME NEW S, NEW s \in Seq(S), NEW t \in Seq(S), Len(s) = Len(t),
         \A k \in 1 .. Len(s) : s[k] = t[k]
  PROVE  s = t
  OBVIOUS

(* A walk that meets no cell twice fits into the rounds a loop has.        *)
LEMMA WalkFits ==
  ASSUME NEW t \in Seq(Cell \cup Holder), \A x, y \in 1 .. Len(t) : t[x] = t[y] => x = y
  PROVE  Cells \in Nat /\ Len(t) \in Nat /\ Len(t) <= Cells
<1> DEFINE n == Len(t)  C == Cell \cup Holder
<1>1. n \in Nat /\ t \in [1 .. n -> C]
  OBVIOUS
<1>2. IsFiniteSet(C) /\ Cardinality(C) \in Nat
  BY WalkAssumption, FS_CardinalityType
<1> HIDE DEF n, C
<1>3. t \in Injection(1 .. n, C)
  <2>1. DOMAIN t = 1 .. n
    BY <1>1
  <2>2. \A x, y \in 1 .. n : t[x] = t[y] => x = y
    BY DEF n
  <2> QED
    BY <1>1, <2>1, <2>2 DEF Injection, IsInjective
<1>4. Cardinality(1 .. n) <= Cardinality(C)
  BY <1>2, <1>3, FS_Injection
<1>5. Cardinality(1 .. n) = n
  BY <1>1, FS_Interval
<1> QED
  BY <1>1, <1>2, <1>4, <1>5 DEF Cells, n, C

(* A loop over pointers that lead along t to its end meets t.              *)
LEMMA LoopMeets ==
  ASSUME NEW to, NEW end, NEW t, Leads(to, t, end), NEW first, first = Nth(t, 1, end)
  PROVE  ForEach(to, first, end) = t
<1> DEFINE n == Len(t)  N == Cells + 1
           Met(k) == SubSeq(t, 1, IF k < n THEN k ELSE n)
           At0(k) == [pos |-> Nth(t, k + 1, end), seen |-> Met(k)]
           start == [pos |-> first, seen |-> <<>>]
           Round(w) == IF w.pos = end THEN w
                       ELSE [pos |-> to[w.pos], seen |-> Append(w.seen, w.pos)]
           W == CHOOSE v : v = [k \in 0 .. N |-> IF k = 0 THEN start ELSE Round(v[k - 1])]
           F == [k \in 0 .. N |-> At0(k)]
<1>1. n \in Nat /\ N \in Nat /\ n <= N /\ t \in Seq(Cell \cup Holder)
  <2>1. t \in Seq(Cell \cup Holder) /\ \A x, y \in 1 .. Len(t) : t[x] = t[y] => x = y
    BY DEF Leads
  <2>2. Cells \in Nat /\ Len(t) \in Nat /\ Len(t) <= Cells
    BY <2>1, WalkFits
  <2> QED
    BY <2>1, <2>2
<1>2. ForEach(to, first, end) = W[N].seen
  BY DEF ForEach, Loop
<1>3. \A x \in 1 .. n : t[x] # end /\ to[t[x]] = Nth(t, x + 1, end)
  BY DEF Leads
<1> HIDE DEF N
<1>4. At0(0) = start
  <2>1. SubSeq(t, 1, 0) = <<>>
    BY SubSeqEmpty
  <2>2. (IF 0 < n THEN 0 ELSE n) = 0 /\ 0 + 1 = 1
    BY <1>1
  <2> QED
    BY <2>1, <2>2
<1>5. ASSUME NEW k \in 0 .. N - 1 PROVE At0(k + 1) = Round(At0(k))
  <2>1. CASE k < n
    <3>1. k + 1 \in 1 .. n /\ k \in 0 .. n
      BY <1>1, <2>1
    <3>2. Nth(t, k + 1, end) = t[k + 1]
      BY <3>1 DEF Nth
    <3>3. Met(k + 1) = Append(Met(k), t[k + 1])
      <4>1. (IF k < n THEN k ELSE n) = k /\ (IF k + 1 < n THEN k + 1 ELSE n) = k + 1
        BY <1>1, <2>1
      <4>2. 1 \in 1 .. Len(t) /\ k + 1 \in 1 .. Len(t) /\ (k + 1) - 1 = k
        BY <1>1, <3>1
      <4>3. SubSeq(t, 1, k + 1) = SubSeq(t, 1, k) \o <<t[k + 1]>>
        BY <1>1, <4>2, SubSeqRecursiveSecond
      <4>4. SubSeq(t, 1, k) \in Seq(Cell \cup Holder) /\ t[k + 1] \in Cell \cup Holder
        BY <1>1, <4>2, SubSeqProperties
      <4> QED
        BY <4>1, <4>3, <4>4, AppendIsConcat
    <3> HIDE DEF Met
    <3>4. t[k + 1] # end /\ to[t[k + 1]] = Nth(t, (k + 1) + 1, end)
      BY <1>3, <3>1
    <3> QED
      BY <3>2, <3>3, <3>4
  <2>2. CASE ~(k < n)
    <3>1. Nth(t, k + 1, end) = end /\ Nth(t, (k + 1) + 1, end) = end
      BY <1>1, <2>2 DEF Nth
    <3>2. Met(k + 1) = Met(k)
      BY <1>1, <2>2
    <3> HIDE DEF Met
    <3> QED
      BY <3>1, <3>2
  <2> QED
    BY <2>1, <2>2
<1>6. F = [k \in 0 .. N |-> IF k = 0 THEN start ELSE Round(F[k - 1])]
  <2>1. ASSUME NEW k \in 0 .. N PROVE At0(k) = IF k = 0 THEN start ELSE Round(F[k - 1])
    <3>1. CASE k = 0
      BY <1>4, <3>1
    <3>2. CASE k # 0
      <4>1. k - 1 \in 0 .. N - 1 /\ k - 1 \in 0 .. N /\ (k - 1) + 1 = k
        BY <1>1, <3>2
      <4> HIDE DEF At0, Round
      <4>2. F[k - 1] = At0(k - 1)
        BY <4>1
      <4> QED
        BY <1>5, <3>2, <4>1, <4>2
    <3> QED
      BY <3>1, <3>2
  <2> HIDE DEF At0, Round, start
  <2> QED
    BY <2>1
<1> HIDE DEF F, start, Round
<1>7. W = [k \in 0 .. N |-> IF k = 0 THEN start ELSE Round(W[k - 1])]
  BY <1>6
<1> HIDE DEF W
<1>8. W[N] = At0(N)
  <2> DEFINE T == {k \in 0 .. N : W[k] = At0(k)}
  <2>1. 0 \in T
    BY <1>1, <1>4, <1>7
  <2>2. ASSUME NEW i \in 0 .. N - 1, i \in T PROVE i + 1 \in T
    <3>1. i + 1 \in 0 .. N /\ i + 1 # 0 /\ (i + 1) - 1 = i
      BY <1>1
    <3>2. W[i + 1] = Round(W[i])
      BY <1>7, <3>1
    <3> HIDE DEF At0
    <3> QED
      BY <1>5, <2>2, <3>1, <3>2
  <2> HIDE DEF T
  <2>3. 0 .. N \subseteq T
    BY <1>1, <2>1, <2>2, UpTo
  <2> QED
    BY <1>1, <2>3 DEF T
<1>9. Met(N) = t
  BY <1>1, SubSeqFull
<1> HIDE DEF Met
<1> QED
  BY <1>2, <1>8, <1>9

(* The entries of a list from the i-th on, and those up to it backwards.   *)
LEMMA Onward ==
  ASSUME NEW l, NEW ls, NEW lv, Agree(l, ls, lv), NEW h \in lv, NEW s, s = ls[h],
         NEW i \in 1 .. Len(s) + 1
  PROVE  ForEach(l.next, At(h, s, i), h) = SubSeq(s, i, Len(s))
<1> DEFINE n == Len(s)  t == SubSeq(s, i, n)
<1>1. h \in ListHead /\ s \in Seq(ListEntry) /\ n \in Nat /\ i \in Nat /\ i <= n + 1
  BY DEF Agree
<1>2. /\ \A x \in 1 .. n : s[x] \in ListEntry /\ s[x] # h /\ s[x] \in Cell
      /\ \A x, y \in 1 .. n : s[x] = s[y] => x = y
  BY <1>1, OnlyOnce, Positions
<1>3. \A x \in 1 .. n : l.next[s[x]] = At(h, s, x + 1)
  BY <1>1, Positions DEF Agree, Represents
<1>4. /\ t \in Seq(Cell \cup Holder) /\ Len(t) = n + 1 - i
      /\ \A x \in 1 .. n + 1 - i : t[x] = s[i + x - 1]
  <2>1. \A x \in i .. n : s[x] \in Cell \cup Holder
    BY <1>1, <1>2
  <2>2. /\ SubSeq(s, i, n) \in Seq(Cell \cup Holder)
        /\ Len(SubSeq(s, i, n)) = IF i <= n THEN n - i + 1 ELSE 0
        /\ \A x \in 1 .. n - i + 1 : SubSeq(s, i, n)[x] = s[i + x - 1]
    BY <1>1, <2>1, SubSeqProperties
  <2> QED
    BY <1>1, <2>2
<1> HIDE DEF n, t
<1>5. ASSUME NEW x \in 1 .. n + 1 - i
      PROVE  i + x - 1 \in 1 .. n /\ Nth(t, x + 1, h) = At(h, s, (i + x - 1) + 1)
  <2>1. i + x - 1 \in 1 .. n /\ (i + x - 1) + 1 = i + x
    BY <1>1
  <2>2. CASE x + 1 \in 1 .. n + 1 - i
    <3>1. i + (x + 1) - 1 = i + x /\ i + x \in 1 .. n
      BY <1>1, <2>2
    <3> QED
      BY <1>4, <2>1, <2>2, <3>1 DEF Nth, At, n
  <2>3. CASE x + 1 \notin 1 .. n + 1 - i
    <3>1. i + x \notin 1 .. n
      BY <1>1, <2>3
    <3> QED
      BY <1>4, <2>1, <2>3, <3>1 DEF Nth, At, n
  <2> QED
    BY <2>1, <2>2, <2>3
<1>6. \A x, y \in 1 .. Len(t) : t[x] = t[y] => x = y
  <2> SUFFICES ASSUME NEW x \in 1 .. n + 1 - i, NEW y \in 1 .. n + 1 - i, t[x] = t[y]
               PROVE  x = y
    BY <1>4
  <2>1. i + x - 1 \in 1 .. n /\ i + y - 1 \in 1 .. n
    BY <1>5
  <2>2. i + x - 1 = i + y - 1
    BY <1>2, <1>4, <2>1
  <2>3. i \in Nat /\ x \in Int /\ y \in Int
    BY <1>1
  <2> QED
    BY ONLY <2>2, <2>3
<1>7. Leads(l.next, t, h)
  <2>1. ASSUME NEW x \in 1 .. Len(t)
        PROVE  t[x] # h /\ l.next[t[x]] = Nth(t, x + 1, h)
    <3>1. x \in 1 .. n + 1 - i
      BY <1>4
    <3>2. /\ i + x - 1 \in 1 .. n /\ t[x] = s[i + x - 1]
          /\ Nth(t, x + 1, h) = At(h, s, (i + x - 1) + 1)
      BY <1>4, <1>5, <3>1
    <3> QED
      BY <1>2, <1>3, <3>2
  <2> QED
    BY <1>4, <1>6, <2>1 DEF Leads
<1>8. At(h, s, i) = Nth(t, 1, h)
  <2>1. CASE i = n + 1
    BY <1>1, <1>4, <2>1 DEF Nth, At, n
  <2>2. CASE i # n + 1
    <3>1. i \in 1 .. n /\ 1 \in 1 .. n + 1 - i /\ i + 1 - 1 = i
      BY <1>1, <2>2
    <3> QED
      BY <1>4, <3>1 DEF Nth, At, n
  <2> QED
    BY <2>1, <2>2
<1>9. ForEach(l.next, At(h, s, i), h) = t
  BY <1>7, <1>8, LoopMeets
<1> QED
  BY <1>9 DEF t, n

LEMMA Backwards ==
  ASSUME NEW l, NEW ls, NEW lv, Agree(l, ls, lv), NEW h \in lv, NEW s, s = ls[h],
         NEW i \in 0 .. Len(s)
  PROVE  ForEach(l.prev, At(h, s, i), h) = Reverse(SubSeq(s, 1, i))
<1> DEFINE n == Len(s)  u == SubSeq(s, 1, i)  t == Reverse(u)
<1>1. h \in ListHead /\ s \in Seq(ListEntry) /\ n \in Nat /\ i \in Nat /\ i <= n
  BY DEF Agree
<1>2. /\ \A x \in 1 .. n : s[x] \in ListEntry /\ s[x] # h /\ s[x] \in Cell
      /\ \A x, y \in 1 .. n : s[x] = s[y] => x = y
  BY <1>1, OnlyOnce, Positions
<1>3. \A x \in 1 .. n : l.prev[s[x]] = At(h, s, x - 1)
  <2> SUFFICES ASSUME NEW x \in 1 .. n PROVE l.prev[s[x]] = At(h, s, x - 1)
    OBVIOUS
  <2>1. x - 1 \in 0 .. Len(s) /\ (x - 1) + 1 = x
    BY <1>1
  <2>2. Represents(l, h, s)
    BY DEF Agree
  <2>3. At(h, s, x) = s[x]
    BY DEF At
  <2> QED
    BY <2>1, <2>2, <2>3 DEF Represents
<1>4. /\ t \in Seq(Cell \cup Holder) /\ Len(t) = i
      /\ \A x \in 1 .. i : t[x] = s[i + 1 - x]
  <2>1. \A x \in 1 .. i : s[x] \in Cell \cup Holder
    BY <1>1, <1>2
  <2>2. /\ u \in Seq(Cell \cup Holder) /\ Len(u) = i
        /\ \A x \in 1 .. i : u[x] = s[x]
    <3>1. /\ SubSeq(s, 1, i) \in Seq(Cell \cup Holder)
          /\ Len(SubSeq(s, 1, i)) = IF 1 <= i THEN i - 1 + 1 ELSE 0
          /\ \A x \in 1 .. i - 1 + 1 : SubSeq(s, 1, i)[x] = s[1 + x - 1]
      BY <1>1, <2>1, SubSeqProperties
    <3> QED
      BY <1>1, <3>1
  <2> HIDE DEF u
  <2>3. t = [x \in 1 .. i |-> u[(i - x) + 1]]
    BY <2>2 DEF Reverse
  <2>4. \A x \in 1 .. i : (i - x) + 1 \in 1 .. i /\ (i - x) + 1 = i + 1 - x
    BY <1>1
  <2>5. \A x \in 1 .. i : t[x] = s[i + 1 - x] /\ t[x] \in Cell \cup Holder
    BY <2>1, <2>2, <2>3, <2>4
  <2> HIDE DEF t
  <2>6. t \in [1 .. i -> Cell \cup Holder]
    BY <2>3, <2>5
  <2> QED
    BY <1>1, <2>5, <2>6
<1> HIDE DEF n, t, u
<1>5. ASSUME NEW x \in 1 .. i
      PROVE  i + 1 - x \in 1 .. n /\ Nth(t, x + 1, h) = At(h, s, (i + 1 - x) - 1)
  <2>1. i + 1 - x \in 1 .. n /\ (i + 1 - x) - 1 = i - x
    BY <1>1
  <2>2. CASE x + 1 \in 1 .. i
    <3>1. i + 1 - (x + 1) = i - x /\ i - x \in 1 .. n
      BY <1>1, <2>2
    <3> QED
      BY <1>4, <2>1, <2>2, <3>1 DEF Nth, At, n
  <2>3. CASE x + 1 \notin 1 .. i
    <3>1. i - x \notin 1 .. n
      BY <1>1, <2>3
    <3> QED
      BY <1>4, <2>1, <2>3, <3>1 DEF Nth, At, n
  <2> QED
    BY <2>1, <2>2, <2>3
<1>6. \A x, y \in 1 .. Len(t) : t[x] = t[y] => x = y
  <2> SUFFICES ASSUME NEW x \in 1 .. i, NEW y \in 1 .. i, t[x] = t[y]
               PROVE  x = y
    BY <1>4
  <2>1. i + 1 - x \in 1 .. n /\ i + 1 - y \in 1 .. n
    BY <1>5
  <2>2. i + 1 - x = i + 1 - y
    BY <1>2, <1>4, <2>1
  <2>3. i \in Nat /\ x \in Int /\ y \in Int
    BY <1>1
  <2> QED
    BY ONLY <2>2, <2>3
<1>7. Leads(l.prev, t, h)
  <2>1. ASSUME NEW x \in 1 .. Len(t)
        PROVE  t[x] # h /\ l.prev[t[x]] = Nth(t, x + 1, h)
    <3>1. x \in 1 .. i
      BY <1>4
    <3>2. /\ i + 1 - x \in 1 .. n /\ t[x] = s[i + 1 - x]
          /\ Nth(t, x + 1, h) = At(h, s, (i + 1 - x) - 1)
      BY <1>4, <1>5, <3>1
    <3> QED
      BY <1>2, <1>3, <3>2
  <2> QED
    BY <1>4, <1>6, <2>1 DEF Leads
<1>8. At(h, s, i) = Nth(t, 1, h)
  <2>1. CASE i = 0
    BY <1>1, <1>4, <2>1 DEF Nth, At, n
  <2>2. CASE i # 0
    <3>1. i \in 1 .. n /\ 1 \in 1 .. i /\ i + 1 - 1 = i
      BY <1>1, <2>2
    <3> QED
      BY <1>4, <3>1 DEF Nth, At, n
  <2> QED
    BY <2>1, <2>2
<1>9. ForEach(l.prev, At(h, s, i), h) = t
  BY <1>7, <1>8, LoopMeets
<1> QED
  BY <1>9 DEF t, u

(* The nodes of a list with a one-word head from the i-th on.              *)
LEMMA HOnward ==
  ASSUME NEW l, NEW ls, NEW fk, Chained(l, ls, fk), NEW h \in HlistHead, NEW s, s = ls[h],
         NEW i \in 1 .. Len(s) + 1
  PROVE  ForEach(l.pointer, HAt(h, s, i), HNull) = SubSeq(s, i, Len(s))
<1> DEFINE n == Len(s)  t == SubSeq(s, i, n)
<1>1. s \in Seq(HlistNode) /\ n \in Nat /\ i \in Nat /\ i <= n + 1
  BY DEF Chained, Apart
<1>2. /\ \A x \in 1 .. n : s[x] \in HlistNode /\ s[x] # HNull /\ s[x] \in Holder
      /\ \A x, y \in 1 .. n : s[x] = s[y] => x = y
  <2>1. \A x \in 1 .. n : s[x] \in HlistNode
    BY <1>1
  <2>2. \A x, y \in 1 .. n : s[x] = s[y] => x = y
    BY DEF Chained, Apart, Once
  <2> QED
    BY <2>1, <2>2, HlistAssumption DEF Holder
<1>3. \A x \in 1 .. n : l.pointer[s[x]] = HAt(h, s, x + 1)
  <2> SUFFICES ASSUME NEW x \in 1 .. n PROVE l.pointer[s[x]] = HAt(h, s, x + 1)
    OBVIOUS
  <2>1. x \in 0 .. Len(s) /\ HAt(h, s, x) = s[x]
    BY <1>1 DEF HAt
  <2>2. HRepresents(l, h, s)
    BY DEF Chained
  <2> QED
    BY <2>1, <2>2 DEF HRepresents
<1>4. /\ t \in Seq(Cell \cup Holder) /\ Len(t) = n + 1 - i
      /\ \A x \in 1 .. n + 1 - i : t[x] = s[i + x - 1]
  <2>1. \A x \in i .. n : s[x] \in Cell \cup Holder
    BY <1>1, <1>2
  <2>2. /\ SubSeq(s, i, n) \in Seq(Cell \cup Holder)
        /\ Len(SubSeq(s, i, n)) = IF i <= n THEN n - i + 1 ELSE 0
        /\ \A x \in 1 .. n - i + 1 : SubSeq(s, i, n)[x] = s[i + x - 1]
    BY <1>1, <2>1, SubSeqProperties
  <2> QED
    BY <1>1, <2>2
<1> HIDE DEF n, t
<1>5. ASSUME NEW x \in 1 .. n + 1 - i
      PROVE  i + x - 1 \in 1 .. n /\ Nth(t, x + 1, HNull) = HAt(h, s, (i + x - 1) + 1)
  <2>1. i + x - 1 \in 1 .. n /\ (i + x - 1) + 1 = i + x /\ i + x # 0
    BY <1>1
  <2>2. CASE x + 1 \in 1 .. n + 1 - i
    <3>1. i + (x + 1) - 1 = i + x /\ i + x \in 1 .. n
      BY <1>1, <2>2
    <3> QED
      BY <1>4, <2>1, <2>2, <3>1 DEF Nth, HAt, n
  <2>3. CASE x + 1 \notin 1 .. n + 1 - i
    <3>1. i + x \notin 1 .. n
      BY <1>1, <2>3
    <3> QED
      BY <1>4, <2>1, <2>3, <3>1 DEF Nth, HAt, n
  <2> QED
    BY <2>1, <2>2, <2>3
<1>6. \A x, y \in 1 .. Len(t) : t[x] = t[y] => x = y
  <2> SUFFICES ASSUME NEW x \in 1 .. n + 1 - i, NEW y \in 1 .. n + 1 - i, t[x] = t[y]
               PROVE  x = y
    BY <1>4
  <2>1. i + x - 1 \in 1 .. n /\ i + y - 1 \in 1 .. n
    BY <1>5
  <2>2. i + x - 1 = i + y - 1
    BY <1>2, <1>4, <2>1
  <2>3. i \in Nat /\ x \in Int /\ y \in Int
    BY <1>1
  <2> QED
    BY ONLY <2>2, <2>3
<1>7. Leads(l.pointer, t, HNull)
  <2>1. ASSUME NEW x \in 1 .. Len(t)
        PROVE  t[x] # HNull /\ l.pointer[t[x]] = Nth(t, x + 1, HNull)
    <3>1. x \in 1 .. n + 1 - i
      BY <1>4
    <3>2. /\ i + x - 1 \in 1 .. n /\ t[x] = s[i + x - 1]
          /\ Nth(t, x + 1, HNull) = HAt(h, s, (i + x - 1) + 1)
      BY <1>4, <1>5, <3>1
    <3> QED
      BY <1>2, <1>3, <3>2
  <2> QED
    BY <1>4, <1>6, <2>1 DEF Leads
<1>8. HAt(h, s, i) = Nth(t, 1, HNull)
  <2>1. CASE i = n + 1
    BY <1>1, <1>4, <2>1 DEF Nth, HAt, n
  <2>2. CASE i # n + 1
    <3>1. i \in 1 .. n /\ 1 \in 1 .. n + 1 - i /\ i + 1 - 1 = i /\ i # 0
      BY <1>1, <2>2
    <3> QED
      BY <1>4, <3>1 DEF Nth, HAt, n
  <2> QED
    BY <2>1, <2>2
<1>9. ForEach(l.pointer, HAt(h, s, i), HNull) = t
  BY <1>7, <1>8, LoopMeets
<1> QED
  BY <1>9 DEF t, n

-----------------------------------------------------------------------------
(* kept[k] is what is left of the first k elements of s without gone.      *)
Kept(S, s, gone, kept) ==
  /\ kept \in [0 .. Len(s) -> Seq(S)] /\ kept[0] = <<>>
  /\ \A i \in 0 .. Len(s) - 1 :
       kept[i + 1] = IF s[i + 1] \in gone THEN kept[i] ELSE Append(kept[i], s[i + 1])

(* Left is what is kept of all elements.                                   *)
LEMMA LeftIs ==
  ASSUME NEW S, NEW s \in Seq(S), NEW gone
  PROVE  \E kept : Kept(S, s, gone, kept) /\ Left(s, gone) = kept[Len(s)]
<1> DEFINE n == Len(s)
           step == [p \in (0 .. n - 1) \X Seq(S) |->
                      IF s[p[1] + 1] \in gone THEN p[2] ELSE Append(p[2], s[p[1] + 1])]
           W == CHOOSE v : v = [k \in 0 .. n |->
                                  IF k = 0 THEN <<>>
                                  ELSE IF s[k] \in gone THEN v[k - 1]
                                  ELSE Append(v[k - 1], s[k])]
<1>1. n \in Nat /\ s \in [1 .. n -> S]
  OBVIOUS
<1>2. Left(s, gone) = W[n]
  BY DEF Left
<1>3. \A i \in 0 .. n - 1 : \A x \in Seq(S) :
        /\ step[<<i, x>>] = IF s[i + 1] \in gone THEN x ELSE Append(x, s[i + 1])
        /\ step[<<i, x>>] \in Seq(S)
  <2> SUFFICES ASSUME NEW i \in 0 .. n - 1, NEW x \in Seq(S)
               PROVE  /\ step[<<i, x>>] = IF s[i + 1] \in gone THEN x ELSE Append(x, s[i + 1])
                      /\ step[<<i, x>>] \in Seq(S)
    OBVIOUS
  <2>1. i + 1 \in 1 .. n
    BY <1>1
  <2>2. s[i + 1] \in S
    BY <1>1, <2>1
  <2>3. Append(x, s[i + 1]) \in Seq(S)
    BY <2>2
  <2> QED
    BY <2>3
<1> HIDE DEF step, n
<1>4. PICK w : w = [k \in 0 .. n |-> IF k = 0 THEN <<>> ELSE step[<<k - 1, w[k - 1]>>]]
  <2> DEFINE c == <<>>
  <2> HIDE DEF c
  <2>1. \E w : Recursion(n, c, step, w)
    BY <1>1, RecursionRuns
  <2> QED
    BY <2>1 DEF c, Recursion
<1>5. \A k \in 0 .. n : w[k] \in Seq(S)
  <2> DEFINE T == {k \in 0 .. n : w[k] \in Seq(S)}
  <2>1. 0 \in T
    BY <1>1, <1>4
  <2>2. ASSUME NEW i \in 0 .. n - 1, i \in T PROVE i + 1 \in T
    <3>1. i + 1 \in 0 .. n /\ i + 1 # 0 /\ (i + 1) - 1 = i
      BY <1>1
    <3>2. w[i + 1] = step[<<i, w[i]>>]
      BY <1>4, <3>1
    <3> QED
      BY <1>3, <2>2, <3>1, <3>2
  <2> HIDE DEF T
  <2>3. 0 .. n \subseteq T
    BY <1>1, <2>1, <2>2, UpTo
  <2> QED
    BY <2>3 DEF T
<1>6. w = [k \in 0 .. n |-> IF k = 0 THEN <<>>
                            ELSE IF s[k] \in gone THEN w[k - 1]
                            ELSE Append(w[k - 1], s[k])]
  <2>1. ASSUME NEW k \in 0 .. n
        PROVE  w[k] = IF k = 0 THEN <<>>
                      ELSE IF s[k] \in gone THEN w[k - 1] ELSE Append(w[k - 1], s[k])
    <3>1. w[k] = IF k = 0 THEN <<>> ELSE step[<<k - 1, w[k - 1]>>]
      BY <1>4
    <3>2. CASE k # 0
      <4>1. k - 1 \in 0 .. n - 1 /\ k - 1 \in 0 .. n /\ (k - 1) + 1 = k
        BY <1>1, <3>2
      <4>2. w[k - 1] \in Seq(S)
        BY <1>5, <4>1
      <4> QED
        BY <1>3, <3>1, <3>2, <4>1, <4>2
    <3> QED
      BY <3>1, <3>2
  <2>2. w = [k \in 0 .. n |-> w[k]]
    BY <1>4
  <2> QED
    BY <2>1, <2>2
<1>7. W = [k \in 0 .. n |-> IF k = 0 THEN <<>>
                            ELSE IF s[k] \in gone THEN W[k - 1]
                            ELSE Append(W[k - 1], s[k])]
  BY <1>6
<1> HIDE DEF W
<1>8. W[0] = <<>> /\ \A i \in 0 .. n - 1 :
        W[i + 1] = IF s[i + 1] \in gone THEN W[i] ELSE Append(W[i], s[i + 1])
  <2>1. W[0] = <<>>
    BY <1>1, <1>7
  <2>2. ASSUME NEW i \in 0 .. n - 1
        PROVE  W[i + 1] = IF s[i + 1] \in gone THEN W[i] ELSE Append(W[i], s[i + 1])
    <3>1. i + 1 \in 0 .. n /\ i + 1 # 0 /\ (i + 1) - 1 = i
      BY <1>1
    <3> QED
      BY <1>7, <3>1
  <2> QED
    BY <2>1, <2>2
<1>9. \A k \in 0 .. n : W[k] \in Seq(S)
  <2> DEFINE T == {k \in 0 .. n : W[k] \in Seq(S)}
  <2>1. 0 \in T
    <3>1. W[0] \in Seq(S) /\ 0 \in 0 .. n
      BY <1>1, <1>8
    <3> QED
      BY <3>1
  <2>2. ASSUME NEW i \in 0 .. n - 1, i \in T PROVE i + 1 \in T
    <3>1. i + 1 \in 0 .. n /\ i + 1 \in 1 .. n
      BY <1>1
    <3>2. s[i + 1] \in S /\ W[i] \in Seq(S)
      BY <1>1, <2>2, <3>1
    <3>3. Append(W[i], s[i + 1]) \in Seq(S)
      BY <3>2
    <3> QED
      BY <1>8, <3>1, <3>2, <3>3
  <2> HIDE DEF T
  <2>3. 0 .. n \subseteq T
    BY <1>1, <2>1, <2>2, UpTo
  <2> QED
    BY <2>3 DEF T
<1>10. W \in [0 .. n -> Seq(S)]
  BY <1>7, <1>9
<1>11. Kept(S, s, gone, W)
  BY <1>8, <1>10 DEF Kept, n
<1> QED
  BY <1>2, <1>11 DEF n

(* What is kept of more elements begins with what is kept of fewer.        *)
LEMMA KeptGrows ==
  ASSUME NEW S, NEW s \in Seq(S), NEW gone, NEW kept, Kept(S, s, gone, kept)
  PROVE  /\ \A k \in 0 .. Len(s) : kept[k] \in Seq(S) /\ Len(kept[k]) \in Nat
         /\ \A k \in 0 .. Len(s) - 1 : \A j \in 1 .. Len(kept[k]) : kept[k + 1][j] = kept[k][j]
         /\ \A k \in 0 .. Len(s) - 1 :
              /\ s[k + 1] \in gone => kept[k + 1] = kept[k]
              /\ s[k + 1] \notin gone => /\ Len(kept[k + 1]) = Len(kept[k]) + 1
                                         /\ kept[k + 1][Len(kept[k]) + 1] = s[k + 1]
         /\ kept[0] = <<>> /\ Len(kept[0]) = 0
<1> DEFINE n == Len(s)
<1>1. n \in Nat /\ s \in [1 .. n -> S]
  OBVIOUS
<1>2. \A k \in 0 .. n : kept[k] \in Seq(S) /\ Len(kept[k]) \in Nat
  <2>1. \A k \in 0 .. n : kept[k] \in Seq(S)
    BY DEF Kept
  <2> QED
    BY <2>1
<1>3. ASSUME NEW k \in 0 .. n - 1
      PROVE  /\ s[k + 1] \in gone => kept[k + 1] = kept[k]
             /\ s[k + 1] \notin gone => /\ Len(kept[k + 1]) = Len(kept[k]) + 1
                                        /\ kept[k + 1][Len(kept[k]) + 1] = s[k + 1]
             /\ \A j \in 1 .. Len(kept[k]) : kept[k + 1][j] = kept[k][j]
  <2>1. k + 1 \in 1 .. n /\ k \in 0 .. n
    BY <1>1
  <2>2. s[k + 1] \in S /\ kept[k] \in Seq(S)
    BY <1>1, <1>2, <2>1
  <2>3. kept[k + 1] = IF s[k + 1] \in gone THEN kept[k] ELSE Append(kept[k], s[k + 1])
    BY DEF Kept
  <2> DEFINE a == kept[k]  e == s[k + 1]
  <2> HIDE DEF a, e, n
  <2>4. a \in Seq(S) /\ e \in S
    BY <2>2 DEF a, e
  <2>5. /\ Len(Append(a, e)) = Len(a) + 1 /\ Append(a, e)[Len(a) + 1] = e
        /\ \A j \in 1 .. Len(a) : Append(a, e)[j] = a[j]
    BY ONLY <2>4, AppendProperties
  <2> QED
    BY <2>3, <2>5 DEF a, e
<1> QED
  BY <1>2, <1>3 DEF Kept

(* t is s with gone taken out of its first k elements.                     *)
Fore(S, s, kept, k, t) ==
  /\ t \in Seq(S) /\ Len(t) = Len(kept[k]) + (Len(s) - k)
  /\ \A j \in 1 .. Len(kept[k]) : t[j] = kept[k][j]
  /\ \A j \in 1 .. Len(s) - k : t[Len(kept[k]) + j] = s[k + j]

(* t is u without its i-th element.                                        *)
OneLess(S, u, i, t) ==
  /\ t \in Seq(S) /\ Len(t) = Len(u) - 1
  /\ \A x \in 1 .. Len(t) : t[x] = IF x < i THEN u[x] ELSE u[x + 1]

(* The first k elements: none, one more, all.                              *)
LEMMA ForeStart ==
  ASSUME NEW S, NEW s \in Seq(S), NEW gone, NEW kept, Kept(S, s, gone, kept)
  PROVE  Fore(S, s, kept, 0, s)
<1>1. Len(s) \in Nat /\ Len(kept[0]) = 0
  BY KeptGrows
<1> QED
  BY <1>1 DEF Fore

LEMMA ForeEnd ==
  ASSUME NEW S, NEW s \in Seq(S), NEW gone, NEW kept, Kept(S, s, gone, kept),
         NEW t, Fore(S, s, kept, Len(s), t)
  PROVE  t = kept[Len(s)]
<1> DEFINE q == kept[Len(s)]
<1>1. Len(s) \in Nat /\ Len(s) \in 0 .. Len(s)
  OBVIOUS
<1>2. q \in Seq(S) /\ Len(q) \in Nat
  BY <1>1, KeptGrows
<1>3. t \in Seq(S) /\ Len(t) = Len(q) /\ \A j \in 1 .. Len(q) : t[j] = q[j]
  BY <1>1, <1>2 DEF Fore
<1> HIDE DEF q
<1>4. t = q
  BY <1>2, <1>3, SameSequence
<1> QED
  BY <1>4 DEF q

LEMMA ForeNext ==
  ASSUME NEW S, NEW s \in Seq(S), NEW gone, NEW kept, Kept(S, s, gone, kept),
         NEW k \in 0 .. Len(s) - 1, NEW u, Fore(S, s, kept, k, u), NEW t,
         IF s[k + 1] \in gone THEN OneLess(S, u, Len(kept[k]) + 1, t) ELSE t = u
  PROVE  Fore(S, s, kept, k + 1, t)
<1> DEFINE n == Len(s)  a == Len(kept[k])  b == Len(kept[k + 1])
<1>1. n \in Nat /\ k \in 0 .. n /\ k + 1 \in 0 .. n /\ a \in Nat /\ b \in Nat
  <2>1. Len(s) \in Nat
    OBVIOUS
  <2>2. k \in 0 .. n /\ k + 1 \in 0 .. n
    BY <2>1
  <2> QED
    BY <2>1, <2>2, KeptGrows
<1>2. /\ u \in Seq(S) /\ Len(u) = a + (n - k)
      /\ \A j \in 1 .. a : u[j] = kept[k][j]
      /\ \A j \in 1 .. n - k : u[a + j] = s[k + j]
  BY DEF Fore
<1>3. /\ s[k + 1] \in gone => kept[k + 1] = kept[k] /\ b = a
      /\ s[k + 1] \notin gone => b = a + 1 /\ kept[k + 1][a + 1] = s[k + 1]
      /\ \A j \in 1 .. a : kept[k + 1][j] = kept[k][j]
  BY KeptGrows
<1> HIDE DEF a, b, n
<1>4. CASE s[k + 1] \in gone
  <2>1. /\ t \in Seq(S) /\ Len(t) = Len(u) - 1
        /\ \A x \in 1 .. Len(t) : t[x] = IF x < a + 1 THEN u[x] ELSE u[x + 1]
    BY <1>4 DEF OneLess, a
  <2>2. b = a /\ kept[k + 1] = kept[k]
    BY <1>3, <1>4
  <2>3. Len(t) = b + (n - (k + 1))
    BY <1>1, <1>2, <2>1, <2>2
  <2>4. ASSUME NEW j \in 1 .. b PROVE t[j] = kept[k + 1][j]
    <3>1. j \in 1 .. a /\ j < a + 1 /\ j \in 1 .. Len(t)
      BY <1>1, <2>2, <2>3
    <3> QED
      BY <1>2, <2>1, <2>2, <3>1
  <2>5. ASSUME NEW j \in 1 .. n - (k + 1) PROVE t[b + j] = s[(k + 1) + j]
    <3>1. /\ b + j \in 1 .. Len(t) /\ ~(b + j < a + 1) /\ (b + j) + 1 = a + (j + 1)
          /\ j + 1 \in 1 .. n - k /\ k + (j + 1) = (k + 1) + j
      BY <1>1, <2>2, <2>3
    <3>2. t[b + j] = u[(b + j) + 1]
      BY <2>1, <3>1
    <3>3. u[a + (j + 1)] = s[k + (j + 1)]
      BY <1>2, <3>1
    <3> QED
      BY <3>1, <3>2, <3>3
  <2> QED
    BY <2>1, <2>3, <2>4, <2>5 DEF Fore, b, n
<1>5. CASE s[k + 1] \notin gone
  <2>1. t = u /\ b = a + 1 /\ kept[k + 1][a + 1] = s[k + 1]
    BY <1>3, <1>5
  <2>2. Len(t) = b + (n - (k + 1))
    BY <1>1, <1>2, <2>1
  <2>3. ASSUME NEW j \in 1 .. b PROVE t[j] = kept[k + 1][j]
    <3>1. CASE j = a + 1
      <4>1. 1 \in 1 .. n - k
        BY <1>1, <2>1 DEF n
      <4> QED
        BY <1>2, <2>1, <3>1, <4>1
    <3>2. CASE j # a + 1
      <4>1. j \in 1 .. a
        BY <1>1, <2>1, <3>2
      <4> QED
        BY <1>2, <1>3, <2>1, <4>1
    <3> QED
      BY <3>1, <3>2
  <2>4. ASSUME NEW j \in 1 .. n - (k + 1) PROVE t[b + j] = s[(k + 1) + j]
    <3>1. j + 1 \in 1 .. n - k /\ a + (j + 1) = b + j /\ k + (j + 1) = (k + 1) + j
      <4>1. n \in Nat /\ k \in Nat /\ a \in Nat /\ b = a + 1 /\ j \in 1 .. n - (k + 1)
        BY <1>1, <2>1
      <4> QED
        BY ONLY <4>1
    <3>2. u[a + (j + 1)] = s[k + (j + 1)]
      BY <1>2, <3>1
    <3> QED
      BY <2>1, <3>1, <3>2
  <2> QED
    BY <1>2, <2>1, <2>2, <2>3, <2>4 DEF Fore, b, n
<1> QED
  BY <1>4, <1>5

(* Elements that are not taken out are all there.                          *)
LEMMA ForeUntouched ==
  ASSUME NEW S, NEW s \in Seq(S), NEW gone, NEW kept, Kept(S, s, gone, kept),
         NEW i \in 0 .. Len(s), \A x \in 1 .. i : s[x] \notin gone
  PROVE  Fore(S, s, kept, i, s)
<1> DEFINE T == {k \in 0 .. i : Fore(S, s, kept, k, s)}
<1>1. 0 \in T
  BY ForeStart
<1>2. ASSUME NEW k \in 0 .. i - 1, k \in T PROVE k + 1 \in T
  <2>1. k + 1 \in 0 .. i /\ k + 1 \in 1 .. i /\ k \in 0 .. Len(s) - 1
    OBVIOUS
  <2>2. Fore(S, s, kept, k, s) /\ s[k + 1] \notin gone
    BY <1>2, <2>1
  <2>3. Fore(S, s, kept, k + 1, s)
    BY <2>1, <2>2, ForeNext
  <2> QED
    BY <2>1, <2>3
<1> HIDE DEF T
<1>3. 0 .. i \subseteq T
  BY <1>1, <1>2, UpTo
<1>4. i \in 0 .. i
  OBVIOUS
<1> QED
  BY <1>3, <1>4 DEF T

(* list_del takes one entry off its list and leaves the others.            *)
LEMMA DelKeeps ==
  ASSUME NEW l, NEW ls, NEW lv, Agree(l, ls, lv), NEW h \in lv, NEW s, s = ls[h],
         NEW i \in 1 .. Len(s)
  PROVE  \E t : OneLess(ListEntry, s, i, t) /\ Agree(ListDel(l, s[i]), [ls EXCEPT ![h] = t], lv)
<1> DEFINE e == s[i]
           d == DelEntry(l, e)
           t == Without(s, i)
           ms == [ls EXCEPT ![h] = t]
<1>1. s \in Seq(ListEntry) /\ e \in ListEntry /\ Len(s) \in Nat
  <2>1. s \in Seq(ListEntry)
    BY DEF Agree
  <2> QED
    BY <2>1, ElementOfSeq
<1>2. TakenOut(s, i, i, t)
  BY <1>1, WithoutTaken
<1> HIDE DEF t
<1>3. Agree(d, ms, lv) /\ Loose(d, ms, lv, <<e>>)
  BY <1>2, RemoveOne
<1> HIDE DEF d, ms, e
<1>4. \A k \in lv : \A x \in 1 .. Len(ms[k]) : ms[k][x] # e
  <2>1. Len(<<e>>) = 1 /\ <<e>>[1] = e /\ 1 \in 1 .. Len(<<e>>)
    OBVIOUS
  <2> QED
    BY <2>1, <1>3 DEF Loose
<1>5. Agree([next |-> [d.next EXCEPT ![e] = Poison1], prev |-> [d.prev EXCEPT ![e] = Poison2]],
            ms, lv)
  BY <1>1, <1>3, <1>4, LooseWritten
<1>6. Agree(ListDel(l, e), ms, lv)
  BY <1>5 DEF ListDel, d
<1>7. OneLess(ListEntry, s, i, t)
  <2>1. /\ t \in Seq(ListEntry) /\ Len(t) = Len(s) - (i - i + 1)
        /\ \A x \in 1 .. Len(t) : t[x] = IF x < i THEN s[x] ELSE s[x + (i - i + 1)]
    BY <1>2 DEF TakenOut
  <2>2. i - i + 1 = 1
    BY <1>1
  <2> QED
    BY <2>1, <2>2 DEF OneLess
<1> QED
  BY <1>6, <1>7 DEF e, ms

(* A safe walk over list h, whose entries were s, has dealt with the first *)
(* k of them in the memory m.                                              *)
Midway(ls, lv, h, s, kept, k, m) ==
  \E t : Fore(ListEntry, s, kept, k, t) /\ Agree(m, [ls EXCEPT ![h] = t], lv)

LEMMA MidwayNext ==
  ASSUME NEW ls \in [ListHead -> Seq(ListEntry)], NEW lv, NEW h \in lv, NEW s, s = ls[h],
         NEW gone, NEW kept, Kept(ListEntry, s, gone, kept), lv \subseteq ListHead,
         NEW k \in 0 .. Len(s) - 1, NEW m, Midway(ls, lv, h, s, kept, k, m)
  PROVE  Midway(ls, lv, h, s, kept, k + 1, IF s[k + 1] \in gone THEN ListDel(m, s[k + 1]) ELSE m)
<1> DEFINE a == Len(kept[k])
<1>1. s \in Seq(ListEntry) /\ Len(s) \in Nat
  OBVIOUS
<1>2. PICK t : Fore(ListEntry, s, kept, k, t) /\ Agree(m, [ls EXCEPT ![h] = t], lv)
  BY DEF Midway
<1>3. a \in Nat
  BY <1>1, KeptGrows
<1> HIDE DEF a
<1>4. CASE s[k + 1] \in gone
  <2>1. t \in Seq(ListEntry) /\ a + 1 \in 1 .. Len(t) /\ t[a + 1] = s[k + 1]
    <3>1. /\ t \in Seq(ListEntry) /\ Len(t) = a + (Len(s) - k)
          /\ \A j \in 1 .. Len(s) - k : t[a + j] = s[k + j]
      BY <1>2 DEF Fore, a
    <3>2. 1 \in 1 .. Len(s) - k
      BY <1>1
    <3> QED
      BY <1>1, <1>3, <3>1, <3>2
  <2> DEFINE ks == [ls EXCEPT ![h] = t]
  <2>2. ks[h] = t /\ Agree(m, ks, lv)
    BY <1>2
  <2>3. \A u : [ks EXCEPT ![h] = u] = [ls EXCEPT ![h] = u]
    OBVIOUS
  <2> HIDE DEF ks
  <2>4. PICK u : OneLess(ListEntry, t, a + 1, u) /\ Agree(ListDel(m, t[a + 1]), [ks EXCEPT ![h] = u], lv)
    BY <2>1, <2>2, DelKeeps
  <2>5. Fore(ListEntry, s, kept, k + 1, u)
    BY <1>1, <1>2, <1>4, <2>4, ForeNext DEF a
  <2>6. Agree(ListDel(m, s[k + 1]), [ls EXCEPT ![h] = u], lv)
    BY <2>1, <2>3, <2>4
  <2> QED
    BY <1>4, <2>5, <2>6 DEF Midway
<1>5. CASE s[k + 1] \notin gone
  <2>1. Fore(ListEntry, s, kept, k + 1, t)
    BY <1>1, <1>2, <1>5, ForeNext
  <2> QED
    BY <1>2, <1>5, <2>1 DEF Midway
<1> QED
  BY <1>4, <1>5

(* What lies ahead of the walk is linked as it was.                        *)
Ahead(h, s, k, m) == \A j \in k + 1 .. Len(s) : m.next[At(h, s, j)] = At(h, s, j + 1)

LEMMA MidwayAhead ==
  ASSUME NEW ls \in [ListHead -> Seq(ListEntry)], NEW lv, NEW h \in lv, NEW s, s = ls[h],
         NEW gone, NEW kept, Kept(ListEntry, s, gone, kept), lv \subseteq ListHead,
         NEW k \in 0 .. Len(s), NEW m, Midway(ls, lv, h, s, kept, k, m)
  PROVE  Ahead(h, s, k, m)
<1> SUFFICES ASSUME NEW j \in k + 1 .. Len(s) PROVE m.next[At(h, s, j)] = At(h, s, j + 1)
  BY DEF Ahead
<1> DEFINE a == Len(kept[k])  n == Len(s)  x == j - k
<1>1. s \in Seq(ListEntry) /\ n \in Nat /\ h \in ListHead
  OBVIOUS
<1>2. PICK t : Fore(ListEntry, s, kept, k, t) /\ Agree(m, [ls EXCEPT ![h] = t], lv)
  BY DEF Midway
<1>3. a \in Nat
  BY <1>1, KeptGrows
<1> HIDE DEF a
<1>4. /\ t \in Seq(ListEntry) /\ Len(t) = a + (n - k)
      /\ \A y \in 1 .. n - k : t[a + y] = s[k + y]
  BY <1>2 DEF Fore, a
<1>5. Represents(m, h, t)
  <2>1. [ls EXCEPT ![h] = t][h] = t
    BY <1>1
  <2> QED
    BY <1>2, <2>1 DEF Agree
<1>6. x \in 1 .. n - k /\ k + x = j /\ a + x \in 0 .. Len(t) /\ k \in Nat
  BY <1>1, <1>3, <1>4
<1> HIDE DEF n, x
<1>7. \A y \in 1 .. (n - k) + 1 : At(h, t, a + y) = At(h, s, k + y)
  <2> SUFFICES ASSUME NEW y \in 1 .. (n - k) + 1 PROVE At(h, t, a + y) = At(h, s, k + y)
    OBVIOUS
  <2>1. CASE y \in 1 .. n - k
    <3>1. a + y \in 1 .. Len(t) /\ k + y \in 1 .. n
      BY <1>1, <1>3, <1>4, <1>6, <2>1
    <3> QED
      BY <1>4, <2>1, <3>1 DEF At, n
  <2>2. CASE y \notin 1 .. n - k
    <3>1. a + y \notin 1 .. Len(t) /\ k + y \notin 1 .. n
      BY <1>1, <1>3, <1>4, <1>6, <2>2
    <3> QED
      BY <3>1 DEF At, n
  <2> QED
    BY <2>1, <2>2
<1>8. m.next[At(h, t, a + x)] = At(h, t, (a + x) + 1)
  BY <1>5, <1>6 DEF Represents
<1>9. At(h, t, a + x) = At(h, s, j) /\ At(h, t, (a + x) + 1) = At(h, s, j + 1)
  <2>1. /\ x \in 1 .. (n - k) + 1 /\ x + 1 \in 1 .. (n - k) + 1
        /\ (a + x) + 1 = a + (x + 1) /\ j + 1 = k + (x + 1)
    BY <1>1, <1>3, <1>6
  <2> QED
    BY <1>6, <1>7, <2>1
<1> QED
  BY <1>8, <1>9

(* A loop whose rounds lead from M[0] to M[1] and so on to M[n], where     *)
(* they change nothing, ends in M[n] if it has n rounds or more.           *)
Stages(S, M, n, start, step) ==
  /\ start \in M[0] /\ \A k \in 0 .. n : M[k] \subseteq S
  /\ \A k \in 0 .. n - 1 : \A w \in M[k] : step[w] \in M[k + 1]
  /\ \A w \in M[n] : step[w] = w

(* The first N rounds of W are those of the loop.                          *)
Follows(S, N, start, step, W) ==
  W[0] = start /\ \A i \in 0 .. N - 1 : W[i] \in S => W[i + 1] = step[W[i]]

LEMMA StagesEnd ==
  ASSUME NEW S, NEW M, NEW n \in Nat, NEW N \in Nat, n <= N, NEW start, NEW step,
         Stages(S, M, n, start, step),
         NEW W, Follows(S, N, start, step, W)
  PROVE  (\A k \in 0 .. N : W[k] \in S) /\ W[N] \in M[n]
<1> DEFINE Least(k) == IF k < n THEN k ELSE n
           T == {k \in 0 .. N : W[k] \in M[Least(k)]}
<1>1. \A k \in 0 .. N : M[Least(k)] \subseteq S
  <2>1. \A k \in 0 .. N : Least(k) \in 0 .. n
    OBVIOUS
  <2> QED
    BY <2>1 DEF Stages
<1>2. 0 \in T
  <2>1. 0 \in 0 .. N /\ Least(0) = 0
    OBVIOUS
  <2> QED
    BY <2>1 DEF Stages, Follows
<1>3. ASSUME NEW i \in 0 .. N - 1, i \in T PROVE i + 1 \in T
  <2>1. i \in 0 .. N /\ i + 1 \in 0 .. N /\ W[i] \in M[Least(i)]
    BY <1>3
  <2>2. W[i + 1] = step[W[i]]
    BY <1>1, <2>1 DEF Follows
  <2>3. CASE i < n
    <3>1. i \in 0 .. n - 1 /\ Least(i) = i /\ Least(i + 1) = i + 1
      BY <2>3
    <3> QED
      BY <2>1, <2>2, <3>1 DEF Stages
  <2>4. CASE ~(i < n)
    <3>1. Least(i) = n /\ Least(i + 1) = n
      BY <2>4
    <3> QED
      BY <2>1, <2>2, <3>1 DEF Stages
  <2> QED
    BY <2>3, <2>4
<1> HIDE DEF T
<1>4. 0 .. N \subseteq T
  BY <1>2, <1>3, UpTo
<1>5. Least(N) = n /\ N \in 0 .. N
  OBVIOUS
<1> HIDE DEF Least
<1> QED
  BY <1>1, <1>4, <1>5 DEF T

(* v has the values of all rounds.                                         *)
Rounds(N, start, step, v) ==
  v = [k \in 0 .. N |-> IF k = 0 THEN start ELSE step[v[k - 1]]]

LEMMA StagesRun ==
  ASSUME NEW S, NEW M, NEW n \in Nat, NEW N \in Nat, n <= N, NEW start, NEW step,
         Stages(S, M, n, start, step)
  PROVE  \E v : Rounds(N, start, step, v) /\ \A k \in 0 .. N : v[k] \in S
<1> DEFINE pick == [p \in (0 .. N) \X S |-> step[p[2]]]
<1>1. \A k \in 0 .. N : \A w \in S : pick[<<k, w>>] = step[w]
  OBVIOUS
<1> HIDE DEF pick
<1>2. PICK v : v = [k \in 0 .. N |-> IF k = 0 THEN start ELSE pick[<<k - 1, v[k - 1]>>]]
  <2>1. \E v : Recursion(N, start, pick, v)
    BY RecursionRuns
  <2> QED
    BY <2>1 DEF Recursion
<1>3. v[0] = start
  BY <1>2
<1>4. ASSUME NEW i \in 0 .. N - 1, v[i] \in S PROVE v[i + 1] = step[v[i]]
  <2>1. i \in 0 .. N /\ i + 1 \in 0 .. N /\ i + 1 # 0 /\ (i + 1) - 1 = i
    OBVIOUS
  <2> QED
    BY <1>1, <1>2, <1>4, <2>1
<1>5. \A k \in 0 .. N : v[k] \in S
  <2>1. /\ Stages(S, M, n, start, step)
        /\ n \in Nat /\ N \in Nat /\ n <= N
    BY <1>3
  <2>2. Follows(S, N, start, step, v)
    BY <1>3, <1>4 DEF Follows
  <2> QED
    BY ONLY <2>1, <2>2, StagesEnd
<1>6. ASSUME NEW k \in 0 .. N PROVE v[k] = IF k = 0 THEN start ELSE step[v[k - 1]]
  <2>1. CASE k = 0
    BY <1>3, <2>1
  <2>2. CASE k # 0
    <3>1. k - 1 \in 0 .. N - 1 /\ k - 1 \in 0 .. N /\ (k - 1) + 1 = k
      BY <2>2
    <3>2. v[(k - 1) + 1] = step[v[k - 1]]
      BY <1>4, <1>5, <3>1
    <3> QED
      BY <2>2, <3>1, <3>2
  <2> QED
    BY <2>1, <2>2
<1>7. v = [k \in 0 .. N |-> v[k]]
  BY <1>2
<1>8. Rounds(N, start, step, v)
  BY <1>6, <1>7 DEF Rounds
<1> QED
  BY <1>5, <1>8

(* It starts, makes a step, and ends.                                      *)
LEMMA MidwayStart ==
  ASSUME NEW l, NEW ls, NEW lv, Agree(l, ls, lv), NEW h \in lv, NEW s, s = ls[h],
         NEW gone, NEW kept, Kept(ListEntry, s, gone, kept),
         NEW i \in 0 .. Len(s), \A x \in 1 .. i : s[x] \notin gone
  PROVE  Midway(ls, lv, h, s, kept, i, l)
<1>1. s \in Seq(ListEntry) /\ ls = [ls EXCEPT ![h] = s]
  BY DEF Agree
<1>2. Fore(ListEntry, s, kept, i, s)
  BY <1>1, ForeUntouched
<1> QED
  BY <1>1, <1>2 DEF Midway

LEMMA MidwayEnd ==
  ASSUME NEW ls \in [ListHead -> Seq(ListEntry)], NEW lv, NEW h \in lv, NEW s, s = ls[h],
         NEW gone, NEW kept, Kept(ListEntry, s, gone, kept), lv \subseteq ListHead,
         NEW m, Midway(ls, lv, h, s, kept, Len(s), m)
  PROVE  Represents(m, h, kept[Len(s)])
<1>1. s \in Seq(ListEntry) /\ h \in ListHead
  OBVIOUS
<1>2. PICK t : Fore(ListEntry, s, kept, Len(s), t) /\ Agree(m, [ls EXCEPT ![h] = t], lv)
  BY DEF Midway
<1>3. t = kept[Len(s)]
  BY <1>1, <1>2, ForeEnd
<1>4. [ls EXCEPT ![h] = t][h] = t
  BY <1>1
<1> QED
  BY <1>2, <1>3, <1>4 DEF Agree

(* The values the pointers of a memory take while entries are deleted.     *)
Values(l) == Cell \cup {Poison1, Poison2} \cup {l.next[c] : c \in Cell} \cup {l.prev[c] : c \in Cell}

Memories(l) == {l} \cup [next : [Cell -> Values(l)], prev : [Cell -> Values(l)]]

(* A deletion leads to such a memory.                                      *)
LEMMA MemoryTyped ==
  ASSUME NEW l, Mem(l), NEW m \in Memories(l), NEW e \in Cell
  PROVE  /\ ListDel(m, e) \in Memories(l)
         /\ m.next \in [Cell -> Values(l)] /\ m.prev \in [Cell -> Values(l)]
<1> DEFINE V == Values(l)
<1>1. Poison1 \in V /\ Poison2 \in V /\ Cell \subseteq V
  BY DEF Values
<1>2. m.next \in [Cell -> V] /\ m.prev \in [Cell -> V]
  <2>1. l.next \in [Cell -> V] /\ l.prev \in [Cell -> V]
    BY DEF Mem, Values
  <2> HIDE DEF V
  <2>2. m = l \/ m \in [next : [Cell -> V], prev : [Cell -> V]]
    BY DEF Memories, V
  <2> QED
    BY <2>1, <2>2
<1> HIDE DEF V
<1>3. m.next[e] \in V /\ m.prev[e] \in V
  BY <1>2
<1>4. ListDel(m, e) \in [next : [Cell -> V], prev : [Cell -> V]]
  BY <1>1, <1>2, <1>3 DEF ListDel, DelEntry, DelBetween
<1> QED
  BY <1>2, <1>4 DEF Memories, V

(* A list fits into the rounds a loop has.                                 *)
LEMMA SequenceFits ==
  ASSUME NEW l, NEW ls, NEW lv, Agree(l, ls, lv), NEW h \in lv, NEW s, s = ls[h]
  PROVE  Cells + 1 \in Nat /\ Len(s) \in Nat /\ Len(s) <= Cells + 1
<1>1. h \in ListHead /\ s \in Seq(ListEntry)
  BY DEF Agree
<1>2. \A x, y \in 1 .. Len(s) : s[x] = s[y] => x = y
  BY <1>1, OnlyOnce
<1>3. s \in Seq(Cell \cup Holder)
  <2>1. s \in [1 .. Len(s) -> Cell \cup Holder]
    BY <1>1, Positions
  <2> QED
    BY <1>1, <2>1
<1>4. Cells \in Nat /\ Len(s) \in Nat /\ Len(s) <= Cells
  BY <1>2, <1>3, WalkFits
<1> QED
  BY <1>4

(* A safe loop from the entry behind the i-th on, whose body removes none  *)
(* up to there.                                                            *)
LEMMA SafeWalk ==
  ASSUME NEW l, NEW ls, NEW lv, Agree(l, ls, lv), NEW h \in lv, NEW s, s = ls[h], NEW gone,
         NEW i \in 0 .. Len(s), \A x \in 1 .. i : s[x] \notin gone,
         NEW first, first = At(h, s, i + 1)
  PROVE  Walked(SafeLoop(l, first, h, gone), h, s, SubSeq(s, i + 1, Len(s)), gone)
<1>1. /\ s \in Seq(ListEntry) /\ Len(s) \in Nat /\ h \in ListHead
      /\ ls \in [ListHead -> Seq(ListEntry)] /\ lv \subseteq ListHead /\ Mem(l)
  BY DEF Agree
<1>2. PICK kept : Kept(ListEntry, s, gone, kept) /\ Left(s, gone) = kept[Len(s)]
  BY <1>1, LeftIs
<1> DEFINE n == Len(s)  N == Cells + 1
           start == [mem |-> l, pos |-> first, n |-> l.next[first], seen |-> <<>>]
           Round(w) ==
             IF w.pos = h THEN w
             ELSE LET m == IF w.pos \in gone THEN ListDel(w.mem, w.pos) ELSE w.mem
                  IN [mem |-> m, pos |-> w.n, n |-> m.next[w.n], seen |-> Append(w.seen, w.pos)]
           W == CHOOSE v : v = [k \in 0 .. N |-> IF k = 0 THEN start ELSE Round(v[k - 1])]
           S == [mem : Memories(l), pos : Cell, n : Values(l), seen : Seq(Cell)]
           Met(k, w) == /\ w.pos = At(h, s, k + 1) /\ w.seen = SubSeq(s, i + 1, k)
                        /\ k < n => w.n = At(h, s, k + 2)
                        /\ Midway(ls, lv, h, s, kept, k, w.mem)
           M == [k \in 0 .. n - i |-> {w \in S : Met(i + k, w)}]
           step == [w \in S |-> Round(w)]
<1>3. SafeLoop(l, first, h, gone) = W[N]
  BY DEF SafeLoop, Loop
<1>4. /\ N \in Nat /\ n \in Nat /\ i \in Nat /\ i <= n
      /\ n - i \in Nat /\ n - i <= N /\ i + (n - i) = n /\ i + 0 = i
  <2>1. N \in Nat /\ n \in Nat /\ n <= N
    BY <1>1, SequenceFits
  <2> QED
    BY <2>1
<1> HIDE DEF N
<1>5. /\ \A x \in Int : At(h, s, x) \in Cell
      /\ \A x \in 1 .. n : At(h, s, x) = s[x] /\ s[x] \in Cell /\ s[x] # h
      /\ At(h, s, n + 1) = h
  BY <1>1, Positions
<1>6. \A j \in 1 .. n : l.next[At(h, s, j)] = At(h, s, j + 1)
  BY <1>1 DEF Agree, Represents
<1>7. start \in S /\ Met(i, start)
  <2>1. first \in Cell
    BY <1>4, <1>5
  <2>2. l.next[first] \in Values(l) /\ l \in Memories(l)
    BY <2>1 DEF Values, Memories
  <2>3. <<>> \in Seq(Cell) /\ SubSeq(s, i + 1, i) = <<>>
    BY <1>4, SubSeqEmpty
  <2>4. start \in S
    BY <2>1, <2>2, <2>3
  <2>5. i < n => l.next[first] = At(h, s, i + 2)
    <3>1. i < n => i + 1 \in 1 .. n /\ (i + 1) + 1 = i + 2
      BY <1>4
    <3> QED
      BY <1>6, <3>1
  <2>6. Midway(ls, lv, h, s, kept, i, l)
    BY <1>2, MidwayStart
  <2> QED
    BY <2>3, <2>4, <2>5, <2>6
<1>8. ASSUME NEW k \in i .. n - 1, NEW w \in S, Met(k, w)
      PROVE  Round(w) \in S /\ Met(k + 1, Round(w))
  <2> DEFINE e == s[k + 1]
             m == IF e \in gone THEN ListDel(w.mem, e) ELSE w.mem
             x == [mem |-> m, pos |-> w.n, n |-> m.next[w.n], seen |-> Append(w.seen, e)]
  <2>1. /\ k + 1 \in 1 .. n /\ k + 1 \in Int /\ k + 2 \in Int /\ k < n /\ (k + 1) + 1 = k + 2
        /\ k \in 0 .. n - 1
    <3> HIDE DEF n
    <3>1. n \in Nat /\ i \in Nat /\ k \in i .. n - 1
      BY <1>4
    <3> QED
      BY ONLY <3>1
  <2>2. w.pos = e /\ e \in Cell /\ e # h /\ w.n = At(h, s, k + 2) /\ w.n \in Cell
    BY <1>5, <1>8, <2>1
  <2>3. Round(w) = x
    BY <2>2
  <2>4. m \in Memories(l) /\ m.next \in [Cell -> Values(l)]
    <3>1. w.mem \in Memories(l)
      BY <1>8
    <3>2. m \in Memories(l)
      BY <1>1, <2>2, <3>1, MemoryTyped
    <3> HIDE DEF m
    <3> QED
      BY <1>1, <2>2, <3>2, MemoryTyped
  <2>5. Midway(ls, lv, h, s, kept, k + 1, m)
    BY <1>1, <1>2, <1>8, <2>1, MidwayNext
  <2> HIDE DEF e, m
  <2>6. k + 1 < n => m.next[w.n] = At(h, s, (k + 1) + 2)
    <3> SUFFICES ASSUME k + 1 < n PROVE m.next[w.n] = At(h, s, (k + 1) + 2)
      OBVIOUS
    <3>1. k + 1 \in 0 .. Len(s) /\ k + 2 \in (k + 1) + 1 .. Len(s) /\ (k + 2) + 1 = (k + 1) + 2
      BY <1>4
    <3>2. Ahead(h, s, k + 1, m)
      BY <1>1, <1>2, <2>5, <3>1, MidwayAhead
    <3>3. m.next[At(h, s, k + 2)] = At(h, s, (k + 2) + 1)
      BY <3>1, <3>2 DEF Ahead
    <3> QED
      BY <2>2, <3>1, <3>3
  <2>7. Append(w.seen, e) = SubSeq(s, i + 1, k + 1) /\ Append(w.seen, e) \in Seq(Cell)
    <3>1. i + 1 \in 1 .. Len(s) /\ k + 1 \in i + 1 .. Len(s) /\ (k + 1) - 1 = k
      BY <1>4, <2>1
    <3>2. SubSeq(s, i + 1, k + 1) = SubSeq(s, i + 1, k) \o <<s[k + 1]>>
      BY <1>1, <3>1, SubSeqRecursiveSecond
    <3>3. w.seen = SubSeq(s, i + 1, k) /\ w.seen \in Seq(Cell)
      BY <1>8
    <3>4. Append(w.seen, e) = w.seen \o <<e>>
      BY <2>2, <3>3, AppendIsConcat
    <3>5. Append(w.seen, e) \in Seq(Cell)
      BY <2>2, <3>3
    <3> QED
      BY <3>2, <3>3, <3>4, <3>5 DEF e
  <2>8. x \in S
    BY <2>2, <2>4, <2>7
  <2> QED
    BY <2>1, <2>2, <2>3, <2>5, <2>6, <2>7, <2>8
<1>9. \A w : Met(n, w) => Round(w) = w
  BY <1>5
<1> HIDE DEF Met, Round, start, S, n
<1>10. Stages(S, M, n - i, start, step)
  <2>1. \A k \in 0 .. n - i : \A w : w \in M[k] <=> w \in S /\ Met(i + k, w)
    OBVIOUS
  <2>2. \A w \in S : step[w] = Round(w)
    OBVIOUS
  <2>3. \A k \in 0 .. (n - i) - 1 : /\ k \in 0 .. n - i /\ k + 1 \in 0 .. n - i
                                    /\ i + k \in i .. n - 1 /\ i + (k + 1) = (i + k) + 1
    BY <1>4
  <2>4. 0 \in 0 .. n - i /\ n - i \in 0 .. n - i
    BY <1>4
  <2> HIDE DEF M, step
  <2> QED
    BY <1>4, <1>7, <1>8, <1>9, <2>1, <2>2, <2>3, <2>4 DEF Stages
<1>11. \E v : v = [k \in 0 .. N |-> IF k = 0 THEN start ELSE Round(v[k - 1])]
  <2> HIDE DEF M
  <2>1. PICK v : Rounds(N, start, step, v) /\ \A k \in 0 .. N : v[k] \in S
    <3> HIDE DEF step
    <3> QED
      BY <1>4, <1>10, StagesRun
  <2>2. ASSUME NEW k \in 0 .. N, k # 0 PROVE step[v[k - 1]] = Round(v[k - 1])
    <3>1. k - 1 \in 0 .. N
      BY <1>4, <2>2
    <3> QED
      BY <2>1, <3>1
  <2> HIDE DEF step
  <2> QED
    BY <2>1, <2>2 DEF Rounds
<1>12. W = [k \in 0 .. N |-> IF k = 0 THEN start ELSE Round(W[k - 1])]
  BY <1>11
<1> HIDE DEF W
<1>13. Follows(S, N, start, step, W)
  <2>1. ASSUME NEW j \in 0 .. N - 1, W[j] \in S PROVE W[j + 1] = step[W[j]]
    <3>1. j + 1 \in 0 .. N /\ j + 1 # 0 /\ (j + 1) - 1 = j
      BY <1>4
    <3> QED
      BY <1>12, <2>1, <3>1
  <2>2. W[0] = start
    BY <1>4, <1>12
  <2> QED
    BY <2>1, <2>2 DEF Follows
<1>14. W[N] \in M[n - i]
  <2> HIDE DEF M, step
  <2> QED
    BY <1>4, <1>10, <1>13, StagesEnd
<1>15. Met(n, W[N])
  <2>1. n - i \in 0 .. n - i
    BY <1>4
  <2> QED
    BY <1>4, <1>14, <2>1
<1>16. W[N].seen = SubSeq(s, i + 1, Len(s)) /\ Midway(ls, lv, h, s, kept, Len(s), W[N].mem)
  BY <1>15 DEF Met, n
<1>17. Represents(W[N].mem, h, kept[Len(s)])
  BY <1>1, <1>2, <1>16, MidwayEnd
<1> QED
  BY <1>2, <1>3, <1>16, <1>17 DEF Walked

-----------------------------------------------------------------------------
(* What is kept of all elements begins with what is kept of some.          *)
LEMMA KeptFirst ==
  ASSUME NEW S, NEW s \in Seq(S), NEW gone, NEW kept, Kept(S, s, gone, kept),
         NEW k \in 0 .. Len(s)
  PROVE  /\ Len(kept[k]) \in Nat /\ Len(kept[Len(s)]) \in Nat /\ Len(kept[k]) <= Len(kept[Len(s)])
         /\ \A j \in 1 .. Len(kept[k]) : kept[Len(s)][j] = kept[k][j]
<1> DEFINE n == Len(s)
           Begins(a, b) == Len(a) <= Len(b) /\ \A j \in 1 .. Len(a) : b[j] = a[j]
           T == {x \in 0 .. n : Begins(kept[n - x], kept[n])}
<1>1. n \in Nat
  OBVIOUS
<1>2. \A x \in 0 .. n : Len(kept[x]) \in Nat
  BY KeptGrows
<1>3. \A x \in 0 .. n - 1 : Begins(kept[x], kept[x + 1])
  <2> SUFFICES ASSUME NEW x \in 0 .. n - 1 PROVE Begins(kept[x], kept[x + 1])
    OBVIOUS
  <2>1. /\ s[x + 1] \in gone => kept[x + 1] = kept[x]
        /\ s[x + 1] \notin gone => Len(kept[x + 1]) = Len(kept[x]) + 1
        /\ \A j \in 1 .. Len(kept[x]) : kept[x + 1][j] = kept[x][j]
    BY KeptGrows
  <2>2. Len(kept[x]) \in Nat
    <3>1. x \in 0 .. n
      BY <1>1
    <3> QED
      BY <1>2, <3>1
  <2>3. Len(kept[x]) <= Len(kept[x + 1])
    BY <2>1, <2>2
  <2> QED
    BY <2>1, <2>3
<1> HIDE DEF n
<1>4. 0 \in T
  BY <1>1, <1>2
<1>5. ASSUME NEW i \in 0 .. n - 1, i \in T PROVE i + 1 \in T
  <2>1. /\ i + 1 \in 0 .. n /\ i \in 0 .. n /\ n - (i + 1) \in 0 .. n - 1 /\ n - i \in 0 .. n
        /\ (n - (i + 1)) + 1 = n - i /\ n - (i + 1) \in 0 .. n /\ n \in 0 .. n
    BY <1>1
  <2>2. Begins(kept[n - (i + 1)], kept[n - i]) /\ Begins(kept[n - i], kept[n])
    <3>1. Begins(kept[n - i], kept[n])
      BY <1>5
    <3> HIDE DEF Begins
    <3> QED
      BY <1>3, <2>1, <3>1
  <2>3. /\ Len(kept[n - (i + 1)]) \in Nat /\ Len(kept[n - i]) \in Nat /\ Len(kept[n]) \in Nat
    BY <1>2, <2>1
  <2>4. Begins(kept[n - (i + 1)], kept[n])
    <3> DEFINE a == kept[n - (i + 1)]  b == kept[n - i]  c == kept[n]
    <3>1. Begins(a, b) /\ Begins(b, c) /\ Len(a) \in Nat /\ Len(b) \in Nat /\ Len(c) \in Nat
      BY <2>2, <2>3
    <3> HIDE DEF a, b, c
    <3>2. Begins(a, c)
      BY <3>1
    <3> QED
      BY <3>2 DEF a, c
  <2> QED
    BY <2>1, <2>4
<1> HIDE DEF T
<1>6. 0 .. n \subseteq T
  BY <1>1, <1>4, <1>5, UpTo
<1>7. n - k \in 0 .. n /\ n - (n - k) = k /\ n \in 0 .. n /\ k \in 0 .. n
  BY <1>1 DEF n
<1>8. Begins(kept[k], kept[n])
  BY <1>6, <1>7 DEF T
<1> QED
  BY <1>2, <1>7, <1>8 DEF n

(* t is s with gone taken out of what follows its first k elements.        *)
Aft(S, s, kept, k, t) ==
  LET a == Len(kept[k])
      b == Len(kept[Len(s)])
  IN /\ t \in Seq(S) /\ Len(t) = k + (b - a)
     /\ \A j \in 1 .. k : t[j] = s[j]
     /\ \A j \in 1 .. b - a : t[k + j] = kept[Len(s)][a + j]

(* The elements behind the first k: none, one more, all.                   *)
LEMMA AftStart ==
  ASSUME NEW S, NEW s \in Seq(S), NEW kept, Len(kept[Len(s)]) \in Nat
  PROVE  Aft(S, s, kept, Len(s), s)
  BY DEF Aft

LEMMA AftEnd ==
  ASSUME NEW S, NEW s \in Seq(S), NEW gone, NEW kept, Kept(S, s, gone, kept),
         NEW t, Aft(S, s, kept, 0, t)
  PROVE  t = kept[Len(s)]
<1> DEFINE q == kept[Len(s)]
<1>1. Len(s) \in 0 .. Len(s)
  OBVIOUS
<1>2. q \in Seq(S) /\ Len(q) \in Nat /\ Len(kept[0]) = 0
  BY <1>1, KeptGrows
<1>3. t \in Seq(S) /\ Len(t) = Len(q) /\ \A j \in 1 .. Len(q) : t[j] = q[j]
  <2>1. /\ t \in Seq(S) /\ Len(t) = 0 + (Len(q) - 0)
        /\ \A j \in 1 .. Len(q) - 0 : t[0 + j] = q[0 + j]
    BY <1>2 DEF Aft
  <2> HIDE DEF q
  <2> QED
    BY <1>2, <2>1
<1> HIDE DEF q
<1>4. t = q
  BY <1>2, <1>3, SameSequence
<1> QED
  BY <1>4 DEF q

LEMMA AftNext ==
  ASSUME NEW S, NEW s \in Seq(S), NEW gone, NEW kept, Kept(S, s, gone, kept),
         NEW k \in 1 .. Len(s), NEW u, Aft(S, s, kept, k, u), NEW t,
         IF s[k] \in gone THEN OneLess(S, u, k, t) ELSE t = u
  PROVE  Aft(S, s, kept, k - 1, t)
<1> DEFINE q == kept[Len(s)]  a == Len(kept[k - 1])  b == Len(kept[k])  c == Len(q)  e == s[k]
           p == k - 1
<1>1. /\ p \in 0 .. Len(s) - 1 /\ p + 1 = k /\ k \in Nat /\ p \in 0 .. Len(s) /\ k \in 0 .. Len(s)
  OBVIOUS
<1>2. /\ u \in Seq(S) /\ Len(u) = k + (c - b)
      /\ \A j \in 1 .. k : u[j] = s[j]
      /\ \A j \in 1 .. c - b : u[k + j] = q[b + j]
  BY DEF Aft
<1>3. /\ e \in gone => kept[k] = kept[p]
      /\ e \notin gone => b = a + 1 /\ kept[k][a + 1] = e
  <2>1. /\ s[p + 1] \in gone => kept[p + 1] = kept[p]
        /\ s[p + 1] \notin gone => /\ Len(kept[p + 1]) = Len(kept[p]) + 1
                                   /\ kept[p + 1][Len(kept[p]) + 1] = s[p + 1]
    BY <1>1, KeptGrows
  <2> QED
    BY <1>1, <2>1
<1>4. a \in Nat /\ b \in Nat /\ c \in Nat /\ b <= c
  <2>1. Len(kept[p]) \in Nat
    BY <1>1, KeptFirst
  <2> QED
    BY <1>1, <2>1, KeptFirst
<1>5. \A j \in 1 .. b : q[j] = kept[k][j]
  BY <1>1, KeptFirst
<1>6. (e \in gone => OneLess(S, u, k, t)) /\ (e \notin gone => t = u)
  OBVIOUS
<1> SUFFICES /\ t \in Seq(S) /\ Len(t) = p + (c - a)
             /\ \A j \in 1 .. p : t[j] = s[j]
             /\ \A j \in 1 .. c - a : t[p + j] = q[a + j]
  BY DEF Aft
<1>7. CASE e \in gone
  <2>1. /\ t \in Seq(S) /\ Len(t) = Len(u) - 1
        /\ \A x \in 1 .. Len(t) : t[x] = IF x < k THEN u[x] ELSE u[x + 1]
    BY <1>6, <1>7 DEF OneLess
  <2>2. a = b
    BY <1>3, <1>7
  <2> HIDE DEF a, b, c, p, q, e
  <2>3. Len(t) = p + (c - a)
    BY <1>1, <1>2, <1>4, <2>1, <2>2
  <2>4. ASSUME NEW j \in 1 .. p PROVE t[j] = s[j]
    <3>1. j \in 1 .. k /\ j < k /\ j \in 1 .. Len(t)
      BY <1>1, <1>4, <2>2, <2>3
    <3> QED
      BY <1>2, <2>1, <3>1
  <2>5. ASSUME NEW j \in 1 .. c - a PROVE t[p + j] = q[a + j]
    <3>1. p + j \in 1 .. Len(t) /\ ~(p + j < k) /\ (p + j) + 1 = k + j /\ j \in 1 .. c - b
      BY <1>1, <1>4, <2>2, <2>3
    <3>2. t[p + j] = u[k + j]
      BY <2>1, <3>1
    <3> QED
      BY <1>2, <2>2, <3>1, <3>2
  <2> QED
    BY <2>1, <2>3, <2>4, <2>5
<1>8. CASE e \notin gone
  <2>1. t = u /\ b = a + 1 /\ kept[k][a + 1] = e /\ e = s[k]
    BY <1>3, <1>6, <1>8
  <2> HIDE DEF a, b, c, p, q, e
  <2>2. Len(t) = p + (c - a)
    <3>1. Len(t) = k + (c - b) /\ k = p + 1 /\ b = a + 1 /\ a \in Nat /\ c \in Nat /\ p \in Nat
      BY <1>1, <1>2, <1>4, <2>1
    <3> QED
      BY ONLY <3>1
  <2>3. ASSUME NEW j \in 1 .. p PROVE t[j] = s[j]
    <3>1. j \in 1 .. k
      BY <1>1
    <3> QED
      BY <1>2, <2>1, <3>1
  <2>4. ASSUME NEW j \in 1 .. c - a PROVE t[p + j] = q[a + j]
    <3>1. CASE j = 1
      <4>1. p + j = k /\ k \in 1 .. k /\ a + j = a + 1 /\ a + 1 \in 1 .. b
        BY <1>1, <1>4, <2>1, <3>1
      <4> QED
        BY <1>2, <1>5, <2>1, <4>1
    <3>2. CASE j # 1
      <4>1. PICK y \in Nat : y = j - 1
        BY <1>4
      <4>2. y \in 1 .. c - b /\ p + j = k + y /\ a + j = b + y
        BY <1>1, <1>4, <2>1, <3>2, <4>1
      <4> QED
        BY <1>2, <2>1, <4>2
    <3> QED
      BY <3>1, <3>2
  <2> QED
    BY <1>2, <2>1, <2>2, <2>3, <2>4
<1> QED
  BY <1>7, <1>8

(* A safe walk backwards over list h, whose entries were s, has yet to     *)
(* deal with the first k of them in the memory m.                          *)
Midback(ls, lv, h, s, kept, k, m) ==
  \E t : Aft(ListEntry, s, kept, k, t) /\ Agree(m, [ls EXCEPT ![h] = t], lv)

Behind(h, s, k, m) == \A j \in 1 .. k : m.prev[At(h, s, j)] = At(h, s, j - 1)

(* It starts, ends, and makes a step.                                      *)
LEMMA MidbackStart ==
  ASSUME NEW l, NEW ls, NEW lv, Agree(l, ls, lv), NEW h \in lv, NEW s, s = ls[h],
         NEW gone, NEW kept, Kept(ListEntry, s, gone, kept)
  PROVE  Midback(ls, lv, h, s, kept, Len(s), l)
<1>1. s \in Seq(ListEntry) /\ ls = [ls EXCEPT ![h] = s] /\ Len(s) \in 0 .. Len(s)
  <2>1. s \in Seq(ListEntry) /\ ls = [ls EXCEPT ![h] = s]
    BY DEF Agree
  <2> QED
    BY <2>1
<1>2. Len(kept[Len(s)]) \in Nat
  BY <1>1, KeptFirst
<1>3. Aft(ListEntry, s, kept, Len(s), s)
  BY <1>1, <1>2, AftStart
<1> QED
  BY <1>1, <1>3 DEF Midback

LEMMA MidbackEnd ==
  ASSUME NEW ls \in [ListHead -> Seq(ListEntry)], NEW lv, NEW h \in lv, NEW s, s = ls[h],
         NEW gone, NEW kept, Kept(ListEntry, s, gone, kept), lv \subseteq ListHead,
         NEW m, Midback(ls, lv, h, s, kept, 0, m)
  PROVE  Represents(m, h, kept[Len(s)])
<1>1. s \in Seq(ListEntry) /\ h \in ListHead
  OBVIOUS
<1>2. PICK t : Aft(ListEntry, s, kept, 0, t) /\ Agree(m, [ls EXCEPT ![h] = t], lv)
  BY DEF Midback
<1>3. t = kept[Len(s)]
  BY <1>1, <1>2, AftEnd
<1>4. [ls EXCEPT ![h] = t][h] = t
  BY <1>1
<1> QED
  BY <1>2, <1>3, <1>4 DEF Agree

LEMMA MidbackNext ==
  ASSUME NEW ls \in [ListHead -> Seq(ListEntry)], NEW lv, NEW h \in lv, NEW s, s = ls[h],
         NEW gone, NEW kept, Kept(ListEntry, s, gone, kept), lv \subseteq ListHead,
         NEW k \in 1 .. Len(s), NEW m, Midback(ls, lv, h, s, kept, k, m)
  PROVE  Midback(ls, lv, h, s, kept, k - 1, IF s[k] \in gone THEN ListDel(m, s[k]) ELSE m)
<1>1. s \in Seq(ListEntry) /\ Len(s) \in Nat /\ k \in 0 .. Len(s)
  OBVIOUS
<1>2. PICK t : Aft(ListEntry, s, kept, k, t) /\ Agree(m, [ls EXCEPT ![h] = t], lv)
  BY DEF Midback
<1>3. /\ Len(kept[k]) \in Nat /\ Len(kept[Len(s)]) \in Nat
      /\ Len(kept[k]) <= Len(kept[Len(s)])
  BY <1>1, KeptFirst
<1>4. CASE s[k] \in gone
  <2>1. t \in Seq(ListEntry) /\ k \in 1 .. Len(t) /\ t[k] = s[k]
    BY <1>1, <1>2, <1>3 DEF Aft
  <2> DEFINE ks == [ls EXCEPT ![h] = t]
  <2>2. ks[h] = t /\ Agree(m, ks, lv)
    BY <1>2
  <2>3. \A u : [ks EXCEPT ![h] = u] = [ls EXCEPT ![h] = u]
    OBVIOUS
  <2> HIDE DEF ks
  <2>4. PICK u : OneLess(ListEntry, t, k, u) /\ Agree(ListDel(m, t[k]), [ks EXCEPT ![h] = u], lv)
    BY <2>1, <2>2, DelKeeps
  <2>5. Aft(ListEntry, s, kept, k - 1, u)
    BY <1>1, <1>2, <1>4, <2>4, AftNext
  <2>6. Agree(ListDel(m, s[k]), [ls EXCEPT ![h] = u], lv)
    BY <2>1, <2>3, <2>4
  <2> QED
    BY <1>4, <2>5, <2>6 DEF Midback
<1>5. CASE s[k] \notin gone
  <2>1. Aft(ListEntry, s, kept, k - 1, t)
    BY <1>1, <1>2, <1>5, AftNext
  <2> QED
    BY <1>2, <1>5, <2>1 DEF Midback
<1> QED
  BY <1>4, <1>5

(* What lies before the walk is linked as it was.                          *)
LEMMA MidbackBehind ==
  ASSUME NEW ls \in [ListHead -> Seq(ListEntry)], NEW lv, NEW h \in lv, NEW s, s = ls[h],
         NEW gone, NEW kept, Kept(ListEntry, s, gone, kept), lv \subseteq ListHead,
         NEW k \in 0 .. Len(s), NEW m, Midback(ls, lv, h, s, kept, k, m)
  PROVE  Behind(h, s, k, m)
<1> SUFFICES ASSUME NEW j \in 1 .. k PROVE m.prev[At(h, s, j)] = At(h, s, j - 1)
  BY DEF Behind
<1>1. s \in Seq(ListEntry) /\ Len(s) \in Nat /\ h \in ListHead
  OBVIOUS
<1>2. PICK t : Aft(ListEntry, s, kept, k, t) /\ Agree(m, [ls EXCEPT ![h] = t], lv)
  BY DEF Midback
<1>3. t \in Seq(ListEntry) /\ k <= Len(t) /\ \A x \in 1 .. k : t[x] = s[x]
  <2>1. /\ Len(kept[k]) \in Nat /\ Len(kept[Len(s)]) \in Nat
        /\ Len(kept[k]) <= Len(kept[Len(s)])
    BY <1>1, KeptFirst
  <2>2. /\ t \in Seq(ListEntry) /\ Len(t) = k + (Len(kept[Len(s)]) - Len(kept[k]))
        /\ \A x \in 1 .. k : t[x] = s[x]
    BY <1>2 DEF Aft
  <2>3. k \in Nat
    BY <1>1
  <2>4. k <= Len(t)
    BY ONLY <2>1, <2>2, <2>3
  <2> QED
    BY <2>2, <2>4
<1>4. Represents(m, h, t)
  <2>1. [ls EXCEPT ![h] = t][h] = t
    BY <1>1
  <2> QED
    BY <1>2, <2>1 DEF Agree
<1>5. /\ j - 1 \in 0 .. Len(t) /\ (j - 1) + 1 = j /\ j \in 1 .. Len(t) /\ j \in 1 .. Len(s)
      /\ (j - 1 \in 1 .. k <=> j - 1 # 0) /\ j - 1 \in 0 .. Len(s)
  BY <1>1, <1>3
<1>6. m.prev[At(h, t, j)] = At(h, t, j - 1)
  BY <1>4, <1>5 DEF Represents
<1>7. At(h, t, j) = At(h, s, j)
  BY <1>3, <1>5 DEF At
<1>8. At(h, t, j - 1) = At(h, s, j - 1)
  <2>1. CASE j - 1 = 0
    BY <1>5, <2>1 DEF At
  <2>2. CASE j - 1 # 0
    <3>1. j - 1 \in 1 .. k /\ j - 1 \in 1 .. Len(t) /\ j - 1 \in 1 .. Len(s)
      BY <1>1, <1>3, <1>5, <2>2
    <3> QED
      BY <1>3, <3>1 DEF At
  <2> QED
    BY <2>1, <2>2
<1> QED
  BY <1>6, <1>7, <1>8

(* list_for_each_entry_safe_reverse: the entries it meets, and the list it *)
(* leaves.                                                                 *)
LEMMA SafeWalkBack ==
  ASSUME NEW l, NEW ls, NEW lv, Agree(l, ls, lv), NEW h \in lv, NEW s, s = ls[h], NEW gone
  PROVE  Walked(ListForEachSafeReverse(l, h, gone), h, s, Reverse(s), gone)
<1>1. /\ s \in Seq(ListEntry) /\ Len(s) \in Nat /\ h \in ListHead
      /\ ls \in [ListHead -> Seq(ListEntry)] /\ lv \subseteq ListHead /\ Mem(l)
  BY DEF Agree
<1>2. PICK kept : Kept(ListEntry, s, gone, kept) /\ Left(s, gone) = kept[Len(s)]
  BY <1>1, LeftIs
<1> DEFINE n == Len(s)  N == Cells + 1
           first == l.prev[h]
           start == [mem |-> l, pos |-> first, n |-> l.prev[first], seen |-> <<>>]
           Round(w) ==
             IF w.pos = h THEN w
             ELSE LET m == IF w.pos \in gone THEN ListDel(w.mem, w.pos) ELSE w.mem
                  IN [mem |-> m, pos |-> w.n, n |-> m.prev[w.n], seen |-> Append(w.seen, w.pos)]
           W == CHOOSE v : v = [k \in 0 .. N |-> IF k = 0 THEN start ELSE Round(v[k - 1])]
           S == [mem : Memories(l), pos : Cell, n : Values(l), seen : Seq(Cell)]
           Met(r, w) == /\ w.pos = At(h, s, r)
                        /\ Len(w.seen) = n - r /\ \A j \in 1 .. n - r : w.seen[j] = s[n + 1 - j]
                        /\ r > 0 => w.n = At(h, s, r - 1)
                        /\ Midback(ls, lv, h, s, kept, r, w.mem)
           M == [k \in 0 .. n |-> {w \in S : Met(n - k, w)}]
           step == [w \in S |-> Round(w)]
<1>3. ListForEachSafeReverse(l, h, gone) = W[N]
  BY DEF ListForEachSafeReverse, Loop
<1>4. N \in Nat /\ n \in Nat /\ n <= N
  BY <1>1, SequenceFits
<1> HIDE DEF N
<1>5. /\ \A x \in Int : At(h, s, x) \in Cell
      /\ \A x \in 1 .. n : At(h, s, x) = s[x] /\ s[x] \in Cell /\ s[x] # h
      /\ At(h, s, n + 1) = h
  BY <1>1, Positions
<1>6. At(h, s, 0) = h /\ l.prev[h] = At(h, s, n)
  <2>1. n \in 0 .. Len(s)
    BY <1>4
  <2>2. l.prev[At(h, s, n + 1)] = At(h, s, n)
    BY <1>1, <2>1 DEF Agree, Represents
  <2> QED
    BY <1>1, <1>5, <2>2, Positions
<1>7. start \in S /\ Met(n, start)
  <2>1. first = At(h, s, n) /\ first \in Cell
    BY <1>4, <1>5, <1>6
  <2> HIDE DEF first
  <2>2. l.prev[first] \in Values(l) /\ l \in Memories(l)
    BY <2>1 DEF Values, Memories
  <2>3. <<>> \in Seq(Cell) /\ Len(<<>>) = n - n /\ 1 .. n - n = {}
    BY <1>4
  <2>4. start \in S
    BY <2>1, <2>2, <2>3
  <2>5. Midback(ls, lv, h, s, kept, n, l)
    BY <1>2, MidbackStart
  <2>6. n > 0 => l.prev[first] = At(h, s, n - 1)
    <3>1. Behind(h, s, Len(s), l)
      <4>1. Len(s) \in 0 .. Len(s)
        BY <1>1
      <4> QED
        BY <1>1, <1>2, <2>5, <4>1, MidbackBehind
    <3> QED
      BY <1>4, <2>1, <3>1 DEF Behind
  <2> QED
    BY <2>1, <2>3, <2>4, <2>5, <2>6
<1>8. ASSUME NEW r \in 1 .. n, NEW w \in S, Met(r, w)
      PROVE  Round(w) \in S /\ Met(r - 1, Round(w))
  <2> DEFINE e == s[r]
             m == IF e \in gone THEN ListDel(w.mem, e) ELSE w.mem
             x == [mem |-> m, pos |-> w.n, n |-> m.prev[w.n], seen |-> Append(w.seen, e)]
  <2>1. r \in 1 .. n /\ r - 1 \in Int /\ r > 0
    BY <1>4
  <2>2. w.pos = e /\ e \in Cell /\ e # h /\ w.n = At(h, s, r - 1) /\ w.n \in Cell
    BY <1>5, <1>8, <2>1
  <2>3. Round(w) = x
    BY <2>2
  <2>4. m \in Memories(l) /\ m.prev \in [Cell -> Values(l)]
    <3>1. w.mem \in Memories(l)
      BY <1>8
    <3>2. m \in Memories(l)
      BY <1>1, <2>2, <3>1, MemoryTyped
    <3> HIDE DEF m
    <3> QED
      BY <1>1, <2>2, <3>2, MemoryTyped
  <2>5. Midback(ls, lv, h, s, kept, r - 1, m)
    BY <1>1, <1>2, <1>8, MidbackNext
  <2> HIDE DEF e, m
  <2>6. r - 1 > 0 => m.prev[w.n] = At(h, s, (r - 1) - 1)
    <3> SUFFICES ASSUME r - 1 > 0 PROVE m.prev[w.n] = At(h, s, (r - 1) - 1)
      OBVIOUS
    <3>1. r - 1 \in 0 .. Len(s) /\ r - 1 \in 1 .. r - 1
      BY <1>4
    <3>2. Behind(h, s, r - 1, m)
      BY <1>1, <1>2, <2>5, <3>1, MidbackBehind
    <3>3. m.prev[At(h, s, r - 1)] = At(h, s, (r - 1) - 1)
      BY <3>1, <3>2 DEF Behind
    <3> QED
      BY <2>2, <3>3
  <2>7. /\ Append(w.seen, e) \in Seq(Cell) /\ Len(Append(w.seen, e)) = n - (r - 1)
        /\ \A j \in 1 .. n - (r - 1) : Append(w.seen, e)[j] = s[n + 1 - j]
    <3> DEFINE a == w.seen
    <3>1. a \in Seq(Cell) /\ e \in Cell /\ Len(a) = n - r /\ \A j \in 1 .. n - r : a[j] = s[n + 1 - j]
      BY <1>8, <2>2
    <3> HIDE DEF a
    <3>2. /\ Append(a, e) \in Seq(Cell) /\ Len(Append(a, e)) = Len(a) + 1
          /\ Append(a, e)[Len(a) + 1] = e /\ \A j \in 1 .. Len(a) : Append(a, e)[j] = a[j]
      BY ONLY <3>1, AppendProperties
    <3>3. \A j \in 1 .. n - (r - 1) : j \in 1 .. n - r \/ (j = Len(a) + 1 /\ n + 1 - j = r)
      <4>1. n \in Nat /\ r \in 1 .. n /\ Len(a) = n - r
        BY <1>4, <3>1
      <4> QED
        BY ONLY <4>1
    <3>4. Len(a) + 1 = n - (r - 1)
      BY <1>4, <3>1
    <3> QED
      BY <3>1, <3>2, <3>3, <3>4 DEF a, e
  <2>8. x \in S
    BY <2>2, <2>4, <2>7
  <2> QED
    BY <2>2, <2>3, <2>5, <2>6, <2>7, <2>8
<1>9. \A w : Met(0, w) => Round(w) = w
  BY <1>6
<1> HIDE DEF Met, Round, start, S, n
<1>10. Stages(S, M, n, start, step)
  <2>1. \A k \in 0 .. n : \A w : w \in M[k] <=> w \in S /\ Met(n - k, w)
    OBVIOUS
  <2>2. \A w \in S : step[w] = Round(w)
    OBVIOUS
  <2>3. \A k \in 0 .. n - 1 : /\ k \in 0 .. n /\ k + 1 \in 0 .. n
                              /\ n - k \in 1 .. n /\ n - (k + 1) = (n - k) - 1
    BY <1>4
  <2>4. 0 \in 0 .. n /\ n \in 0 .. n /\ n - 0 = n /\ n - n = 0
    BY <1>4
  <2> HIDE DEF M, step
  <2> QED
    BY <1>7, <1>8, <1>9, <2>1, <2>2, <2>3, <2>4 DEF Stages
<1>11. \E v : v = [k \in 0 .. N |-> IF k = 0 THEN start ELSE Round(v[k - 1])]
  <2> HIDE DEF M
  <2>1. PICK v : Rounds(N, start, step, v) /\ \A k \in 0 .. N : v[k] \in S
    <3> HIDE DEF step
    <3> QED
      BY <1>4, <1>10, StagesRun
  <2>2. ASSUME NEW k \in 0 .. N, k # 0 PROVE step[v[k - 1]] = Round(v[k - 1])
    <3>1. k - 1 \in 0 .. N
      BY <1>4, <2>2
    <3> QED
      BY <2>1, <3>1
  <2> HIDE DEF step
  <2> QED
    BY <2>1, <2>2 DEF Rounds
<1>12. W = [k \in 0 .. N |-> IF k = 0 THEN start ELSE Round(W[k - 1])]
  BY <1>11
<1> HIDE DEF W
<1>13. Follows(S, N, start, step, W)
  <2>1. ASSUME NEW i \in 0 .. N - 1, W[i] \in S PROVE W[i + 1] = step[W[i]]
    <3>1. i + 1 \in 0 .. N /\ i + 1 # 0 /\ (i + 1) - 1 = i
      BY <1>4
    <3> QED
      BY <1>12, <2>1, <3>1
  <2>2. W[0] = start
    BY <1>4, <1>12
  <2> QED
    BY <2>1, <2>2 DEF Follows
<1>14. W[N] \in M[n]
  <2> HIDE DEF M, step
  <2> QED
    BY <1>4, <1>10, <1>13, StagesEnd
<1>15. Met(0, W[N]) /\ W[N] \in S
  <2>1. n \in 0 .. n /\ n - n = 0
    BY <1>4
  <2> QED
    BY <1>14, <2>1
<1>16. W[N].seen = Reverse(s)
  <2> DEFINE a == W[N].seen
  <2>1. Len(a) = n /\ a \in Seq(Cell) /\ \A j \in 1 .. n : a[j] = s[n + 1 - j]
    BY <1>4, <1>15 DEF Met, S
  <2> HIDE DEF a
  <2>2. a = [j \in 1 .. n |-> a[j]]
    BY <2>1
  <2>3. Reverse(s) = [j \in 1 .. n |-> s[(n - j) + 1]]
    BY DEF Reverse, n
  <2>4. \A j \in 1 .. n : (n - j) + 1 = n + 1 - j
    BY <1>4
  <2> QED
    BY <2>1, <2>2, <2>3, <2>4 DEF a
<1>17. Represents(W[N].mem, h, kept[Len(s)])
  BY <1>1, <1>2, <1>15, MidbackEnd DEF Met
<1> QED
  BY <1>2, <1>3, <1>16, <1>17 DEF Walked

-----------------------------------------------------------------------------
(* A safe walk over list h, whose nodes were s, has dealt with the first k *)
(* of them in the memory m.                                                *)
HMidway(ls, fk, h, s, kept, k, m) ==
  \E t : Fore(HlistNode, s, kept, k, t) /\ Chained(m, [ls EXCEPT ![h] = t], fk)

HAhead(h, s, k, m) == \A j \in k + 1 .. Len(s) : m.pointer[HAt(h, s, j)] = HAt(h, s, j + 1)

(* It starts, ends, and makes a step.                                      *)
LEMMA HMidwayStart ==
  ASSUME NEW l, NEW ls, NEW fk, Chained(l, ls, fk), NEW h \in HlistHead, NEW s, s = ls[h],
         NEW gone, NEW kept, Kept(HlistNode, s, gone, kept)
  PROVE  HMidway(ls, fk, h, s, kept, 0, l)
<1>1. s \in Seq(HlistNode) /\ ls = [ls EXCEPT ![h] = s]
  BY DEF Chained, Apart
<1>2. Fore(HlistNode, s, kept, 0, s)
  BY <1>1, ForeStart
<1> QED
  BY <1>1, <1>2 DEF HMidway

LEMMA HMidwayEnd ==
  ASSUME NEW ls \in [HlistHead -> Seq(HlistNode)], NEW fk, NEW h \in HlistHead, NEW s, s = ls[h],
         NEW gone, NEW kept, Kept(HlistNode, s, gone, kept),
         NEW m, HMidway(ls, fk, h, s, kept, Len(s), m)
  PROVE  HRepresents(m, h, kept[Len(s)])
<1>1. s \in Seq(HlistNode)
  OBVIOUS
<1>2. PICK t : Fore(HlistNode, s, kept, Len(s), t) /\ Chained(m, [ls EXCEPT ![h] = t], fk)
  BY DEF HMidway
<1>3. t = kept[Len(s)]
  BY <1>1, <1>2, ForeEnd
<1>4. [ls EXCEPT ![h] = t][h] = t
  BY <1>1
<1> QED
  BY <1>2, <1>3, <1>4 DEF Chained

LEMMA HMidwayNext ==
  ASSUME NEW ls \in [HlistHead -> Seq(HlistNode)], NEW fk, NEW h \in HlistHead, NEW s, s = ls[h],
         NEW gone, NEW kept, Kept(HlistNode, s, gone, kept),
         NEW k \in 0 .. Len(s) - 1, NEW m, HMidway(ls, fk, h, s, kept, k, m)
  PROVE  HMidway(ls, fk, h, s, kept, k + 1, IF s[k + 1] \in gone THEN HlistDel(m, s[k + 1]) ELSE m)
<1> DEFINE a == Len(kept[k])
<1>1. s \in Seq(HlistNode) /\ Len(s) \in Nat
  OBVIOUS
<1>2. PICK t : Fore(HlistNode, s, kept, k, t) /\ Chained(m, [ls EXCEPT ![h] = t], fk)
  BY DEF HMidway
<1>3. a \in Nat
  BY <1>1, KeptGrows
<1> HIDE DEF a
<1>4. CASE s[k + 1] \in gone
  <2>1. t \in Seq(HlistNode) /\ a + 1 \in 1 .. Len(t) /\ t[a + 1] = s[k + 1]
    <3>1. /\ t \in Seq(HlistNode) /\ Len(t) = a + (Len(s) - k)
          /\ \A j \in 1 .. Len(s) - k : t[a + j] = s[k + j]
      BY <1>2 DEF Fore, a
    <3>2. 1 \in 1 .. Len(s) - k
      BY <1>1
    <3> QED
      BY <1>1, <1>3, <3>1, <3>2
  <2> DEFINE ks == [ls EXCEPT ![h] = t]
             u == HWithout(t, a + 1)
  <2>2. ks[h] = t /\ Chained(m, ks, fk)
    BY <1>2
  <2>3. [ks EXCEPT ![h] = u] = [ls EXCEPT ![h] = u]
    OBVIOUS
  <2>4. OneLess(HlistNode, t, a + 1, u)
    BY <2>1, WithoutAt DEF OneLess
  <2> HIDE DEF ks
  <2>5. Chained(HlistDel(m, t[a + 1]), [ks EXCEPT ![h] = u], fk)
    BY <2>1, <2>2, HDelKeeps
  <2> HIDE DEF u
  <2>6. Fore(HlistNode, s, kept, k + 1, u)
    BY <1>1, <1>2, <1>4, <2>4, ForeNext DEF a
  <2>7. Chained(HlistDel(m, s[k + 1]), [ls EXCEPT ![h] = u], fk)
    BY <2>1, <2>3, <2>5
  <2> QED
    BY <1>4, <2>6, <2>7 DEF HMidway
<1>5. CASE s[k + 1] \notin gone
  <2>1. Fore(HlistNode, s, kept, k + 1, t)
    BY <1>1, <1>2, <1>5, ForeNext
  <2> QED
    BY <1>2, <1>5, <2>1 DEF HMidway
<1> QED
  BY <1>4, <1>5

(* What lies ahead of the walk is linked as it was.                        *)
LEMMA HMidwayAhead ==
  ASSUME NEW ls \in [HlistHead -> Seq(HlistNode)], NEW fk, NEW h \in HlistHead, NEW s, s = ls[h],
         NEW gone, NEW kept, Kept(HlistNode, s, gone, kept),
         NEW k \in 0 .. Len(s), NEW m, HMidway(ls, fk, h, s, kept, k, m)
  PROVE  HAhead(h, s, k, m)
<1> SUFFICES ASSUME NEW j \in k + 1 .. Len(s) PROVE m.pointer[HAt(h, s, j)] = HAt(h, s, j + 1)
  BY DEF HAhead
<1> DEFINE a == Len(kept[k])  n == Len(s)  x == j - k
<1>1. s \in Seq(HlistNode) /\ n \in Nat
  OBVIOUS
<1>2. PICK t : Fore(HlistNode, s, kept, k, t) /\ Chained(m, [ls EXCEPT ![h] = t], fk)
  BY DEF HMidway
<1>3. a \in Nat
  BY <1>1, KeptGrows
<1> HIDE DEF a
<1>4. /\ t \in Seq(HlistNode) /\ Len(t) = a + (n - k)
      /\ \A y \in 1 .. n - k : t[a + y] = s[k + y]
  BY <1>2 DEF Fore, a
<1>5. HRepresents(m, h, t)
  <2>1. [ls EXCEPT ![h] = t][h] = t
    BY <1>1
  <2> QED
    BY <1>2, <2>1 DEF Chained
<1>6. x \in 1 .. n - k /\ k + x = j /\ a + x \in 0 .. Len(t) /\ k \in Nat
  BY <1>1, <1>3, <1>4
<1> HIDE DEF n, x
<1>7. \A y \in 1 .. (n - k) + 1 : HAt(h, t, a + y) = HAt(h, s, k + y)
  <2> SUFFICES ASSUME NEW y \in 1 .. (n - k) + 1 PROVE HAt(h, t, a + y) = HAt(h, s, k + y)
    OBVIOUS
  <2>0. a + y # 0 /\ k + y # 0
    BY <1>1, <1>3, <1>6
  <2>1. CASE y \in 1 .. n - k
    <3>1. a + y \in 1 .. Len(t) /\ k + y \in 1 .. n
      BY <1>1, <1>3, <1>4, <1>6, <2>1
    <3> QED
      BY <1>4, <2>0, <2>1, <3>1 DEF HAt, n
  <2>2. CASE y \notin 1 .. n - k
    <3>1. a + y \notin 1 .. Len(t) /\ k + y \notin 1 .. n
      BY <1>1, <1>3, <1>4, <1>6, <2>2
    <3> QED
      BY <2>0, <3>1 DEF HAt, n
  <2> QED
    BY <2>1, <2>2
<1>8. m.pointer[HAt(h, t, a + x)] = HAt(h, t, (a + x) + 1)
  BY <1>5, <1>6 DEF HRepresents
<1>9. HAt(h, t, a + x) = HAt(h, s, j) /\ HAt(h, t, (a + x) + 1) = HAt(h, s, j + 1)
  <2>1. /\ x \in 1 .. (n - k) + 1 /\ x + 1 \in 1 .. (n - k) + 1
        /\ (a + x) + 1 = a + (x + 1) /\ j + 1 = k + (x + 1)
    BY <1>1, <1>3, <1>6
  <2> QED
    BY <1>6, <1>7, <2>1
<1> QED
  BY <1>8, <1>9

(* The values the pointers of a memory take while nodes are deleted.       *)
HValues(l) ==
  Holder \cup {HNull, HPoison1, HPoison2}
    \cup {l.pointer[c] : c \in Holder} \cup {l.pprev[n] : n \in HlistNode}

HMemories(l) == {l} \cup [pointer : [Holder -> HValues(l)], pprev : [HlistNode -> HValues(l)]]

(* A deletion leads to such a memory.                                      *)
LEMMA HMemoryTyped ==
  ASSUME NEW l, Shaped(l), NEW m \in HMemories(l), NEW e \in HlistNode
  PROVE  HlistDel(m, e) \in HMemories(l)
<1> DEFINE V == HValues(l)
<1>1. HPoison1 \in V /\ HPoison2 \in V /\ e \in Holder
  BY DEF HValues, Holder
<1>2. m.pointer \in [Holder -> V] /\ m.pprev \in [HlistNode -> V]
  <2>1. l.pointer \in [Holder -> V] /\ l.pprev \in [HlistNode -> V]
    BY DEF Shaped, HValues
  <2> HIDE DEF V
  <2>2. m = l \/ m \in [pointer : [Holder -> V], pprev : [HlistNode -> V]]
    BY DEF HMemories, V
  <2> QED
    BY <2>1, <2>2
<1> HIDE DEF V
<1>3. m.pointer[e] \in V /\ m.pprev[e] \in V
  BY <1>1, <1>2
<1>4. Backward(m.pprev, m.pointer[e], m.pprev[e]) \in [HlistNode -> V]
  BY <1>2, <1>3 DEF Backward
<1>5. HlistDel(m, e) \in [pointer : [Holder -> V], pprev : [HlistNode -> V]]
  BY <1>1, <1>2, <1>3, <1>4 DEF HlistDel, HlistUnlink
<1> QED
  BY <1>5 DEF HMemories, V

(* hlist_for_each_entry_safe: the nodes it meets, and the list it leaves.  *)
LEMMA HSafeWalk ==
  ASSUME NEW l, NEW ls, NEW fk, Chained(l, ls, fk), NEW h \in HlistHead, NEW s, s = ls[h], NEW gone
  PROVE  /\ HlistForEachSafe(l, h, gone).seen = s
         /\ HRepresents(HlistForEachSafe(l, h, gone).mem, h, Left(s, gone))
<1>1. /\ s \in Seq(HlistNode) /\ Len(s) \in Nat
      /\ ls \in [HlistHead -> Seq(HlistNode)] /\ Shaped(l) /\ HRepresents(l, h, s)
  <2>1. ls \in [HlistHead -> Seq(HlistNode)] /\ Shaped(l) /\ HRepresents(l, h, s)
    BY DEF Chained, Apart
  <2> QED
    BY <2>1
<1>2. PICK kept : Kept(HlistNode, s, gone, kept) /\ Left(s, gone) = kept[Len(s)]
  BY <1>1, LeftIs
<1> DEFINE n == Len(s)  N == Cells + 1
           C == HlistNode \cup {HNull}
           start == [mem |-> l, pos |-> l.pointer[h], seen |-> <<>>]
           Round(w) ==
             IF w.pos = HNull THEN w
             ELSE LET p == w.mem.pointer[w.pos]
                  IN [mem |-> IF w.pos \in gone THEN HlistDel(w.mem, w.pos) ELSE w.mem,
                      pos |-> p, seen |-> Append(w.seen, w.pos)]
           W == CHOOSE v : v = [k \in 0 .. N |-> IF k = 0 THEN start ELSE Round(v[k - 1])]
           S == [mem : HMemories(l), pos : C, seen : Seq(C)]
           Met(k, w) == /\ w.pos = HAt(h, s, k + 1) /\ w.seen = SubSeq(s, 1, k)
                        /\ HMidway(ls, fk, h, s, kept, k, w.mem)
           M == [k \in 0 .. n |-> {w \in S : Met(k, w)}]
           step == [w \in S |-> Round(w)]
<1>3. HlistForEachSafe(l, h, gone) = W[N]
  BY DEF HlistForEachSafe, Loop
<1>4. N \in Nat /\ n \in Nat /\ n <= N
  <2>1. \A x, y \in 1 .. n : s[x] = s[y] => x = y
    BY DEF Chained, Apart, Once
  <2>2. s \in Seq(Cell \cup Holder)
    <3>1. s \in [1 .. Len(s) -> Cell \cup Holder]
      BY <1>1 DEF Holder
    <3> QED
      BY <1>1, <3>1
  <2>3. Cells \in Nat /\ Len(s) <= Cells
    BY <2>1, <2>2, WalkFits
  <2> QED
    BY <1>1, <2>3
<1> HIDE DEF N
<1>5. /\ \A x \in Nat \ {0} : HAt(h, s, x) \in C
      /\ \A x \in 1 .. n : HAt(h, s, x) = s[x] /\ s[x] \in HlistNode /\ s[x] # HNull
      /\ HAt(h, s, n + 1) = HNull
  <2>1. \A x \in 1 .. n : s[x] \in HlistNode /\ s[x] # HNull
    BY <1>1, HlistAssumption
  <2>2. n + 1 # 0 /\ n + 1 \notin 1 .. n
    BY <1>4
  <2> QED
    BY <2>1, <2>2 DEF HAt
<1>7. start \in S /\ Met(0, start)
  <2>1. l.pointer[h] = HAt(h, s, 1)
    <3>1. 0 \in 0 .. Len(s) /\ 0 + 1 = 1 /\ HAt(h, s, 0) = h
      BY <1>1 DEF HAt
    <3> QED
      BY <1>1, <3>1 DEF HRepresents
  <2>2. l.pointer[h] \in C /\ l \in HMemories(l)
    BY <1>5, <2>1 DEF HMemories
  <2>3. <<>> \in Seq(C) /\ SubSeq(s, 1, 0) = <<>>
    BY SubSeqEmpty
  <2> HIDE DEF C
  <2>4. start \in S
    BY <2>2, <2>3
  <2>5. HMidway(ls, fk, h, s, kept, 0, l)
    BY <1>2, HMidwayStart
  <2> QED
    BY <2>1, <2>3, <2>4, <2>5
<1>8. ASSUME NEW k \in 0 .. n - 1, NEW w \in S, Met(k, w)
      PROVE  Round(w) \in S /\ Met(k + 1, Round(w))
  <2> DEFINE e == s[k + 1]
             m == IF e \in gone THEN HlistDel(w.mem, e) ELSE w.mem
             p == w.mem.pointer[e]
             x == [mem |-> m, pos |-> p, seen |-> Append(w.seen, e)]
  <2>1. k + 1 \in 1 .. n /\ (k + 1) + 1 \in Nat \ {0} /\ k \in 0 .. Len(s)
    BY <1>4
  <2>2. w.pos = e /\ e \in HlistNode /\ e \in C /\ e # HNull /\ HAt(h, s, k + 1) = e
    BY <1>5, <1>8, <2>1
  <2>3. Round(w) = x
    BY <2>2
  <2>4. m \in HMemories(l)
    <3>1. w.mem \in HMemories(l)
      BY <1>8
    <3> QED
      BY <1>1, <2>2, <3>1, HMemoryTyped
  <2>5. HMidway(ls, fk, h, s, kept, k + 1, m)
    BY <1>1, <1>2, <1>8, HMidwayNext
  <2>6. p = HAt(h, s, (k + 1) + 1) /\ p \in C
    <3>1. HAhead(h, s, k, w.mem)
      BY <1>1, <1>2, <1>8, <2>1, HMidwayAhead
    <3>2. k + 1 \in k + 1 .. Len(s)
      BY <1>4
    <3>3. w.mem.pointer[HAt(h, s, k + 1)] = HAt(h, s, (k + 1) + 1)
      BY <3>1, <3>2 DEF HAhead
    <3> QED
      BY <1>5, <2>1, <2>2, <3>3
  <2> HIDE DEF e, m, p, C
  <2>7. Append(w.seen, e) = SubSeq(s, 1, k + 1) /\ Append(w.seen, e) \in Seq(C)
    <3>1. 1 \in 1 .. Len(s) /\ k + 1 \in 1 .. Len(s) /\ (k + 1) - 1 = k
      BY <1>4, <2>1
    <3>2. SubSeq(s, 1, k + 1) = SubSeq(s, 1, k) \o <<s[k + 1]>>
      BY <1>1, <3>1, SubSeqRecursiveSecond
    <3>3. w.seen = SubSeq(s, 1, k) /\ w.seen \in Seq(C)
      BY <1>8
    <3>4. Append(w.seen, e) = w.seen \o <<e>>
      BY <2>2, <3>3, AppendIsConcat
    <3>5. Append(w.seen, e) \in Seq(C)
      BY <2>2, <3>3
    <3> QED
      BY <3>2, <3>3, <3>4, <3>5 DEF e
  <2>8. x \in S
    BY <2>4, <2>6, <2>7
  <2> QED
    BY <2>3, <2>5, <2>6, <2>7, <2>8
<1>9. \A w : Met(n, w) => Round(w) = w
  BY <1>5
<1> HIDE DEF Met, Round, start, S, n
<1>10. Stages(S, M, n, start, step)
  <2>1. \A k \in 0 .. n : \A w : w \in M[k] <=> w \in S /\ Met(k, w)
    OBVIOUS
  <2>2. \A w \in S : step[w] = Round(w)
    OBVIOUS
  <2>3. \A k \in 0 .. n - 1 : k \in 0 .. n /\ k + 1 \in 0 .. n
    BY <1>4
  <2>4. 0 \in 0 .. n /\ n \in 0 .. n
    BY <1>4
  <2> HIDE DEF M, step
  <2> QED
    BY <1>7, <1>8, <1>9, <2>1, <2>2, <2>3, <2>4 DEF Stages
<1>11. \E v : v = [k \in 0 .. N |-> IF k = 0 THEN start ELSE Round(v[k - 1])]
  <2> HIDE DEF M
  <2>1. PICK v : Rounds(N, start, step, v) /\ \A k \in 0 .. N : v[k] \in S
    <3> HIDE DEF step
    <3> QED
      BY <1>4, <1>10, StagesRun
  <2>2. ASSUME NEW k \in 0 .. N, k # 0 PROVE step[v[k - 1]] = Round(v[k - 1])
    <3>1. k - 1 \in 0 .. N
      BY <1>4, <2>2
    <3> QED
      BY <2>1, <3>1
  <2> HIDE DEF step
  <2> QED
    BY <2>1, <2>2 DEF Rounds
<1>12. W = [k \in 0 .. N |-> IF k = 0 THEN start ELSE Round(W[k - 1])]
  BY <1>11
<1> HIDE DEF W
<1>13. Follows(S, N, start, step, W)
  <2>1. ASSUME NEW i \in 0 .. N - 1, W[i] \in S PROVE W[i + 1] = step[W[i]]
    <3>1. i + 1 \in 0 .. N /\ i + 1 # 0 /\ (i + 1) - 1 = i
      BY <1>4
    <3> QED
      BY <1>12, <2>1, <3>1
  <2>2. W[0] = start
    BY <1>4, <1>12
  <2> QED
    BY <2>1, <2>2 DEF Follows
<1>14. W[N] \in M[n]
  <2> HIDE DEF M, step
  <2> QED
    BY <1>4, <1>10, <1>13, StagesEnd
<1>15. Met(n, W[N])
  BY <1>4, <1>14
<1>16. W[N].seen = s /\ HMidway(ls, fk, h, s, kept, Len(s), W[N].mem)
  <2>1. SubSeq(s, 1, Len(s)) = s
    BY <1>1, SubSeqFull
  <2> QED
    BY <1>15, <2>1 DEF Met, n
<1> QED
  BY <1>1, <1>2, <1>3, <1>16, HMidwayEnd

-----------------------------------------------------------------------------
(* Every loop over lists that the invariants describe is complete.         *)
LEMMA ListLoopsHold ==
  ASSUME ListInv
  PROVE  ListLoops
<1> SUFFICES ASSUME NEW h \in live
             PROVE  LET s == lists[h]
                        n == Len(s)
                    IN /\ ListForEach(links, h) = s
                       /\ ListForEachPrev(links, h) = Reverse(s)
                       /\ \A gone \in SUBSET ToSet(s) :
                            /\ Walked(ListForEachSafe(links, h, gone), h, s, s, gone)
                            /\ Walked(ListForEachSafeReverse(links, h, gone), h, s, Reverse(s), gone)
                       /\ \A i \in 1 .. n :
                            LET from == SubSeq(s, i, n)
                                behind == SubSeq(s, i + 1, n)
                            IN /\ ListForEachContinue(links, s[i], h) = behind
                               /\ ListForEachContinueReverse(links, s[i], h) = Reverse(SubSeq(s, 1, i - 1))
                               /\ ListForEachFrom(links, s[i], h) = from
                               /\ ListForEachFromReverse(links, s[i], h) = Reverse(SubSeq(s, 1, i))
                               /\ \A gone \in SUBSET ToSet(behind) :
                                    Walked(ListForEachSafeContinue(links, s[i], h, gone), h, s, behind, gone)
                               /\ \A gone \in SUBSET ToSet(from) :
                                    Walked(ListForEachSafeFrom(links, s[i], h, gone), h, s, from, gone)
  BY DEF ListLoops
<1> DEFINE s == lists[h]  n == Len(s)
<1>1. /\ Agree(links, lists, live) /\ h \in ListHead /\ s \in Seq(ListEntry) /\ n \in Nat
      /\ Represents(links, h, s)
  <2>1. Agree(links, lists, live) /\ h \in ListHead /\ s \in Seq(ListEntry) /\ Represents(links, h, s)
    BY DEF ListInv, Agree
  <2> QED
    BY <2>1
<1> HIDE DEF n
<1>2. /\ \A i \in 1 .. n + 1 : ForEach(links.next, At(h, s, i), h) = SubSeq(s, i, n)
      /\ \A i \in 0 .. n : ForEach(links.prev, At(h, s, i), h) = Reverse(SubSeq(s, 1, i))
  <2>1. \A i \in 1 .. n + 1 : ForEach(links.next, At(h, s, i), h) = SubSeq(s, i, n)
    BY <1>1, Onward DEF n
  <2>2. \A i \in 0 .. n : ForEach(links.prev, At(h, s, i), h) = Reverse(SubSeq(s, 1, i))
    BY <1>1, Backwards DEF n
  <2> QED
    BY <2>1, <2>2
<1>3. SubSeq(s, 1, n) = s
  BY <1>1, SubSeqFull DEF n
<1>4. \A i \in 0 .. n : links.next[At(h, s, i)] = At(h, s, i + 1) /\ links.prev[At(h, s, i + 1)] = At(h, s, i)
  BY <1>1 DEF Represents, n
<1>5. At(h, s, 0) = h /\ At(h, s, n + 1) = h /\ \A i \in 1 .. n : At(h, s, i) = s[i]
  BY <1>1, Positions DEF n
<1>6. ASSUME NEW i \in 0 .. n, NEW gone \in SUBSET ToSet(SubSeq(s, i + 1, n))
      PROVE  Walked(SafeLoop(links, At(h, s, i + 1), h, gone), h, s, SubSeq(s, i + 1, n), gone)
  <2> DEFINE b == SubSeq(s, i + 1, n)
  <2>1. \A x \in i + 1 .. n : s[x] \in ListEntry
    BY <1>1 DEF n
  <2>2. /\ b \in Seq(ListEntry)
        /\ Len(b) = IF i + 1 <= n THEN n - (i + 1) + 1 ELSE 0
        /\ \A x \in 1 .. n - (i + 1) + 1 : b[x] = s[i + 1 + x - 1]
    BY <1>1, <2>1, SubSeqProperties
  <2> HIDE DEF b
  <2>3. ToSet(b) \subseteq {s[x] : x \in i + 1 .. n}
    <3>1. ASSUME NEW x \in 1 .. Len(b) PROVE b[x] \in {s[y] : y \in i + 1 .. n}
      <4>1. Len(b) = n - i /\ n - (i + 1) + 1 = n - i
        BY <1>1, <2>2
      <4>2. i + 1 + x - 1 \in i + 1 .. n /\ x \in 1 .. n - (i + 1) + 1
        BY <1>1, <4>1
      <4> QED
        BY <2>2, <4>2
    <3>2. DOMAIN b = 1 .. Len(b)
      BY <2>2
    <3> QED
      BY <3>1, <3>2 DEF ToSet
  <2>4. ASSUME NEW x \in 1 .. i, s[x] \in gone PROVE FALSE
    <3>1. PICK y \in i + 1 .. n : s[x] = s[y]
      BY <1>6, <2>3, <2>4 DEF b
    <3>2. x \in 1 .. n /\ y \in 1 .. n /\ x # y
      BY <1>1
    <3> QED
      BY <1>1, <3>1, <3>2, OnlyOnce DEF n
  <2> QED
    BY <1>1, <2>4, SafeWalk DEF n
<1>7. 0 \in 0 .. n /\ 0 + 1 = 1 /\ 1 \in 1 .. n + 1 /\ n \in 0 .. n
  BY <1>1
<1>8. links.next[h] = At(h, s, 1) /\ links.prev[h] = At(h, s, n)
  BY <1>4, <1>5, <1>7
<1>9. ListForEach(links, h) = s /\ ListForEachPrev(links, h) = Reverse(s)
  BY <1>2, <1>3, <1>7, <1>8 DEF ListForEach, ListForEachPrev
<1>10. ASSUME NEW gone \in SUBSET ToSet(s)
       PROVE  /\ Walked(ListForEachSafe(links, h, gone), h, s, s, gone)
              /\ Walked(ListForEachSafeReverse(links, h, gone), h, s, Reverse(s), gone)
  <2>1. Walked(SafeLoop(links, At(h, s, 1), h, gone), h, s, s, gone)
    BY <1>3, <1>6, <1>7
  <2>2. Walked(ListForEachSafe(links, h, gone), h, s, s, gone)
    BY <1>8, <2>1 DEF ListForEachSafe
  <2> QED
    BY <1>1, <2>2, SafeWalkBack
<1>11. ASSUME NEW i \in 1 .. n
       PROVE  /\ ListForEachContinue(links, s[i], h) = SubSeq(s, i + 1, n)
              /\ ListForEachContinueReverse(links, s[i], h) = Reverse(SubSeq(s, 1, i - 1))
              /\ ListForEachFrom(links, s[i], h) = SubSeq(s, i, n)
              /\ ListForEachFromReverse(links, s[i], h) = Reverse(SubSeq(s, 1, i))
              /\ \A gone \in SUBSET ToSet(SubSeq(s, i + 1, n)) :
                   Walked(ListForEachSafeContinue(links, s[i], h, gone), h, s, SubSeq(s, i + 1, n), gone)
              /\ \A gone \in SUBSET ToSet(SubSeq(s, i, n)) :
                   Walked(ListForEachSafeFrom(links, s[i], h, gone), h, s, SubSeq(s, i, n), gone)
  <2>1. /\ i \in 0 .. n /\ i - 1 \in 0 .. n /\ (i - 1) + 1 = i /\ i \in 1 .. n + 1 /\ i + 1 \in 1 .. n + 1
    BY <1>1
  <2>2. s[i] = At(h, s, i) /\ links.next[s[i]] = At(h, s, i + 1) /\ links.prev[s[i]] = At(h, s, i - 1)
    BY <1>4, <1>5, <2>1
  <2>3. ASSUME NEW gone \in SUBSET ToSet(SubSeq(s, i + 1, n))
        PROVE  Walked(ListForEachSafeContinue(links, s[i], h, gone), h, s, SubSeq(s, i + 1, n), gone)
    BY <1>6, <2>1, <2>2 DEF ListForEachSafeContinue
  <2>4. ASSUME NEW gone \in SUBSET ToSet(SubSeq(s, i, n))
        PROVE  Walked(ListForEachSafeFrom(links, s[i], h, gone), h, s, SubSeq(s, i, n), gone)
    <3>1. Walked(SafeLoop(links, At(h, s, (i - 1) + 1), h, gone), h, s, SubSeq(s, (i - 1) + 1, n), gone)
      BY <1>6, <2>1
    <3> QED
      BY <2>1, <2>2, <3>1 DEF ListForEachSafeFrom
  <2> QED
    BY <1>2, <2>1, <2>2, <2>3, <2>4
       DEF ListForEachContinue, ListForEachContinueReverse, ListForEachFrom, ListForEachFromReverse
<1> QED
  BY <1>9, <1>10, <1>11 DEF n

LEMMA HlistLoopsHold ==
  ASSUME HlistInv
  PROVE  HlistLoops
<1> SUFFICES ASSUME NEW h \in HlistHead
             PROVE  LET s == hlists[h]
                        n == Len(s)
                    IN /\ HlistForEach(hlinks, h) = s
                       /\ \A i \in 1 .. n : /\ HlistForEachContinue(hlinks, s[i]) = SubSeq(s, i + 1, n)
                                            /\ HlistForEachFrom(hlinks, s[i]) = SubSeq(s, i, n)
                       /\ \A gone \in SUBSET ToSet(s) :
                            LET walk == HlistForEachSafe(hlinks, h, gone)
                            IN walk.seen = s /\ HRepresents(walk.mem, h, Left(s, gone))
  BY DEF HlistLoops
<1> DEFINE s == hlists[h]  n == Len(s)
<1>1. /\ Chained(hlinks, hlists, fake) /\ s \in Seq(HlistNode) /\ n \in Nat /\ HRepresents(hlinks, h, s)
  <2>1. Chained(hlinks, hlists, fake) /\ s \in Seq(HlistNode) /\ HRepresents(hlinks, h, s)
    BY DEF HlistInv, Chained, Apart
  <2> QED
    BY <2>1
<1> HIDE DEF n
<1>2. \A i \in 1 .. n + 1 : ForEach(hlinks.pointer, HAt(h, s, i), HNull) = SubSeq(s, i, n)
  BY <1>1, HOnward DEF n
<1>3. \A i \in 0 .. n : hlinks.pointer[HAt(h, s, i)] = HAt(h, s, i + 1)
  BY <1>1 DEF HRepresents, n
<1>4. HlistForEach(hlinks, h) = s
  <2>1. 0 \in 0 .. n /\ 0 + 1 = 1 /\ 1 \in 1 .. n + 1 /\ HAt(h, s, 0) = h
    BY <1>1 DEF HAt
  <2>2. hlinks.pointer[h] = HAt(h, s, 1)
    BY <1>3, <2>1
  <2>3. SubSeq(s, 1, n) = s
    BY <1>1, SubSeqFull DEF n
  <2> QED
    BY <1>2, <2>1, <2>2, <2>3 DEF HlistForEach
<1>5. ASSUME NEW i \in 1 .. n
      PROVE  /\ HlistForEachContinue(hlinks, s[i]) = SubSeq(s, i + 1, n)
             /\ HlistForEachFrom(hlinks, s[i]) = SubSeq(s, i, n)
  <2>1. i \in 0 .. n /\ i \in 1 .. n + 1 /\ i + 1 \in 1 .. n + 1 /\ HAt(h, s, i) = s[i]
    BY <1>1 DEF HAt, n
  <2> QED
    BY <1>2, <1>3, <2>1 DEF HlistForEachContinue, HlistForEachFrom
<1>6. ASSUME NEW gone
      PROVE  /\ HlistForEachSafe(hlinks, h, gone).seen = s
             /\ HRepresents(HlistForEachSafe(hlinks, h, gone).mem, h, Left(s, gone))
  BY <1>1, HSafeWalk
<1> QED
  BY <1>4, <1>5, <1>6 DEF n

(***************************************************************************)
(* After any sequence of the calls of list.h, every loop of list.h over    *)
(* any list meets the entries it promises, in order and each once; a safe  *)
(* loop also when its body removes any of the entries it is given, and it  *)
(* leaves the list without them: for any finite number of heads, entries   *)
(* and nodes.                                                              *)
(***************************************************************************)
THEOREM LoopsAlwaysComplete == ListSpec /\ HlistSpec => []LoopsComplete
<1>1. ListSpec => []ListInv
  BY ListInitHolds, ListInvStep, PTL DEF ListSpec
<1>2. HlistSpec => []HlistInv
  BY HlistInvInit, HlistInvNext, PTL DEF HlistSpec
<1>3. ListInv /\ HlistInv => LoopsComplete
  BY ListLoopsHold, HlistLoopsHold DEF LoopsComplete
<1> QED
  BY <1>1, <1>2, <1>3, PTL
=============================================================================
