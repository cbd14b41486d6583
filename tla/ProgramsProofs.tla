---------------------------- MODULE ProgramsProofs ----------------------------
(***************************************************************************)
(* What the smaller programs keep, for any descriptors, images and         *)
(* processes: the client queue of the atom server, the image of the        *)
(* upgrade client and the frames it sends, and the continuum that          *)
(* processes share.                                                        *)
(***************************************************************************)
EXTENDS Ketama, Upgrade, AtomServer, FunctionTheorems, FiniteSetTheorems, SequenceTheorems,
        WellFoundedInduction, TLAPS

(***************************************************************************)
(* The atom server                                                         *)
(***************************************************************************)
Held == open \ blocking

Links == [next : Descriptors \cup {NoClient}, pre : Descriptors \cup {NoClient}]

AtomInv ==
  /\ client \in [Descriptors -> Links]
  /\ open \subseteq Descriptors /\ blocking \subseteq open
  /\ QueueAgrees

LEMMA QueueKnown ==
  ASSUME AtomInv, NEW q \in Bijection(1 .. Cardinality(Held), Held)
  PROVE  /\ IsFiniteSet(Held) /\ Cardinality(Held) \in Nat /\ Held \subseteq Descriptors
         /\ NoClient \notin Held
         /\ q \in [1 .. Cardinality(Held) -> Held]
         /\ \A i, j \in 1 .. Cardinality(Held) : q[i] = q[j] => i = j
         /\ \A c \in Held : \E i \in 1 .. Cardinality(Held) : q[i] = c
<1>1. Held \subseteq Descriptors /\ NoClient \notin Held
  BY AtomAssumption DEF AtomInv, Held
<1>2. IsFiniteSet(Held)
  BY <1>1, AtomAssumption, FS_Subset
<1>3. Cardinality(Held) \in Nat
  BY <1>2, FS_CardinalityType
<1> QED
  BY <1>1, <1>2, <1>3, Fun_BijectionProperties

LEMMA AtomStart == AtomInit => AtomInv
<1> SUFFICES ASSUME AtomInit PROVE AtomInv
  OBVIOUS
<1>1. Held = {} /\ Cardinality(Held) = 0 /\ 1 .. 0 = {}
  BY FS_EmptySet DEF AtomInit, Held
<1>2. <<>> \in [1 .. 0 -> {}]
  BY <1>1
<1>3. <<>> \in Bijection(1 .. 0, {})
  BY <1>1, <1>2, Fun_IsBij
<1>4. Queues(<<>>, 0)
  BY DEF Queues, AtomInit
<1> QED
  BY <1>1, <1>3, <1>4 DEF AtomInit, AtomInv, QueueAgrees, Held, Links

LEMMA AgreesNext ==
  ASSUME NEW n, n = Cardinality(Held'), NEW p \in Bijection(1 .. n, Held'),
         clientQueue' = IF n = 0 THEN NoClient ELSE p[1],
         \A i \in 1 .. n :
           client'[p[i]] = [next |-> IF i = n THEN NoClient ELSE p[i + 1],
                            pre |-> IF i = 1 THEN NoClient ELSE p[i - 1]],
         registered' = {c \in Held' : c < SetSize}
  PROVE  QueueAgrees'
<1>1. \E q \in Bijection(1 .. n, Held') : Queues(q, n)'
  BY DEF Queues
<1> QED
  BY <1>1 DEF QueueAgrees, Held, Queues

LEMMA LinksOf ==
  ASSUME NEW r \in Links, NEW x \in Descriptors \cup {NoClient}
  PROVE  /\ [r EXCEPT !.pre = x] = [next |-> r.next, pre |-> x]
         /\ [r EXCEPT !.next = x] = [next |-> x, pre |-> r.pre]
         /\ [r EXCEPT !.pre = x] \in Links /\ [r EXCEPT !.next = x] \in Links
BY DEF Links

(* clientAdd, of a descriptor that is not open.                            *)
LEMMA AddKeeps ==
  ASSUME AtomInv, NEW fd \in Descriptors \ open, ClientAdd(fd), open' = open \cup {fd},
         blocking' = blocking, registered' = IF fd < SetSize THEN registered \cup {fd} ELSE registered
  PROVE  AtomInv'
<1>0. PICK n : n = Cardinality(Held)
  OBVIOUS
<1>1. PICK q \in Bijection(1 .. n, Held) : Queues(q, n)
  BY <1>0 DEF AtomInv, QueueAgrees, Held
<1>2. /\ IsFiniteSet(Held) /\ n \in Nat /\ Held \subseteq Descriptors /\ NoClient \notin Held
      /\ q \in [1 .. n -> Held]
      /\ \A i, j \in 1 .. n : q[i] = q[j] => i = j
      /\ \A c \in Held : \E i \in 1 .. n : q[i] = c
  BY <1>0, QueueKnown
<1>3. Held' = Held \cup {fd} /\ fd \notin Held /\ fd # NoClient
  BY AtomAssumption DEF Held, AtomInv
<1>4. Cardinality(Held') = n + 1
  BY <1>0, <1>2, <1>3, FS_AddElement
<1> DEFINE p == [i \in 1 .. n + 1 |-> IF i = 1 THEN fd ELSE q[i - 1]]
<1>5. p \in [1 .. n + 1 -> Held'] /\ p[1] = fd /\ \A i \in 1 .. n : p[i + 1] = q[i]
  BY <1>2, <1>3
<1>6. \A i \in 1 .. n + 1 : i = 1 \/ (i - 1 \in 1 .. n /\ p[i] = q[i - 1])
  BY <1>2
<1> HIDE DEF p
<1>7. ASSUME NEW i \in 1 .. n + 1, NEW j \in 1 .. n + 1, p[i] = p[j]
      PROVE  i = j
  <2>1. ASSUME NEW k \in 1 .. n + 1, k # 1
        PROVE  k - 1 \in 1 .. n /\ p[k] = q[k - 1] /\ q[k - 1] \in Held /\ p[k] # fd
    BY <1>2, <1>3, <1>6, <2>1
  <2>2. CASE i # 1 /\ j # 1
    <3>1. i - 1 = j - 1
      BY <1>2, <1>7, <2>1, <2>2
    <3> QED
      BY <3>1
  <2>3. CASE i = 1 \/ j = 1
    BY <1>5, <1>7, <2>1, <2>3
  <2> QED
    BY <2>2, <2>3
<1>8. \A c \in Held' : \E i \in 1 .. n + 1 : p[i] = c
  <2>1. ASSUME NEW c \in Held
        PROVE  \E i \in 1 .. n + 1 : p[i] = c
    <3>1. PICK i \in 1 .. n : q[i] = c
      BY <1>2
    <3>2. i + 1 \in 1 .. n + 1 /\ p[i + 1] = c
      BY <3>1, <1>2, <1>5
    <3> QED
      BY <3>2
  <2>2. 1 \in 1 .. n + 1 /\ p[1] = fd
    BY <1>2, <1>5
  <2> QED
    BY <2>1, <2>2, <1>3
<1>9. p \in Bijection(1 .. n + 1, Held')
  BY <1>5, <1>7, <1>8, Fun_IsBij
<1>10. /\ clientQueue = IF n = 0 THEN NoClient ELSE q[1]
       /\ \A i \in 1 .. n :
            client[q[i]] = [next |-> IF i = n THEN NoClient ELSE q[i + 1],
                            pre |-> IF i = 1 THEN NoClient ELSE q[i - 1]]
  BY <1>1 DEF Queues
<1>11. /\ clientQueue' = fd
       /\ \A c \in Descriptors :
            client'[c] = IF c = fd THEN [next |-> clientQueue, pre |-> NoClient]
                         ELSE IF c = clientQueue THEN [client[c] EXCEPT !.pre = fd]
                         ELSE client[c]
  BY DEF ClientAdd
<1>12. clientQueue \in Descriptors \cup {NoClient}
  BY <1>2, <1>10
<1>13. client' \in [Descriptors -> Links]
  BY <1>12 DEF ClientAdd, AtomInv, Links
<1>14. ASSUME NEW i \in 1 .. n + 1
       PROVE  client'[p[i]] = [next |-> IF i = n + 1 THEN NoClient ELSE p[i + 1],
                               pre |-> IF i = 1 THEN NoClient ELSE p[i - 1]]
  <2>1. CASE i = 1
    <3>1. clientQueue = IF n = 0 THEN NoClient ELSE p[2]
      BY <1>2, <1>5, <1>10
    <3>2. client'[fd] = [next |-> clientQueue, pre |-> NoClient]
      BY <1>11
    <3>3. 1 = n + 1 <=> n = 0
      BY <1>2
    <3> QED
      BY <2>1, <3>1, <3>2, <3>3, <1>5
  <2>2. CASE i = 2
    <3>1. 1 \in 1 .. n /\ p[2] = q[1] /\ q[1] \in Held /\ clientQueue = q[1]
      BY <2>2, <1>2, <1>5, <1>10
    <3>2. client[q[1]] = [next |-> IF 1 = n THEN NoClient ELSE q[2], pre |-> NoClient]
      BY <3>1, <1>10
    <3>3. client'[p[2]] = [client[q[1]] EXCEPT !.pre = fd]
      BY <3>1, <1>2, <1>3, <1>11
    <3>4. client'[p[2]] = [next |-> IF 1 = n THEN NoClient ELSE q[2], pre |-> fd]
      BY <3>2, <3>3
    <3>5. 1 # n => p[3] = q[2]
      BY <3>1, <1>2, <1>6
    <3> QED
      BY <2>2, <3>4, <3>5, <1>2, <1>5
  <2>3. CASE i # 1 /\ i # 2
    <3>1. i - 1 \in 1 .. n /\ i - 1 # 1 /\ 1 \in 1 .. n /\ p[i] = q[i - 1] /\ q[i - 1] \in Held
      BY <2>3, <1>2, <1>6
    <3>2. q[i - 1] # clientQueue /\ q[i - 1] # fd /\ q[i - 1] \in Descriptors
      BY <3>1, <1>2, <1>3, <1>10
    <3>3. client'[p[i]] = client[q[i - 1]]
      BY <3>1, <3>2, <1>11
    <3>4. client[q[i - 1]] = [next |-> IF i - 1 = n THEN NoClient ELSE q[(i - 1) + 1],
                              pre |-> IF i - 1 = 1 THEN NoClient ELSE q[(i - 1) - 1]]
      BY <3>1, <1>10
    <3>5. (i - 1) + 1 = i /\ (i - 1) - 1 \in 1 .. n /\ p[i - 1] = q[(i - 1) - 1]
      BY <2>3, <3>1, <1>2, <1>6
    <3>6. i # n + 1 => p[i + 1] = q[i]
      BY <2>3, <1>2, <1>5
    <3> QED
      BY <2>3, <3>1, <3>3, <3>4, <3>5, <3>6, <1>2
  <2> QED
    BY <2>1, <2>2, <2>3
<1>15. clientQueue' = IF n + 1 = 0 THEN NoClient ELSE p[1]
  BY <1>2, <1>5, <1>11
<1>16. registered' = {c \in Held' : c < SetSize}
  BY <1>3 DEF AtomInv, QueueAgrees, Held
<1>17. QueueAgrees'
  BY <1>4, <1>9, <1>14, <1>15, <1>16, AgreesNext
<1> QED
  BY <1>13, <1>17 DEF AtomInv

LEMMA AtomSame ==
  ASSUME AtomInv, UNCHANGED <<clientQueue, client, open, registered, blocking>>
  PROVE  AtomInv'
<1>1. Held' = Held
  BY DEF Held
<1>2. PICK n, q :
        /\ n = Cardinality(Held) /\ q \in Bijection(1 .. n, Held) /\ Queues(q, n)
        /\ registered = {c \in Held : c < SetSize}
  BY DEF AtomInv, QueueAgrees, Held
<1>3. QueueAgrees'
  BY <1>1, <1>2, AgreesNext DEF Queues
<1> QED
  BY <1>3 DEF AtomInv

(* clientDelete, of a client that is in the queue.                         *)
LEMMA DeleteKeeps ==
  ASSUME AtomInv, NEW tmp \in registered, ClientDelete(tmp), blocking' = blocking
  PROVE  AtomInv'
<1>0. PICK n : n = Cardinality(Held)
  OBVIOUS
<1>1. PICK q \in Bijection(1 .. n, Held) : Queues(q, n)
  BY <1>0 DEF AtomInv, QueueAgrees, Held
<1>2. /\ IsFiniteSet(Held) /\ n \in Nat /\ Held \subseteq Descriptors /\ NoClient \notin Held
      /\ q \in [1 .. n -> Held]
      /\ \A i, j \in 1 .. n : q[i] = q[j] => i = j
      /\ \A c \in Held : \E i \in 1 .. n : q[i] = c
  BY <1>0, QueueKnown
<1>3. tmp \in Held /\ Held' = Held \ {tmp}
  BY DEF Held, AtomInv, QueueAgrees, ClientDelete
<1>4. Cardinality(Held') = n - 1
  BY <1>0, <1>2, <1>3, FS_RemoveElement
<1>5. PICK k \in 1 .. n : q[k] = tmp
  BY <1>2, <1>3
<1> DEFINE At(i) == IF i < k THEN i ELSE i + 1
           p == [i \in 1 .. n - 1 |-> q[At(i)]]
<1>6. ASSUME NEW i \in 1 .. n - 1
      PROVE  At(i) \in 1 .. n /\ At(i) # k
  BY <1>2
<1>7. ASSUME NEW i \in 1 .. n - 1, NEW j \in 1 .. n - 1, At(i) = At(j)
      PROVE  i = j
  BY <1>2, <1>7
<1>8. ASSUME NEW i \in 1 .. n, i # k
      PROVE  \E j \in 1 .. n - 1 : At(j) = i
  <2>1. CASE i < k
    <3>1. i \in 1 .. n - 1 /\ At(i) = i
      BY <2>1, <1>2
    <3> QED
      BY <3>1
  <2>2. CASE i > k
    <3>1. i - 1 \in 1 .. n - 1 /\ At(i - 1) = i
      BY <2>2, <1>2
    <3> QED
      BY <3>1
  <2> QED
    BY <2>1, <2>2, <1>8
<1>9. \A i \in 1 .. n - 1 : p[i] = q[At(i)]
  OBVIOUS
<1>10. p \in [1 .. n - 1 -> Held']
  BY <1>2, <1>3, <1>5, <1>6
<1> HIDE DEF p, At
<1>11. \A i, j \in 1 .. n - 1 : p[i] = p[j] => i = j
  BY <1>2, <1>6, <1>7, <1>9
<1>12. \A c \in Held' : \E i \in 1 .. n - 1 : p[i] = c
  <2>1. SUFFICES ASSUME NEW c \in Held, c # tmp
                 PROVE  \E i \in 1 .. n - 1 : p[i] = c
    BY <1>3
  <2>2. PICK j \in 1 .. n : q[j] = c
    BY <1>2
  <2>3. j # k
    BY <2>1, <2>2, <1>5
  <2>4. PICK i \in 1 .. n - 1 : At(i) = j
    BY <2>3, <1>8
  <2> QED
    BY <2>2, <2>4, <1>9
<1>13. p \in Bijection(1 .. n - 1, Held')
  BY <1>10, <1>11, <1>12, Fun_IsBij
<1>14. /\ clientQueue = q[1]
       /\ \A i \in 1 .. n :
            client[q[i]] = [next |-> IF i = n THEN NoClient ELSE q[i + 1],
                            pre |-> IF i = 1 THEN NoClient ELSE q[i - 1]]
  BY <1>1, <1>2 DEF Queues
<1>15. client[tmp] = [next |-> IF k = n THEN NoClient ELSE q[k + 1],
                      pre |-> IF k = 1 THEN NoClient ELSE q[k - 1]]
  BY <1>5, <1>14
<1> DEFINE next == IF k = n THEN NoClient ELSE q[k + 1]
           pre == IF k = 1 THEN NoClient ELSE q[k - 1]
<1>16. tmp = clientQueue <=> k = 1
  BY <1>2, <1>5, <1>14
<1>17. \A c \in Descriptors :
         client'[c] = IF c = next THEN [client[c] EXCEPT !.pre = pre]
                      ELSE IF c = pre THEN [client[c] EXCEPT !.next = next]
                      ELSE client[c]
  BY <1>15, <1>16 DEF ClientDelete, Unlinked
<1>18. clientQueue' = IF k = 1 THEN next ELSE q[1]
  BY <1>14, <1>15, <1>16 DEF ClientDelete
<1>19. next \in Descriptors \cup {NoClient} /\ pre \in Descriptors \cup {NoClient}
  BY <1>2
<1>p. /\ k # n => next = q[k + 1]
      /\ k = n => next = NoClient
      /\ k # 1 => pre = q[k - 1]
      /\ k = 1 => pre = NoClient
  OBVIOUS
<1> HIDE DEF next, pre
<1>20. client' \in [Descriptors -> Links]
  <2>1. ASSUME NEW c \in Descriptors
        PROVE  client'[c] \in Links
    <3>1. client[c] \in Links
      BY DEF AtomInv
    <3>2. [client[c] EXCEPT !.pre = pre] \in Links /\ [client[c] EXCEPT !.next = next] \in Links
      BY <3>1, <1>19, LinksOf
    <3> QED
      BY <3>1, <3>2, <1>17
  <2>2. client' = [c \in Descriptors |-> client'[c]]
    BY DEF ClientDelete, Unlinked
  <2> QED
    BY <2>1, <2>2
<1>21. ASSUME NEW i \in 1 .. n - 1
       PROVE  client'[p[i]] = [next |-> IF i = n - 1 THEN NoClient ELSE p[i + 1],
                               pre |-> IF i = 1 THEN NoClient ELSE p[i - 1]]
  <2> DEFINE a == At(i)
  <2>1. a \in 1 .. n /\ p[i] = q[a] /\ q[a] \in Held /\ q[a] \in Descriptors /\ q[a] # NoClient
    BY <1>2, <1>6, <1>9
  <2>2. client[q[a]] = [next |-> IF a = n THEN NoClient ELSE q[a + 1],
                        pre |-> IF a = 1 THEN NoClient ELSE q[a - 1]]
    BY <2>1, <1>14
  <2>3. i # n - 1 => p[i + 1] = q[At(i + 1)]
    BY <1>2, <1>9
  <2>4. i # 1 => p[i - 1] = q[At(i - 1)]
    BY <1>2, <1>9
  <2>5. q[a] = next <=> a = k + 1
    <3>1. k # n => k + 1 \in 1 .. n
      BY <1>2
    <3> QED
      BY <2>1, <3>1, <1>2, <1>p
  <2>6. q[a] = pre <=> a = k - 1
    <3>1. k # 1 => k - 1 \in 1 .. n
      BY <1>2
    <3> QED
      BY <2>1, <3>1, <1>2, <1>p
  <2>l. client[q[a]] \in Links
    BY <2>1 DEF AtomInv
  <2>7. CASE a = k + 1
    <3>1. a = i + 1 /\ i = k /\ (i # n - 1 => At(i + 1) = a + 1) /\ (i # 1 => At(i - 1) = k - 1)
      BY <2>1, <2>7, <1>2 DEF At
    <3>2. client'[p[i]] = [client[q[a]] EXCEPT !.pre = pre]
      BY <2>1, <2>5, <2>7, <1>17
    <3>3. client'[p[i]] = [next |-> IF a = n THEN NoClient ELSE q[a + 1], pre |-> pre]
      BY <2>2, <2>l, <3>2, <1>19, LinksOf
    <3> QED
      BY <2>3, <2>4, <3>1, <3>3, <1>2, <1>p
  <2>8. CASE a = k - 1
    <3>1. a = i /\ (i # n - 1 => At(i + 1) = k + 1) /\ (i # 1 => At(i - 1) = a - 1) /\ (k = n <=> i = n - 1)
      BY <2>1, <2>8, <1>2 DEF At
    <3>2. client'[p[i]] = [client[q[a]] EXCEPT !.next = next]
      <4>1. q[a] = pre /\ q[a] # next
        BY <2>1, <2>5, <2>6, <2>8, <1>2
      <4> QED
        BY <2>1, <4>1, <1>17
    <3>3. client'[p[i]] = [next |-> next, pre |-> IF a = 1 THEN NoClient ELSE q[a - 1]]
      BY <2>2, <2>l, <3>2, <1>19, LinksOf
    <3> QED
      BY <2>3, <2>4, <3>1, <3>3, <1>2, <1>p
  <2>9. CASE a # k + 1 /\ a # k - 1
    <3>1. client'[p[i]] = client[q[a]]
      BY <2>1, <2>5, <2>6, <2>9, <1>17
    <3>2. /\ a = n <=> i = n - 1
          /\ a = 1 <=> i = 1
          /\ i # n - 1 => At(i + 1) = a + 1
          /\ i # 1 => At(i - 1) = a - 1
      BY <2>1, <2>9, <1>2, <1>6 DEF At
    <3> QED
      BY <2>2, <2>3, <2>4, <3>1, <3>2
  <2> QED
    BY <2>7, <2>8, <2>9
<1>22. clientQueue' = IF n - 1 = 0 THEN NoClient ELSE p[1]
  <2>1. CASE k = 1
    BY <2>1, <1>2, <1>9, <1>18, <1>p DEF At
  <2>2. CASE k # 1
    BY <2>2, <1>2, <1>9, <1>18 DEF At
  <2> QED
    BY <2>1, <2>2
<1>24. registered' = {c \in Held' : c < SetSize}
  BY <1>3 DEF AtomInv, QueueAgrees, Held, ClientDelete
<1>25. open' \subseteq Descriptors /\ blocking' \subseteq open'
  BY <1>3 DEF AtomInv, ClientDelete, Held
<1>26. QueueAgrees'
  <2>1. PICK m : m = n - 1
    OBVIOUS
  <2>2. m = Cardinality(Held') /\ p \in Bijection(1 .. m, Held')
    BY <2>1, <1>4, <1>13
  <2>3. clientQueue' = IF m = 0 THEN NoClient ELSE p[1]
    BY <2>1, <1>22
  <2>4. ASSUME NEW i \in 1 .. m
        PROVE  client'[p[i]] = [next |-> IF i = m THEN NoClient ELSE p[i + 1],
                                pre |-> IF i = 1 THEN NoClient ELSE p[i - 1]]
    BY <2>1, <1>21
  <2>5. Queues(p, m)'
    BY ONLY <2>3, <2>4 DEF Queues
  <2> QED
    BY <2>2, <2>5, <1>24 DEF QueueAgrees, Held
<1> QED
  BY <1>20, <1>25, <1>26 DEF AtomInv

(* After any connections and disconnections the client queue has every     *)
(* open client once, linked both ways, and the event loop knows exactly    *)
(* the queued clients that its table has room for.                         *)
THEOREM QueueAlwaysAgrees == AtomSpec => []QueueAgrees
<1>1. ASSUME AtomInv, [AtomNext]_atomVars
      PROVE  AtomInv'
  <2>1. CASE UNCHANGED atomVars
    BY <1>1, <2>1, AtomSame DEF atomVars
  <2>2. CASE ServerAccept
    <3>1. PICK fd \in Descriptors \ open :
            /\ open' = open \cup {fd}
            /\ \/ /\ ClientAdd(fd)
                  /\ registered' = IF fd < SetSize THEN registered \cup {fd} ELSE registered
                  /\ blocking' = blocking
               \/ blocking' = blocking \cup {fd} /\ UNCHANGED <<clientQueue, client, registered>>
      BY <2>2 DEF ServerAccept, Accepted
    <3>2. CASE ClientAdd(fd) /\ blocking' = blocking
               /\ registered' = IF fd < SetSize THEN registered \cup {fd} ELSE registered
      BY <1>1, <3>1, <3>2, AddKeeps
    <3>3. CASE blocking' = blocking \cup {fd} /\ UNCHANGED <<clientQueue, client, registered>>
      <4>1. open' \ blocking' = open \ blocking
        BY <1>1, <3>1, <3>3 DEF AtomInv
      <4>2. PICK n, q :
              /\ n = Cardinality(Held') /\ q \in Bijection(1 .. n, Held') /\ Queues(q, n)
              /\ registered' = {c \in Held' : c < SetSize}
        BY <1>1, <3>3, <4>1 DEF AtomInv, QueueAgrees, Held
      <4>4. QueueAgrees'
        BY <3>3, <4>2, AgreesNext DEF Queues
      <4>3. open' \subseteq Descriptors /\ blocking' \subseteq open'
        BY <1>1, <3>1, <3>3 DEF AtomInv
      <4> QED
        BY <1>1, <3>3, <4>4, <4>3 DEF AtomInv
    <3> QED
      BY <3>1, <3>2, <3>3
  <2>3. CASE RecvBytes
    BY <1>1, <2>3, AtomSame DEF RecvBytes
  <2>4. CASE RecvEnd
    BY <1>1, <2>4, DeleteKeeps DEF RecvEnd
  <2> QED
    BY <1>1, <2>1, <2>2, <2>3, <2>4 DEF AtomNext
<1>2. AtomInv => QueueAgrees
  BY DEF AtomInv
<1> QED
  BY <1>1, <1>2, AtomStart, PTL DEF AtomSpec

(***************************************************************************)
(* The shared continuum                                                    *)
(***************************************************************************)
Labels == {"idle", "create", "unlock", "wait", "stat", "attach", "lock", "read", "refuse", "open",
           "stamp", "numpoints", "modtime", "array", "reattach", "release", "use", "compare",
           "ready", "smoke"}

Versions == 0 .. MaxVersion

Segments == [numpoints : Nat, modtime : Versions \cup {NoId}, array : Seq(Nat), removed : BOOLEAN]

Processes ==
  [pc : Labels, sem : BOOLEAN, time : Versions \cup {NoId}, data : Nat \cup {NoId},
   rolled : BOOLEAN, read : Versions \cup {NoId}, write : Nat \cup {NoId},
   stamp : Versions \cup {NoId}, numpoints : Nat]

(* A segment no creation in which went wrong has nothing in it, or all     *)
(* that one creation put there, or a process is midway.                    *)
SegmentOK(s) ==
  \/ s \in cut
  \/ seg[s].modtime = NoId
  \/ Whole(seg[s], seg[s].numpoints)
  \/ \E q \in Proc : Midway(q) /\ me[q].write = s

(* The labels of the loop, behind the stat of the file.                    *)
Looping == {"attach", "lock", "read", "open", "stamp", "numpoints", "modtime", "array",
            "reattach", "release", "use", "compare"}

(* What a process has of the segment it attached, and wrote so far of the  *)
(* one it fills.                                                           *)
AttachedOK(p) ==
  /\ me[p].data \in 1 .. Len(seg) \cup {NoId}
  /\ me[p].pc \in {"compare", "ready"} => me[p].data # NoId
  /\ me[p].pc \in Looping => me[p].time \in Versions

(* The copy of the number of points is still the segment's, if no creation *)
(* began since it was made.                                                *)
CountOK(p) ==
  me[p].pc = "compare" /\ p \notin crossed => me[p].numpoints = seg[me[p].data].numpoints

FillsOK(p) ==
  /\ me[p].pc \in {"open", "stamp"} \/ Filling(p) => me[p].read \in Versions
  /\ me[p].pc = "stamp" \/ Filling(p) => me[p].write \in 1 .. Len(seg)
  /\ Filling(p) => me[p].stamp \in Versions
  /\ Midway(p) /\ me[p].write \notin cut =>
       /\ me[p].stamp = me[p].read
       /\ seg[me[p].write].numpoints = Len(Points[me[p].read])
       /\ me[p].pc = "array" => seg[me[p].write].modtime = me[p].stamp

KetamaTyped ==
  /\ version \in Versions
  /\ seg \in Seq(Segments)
  /\ me \in [Proc -> Processes]

KetamaInv ==
  /\ KetamaTyped
  /\ \A p \in Proc : AttachedOK(p) /\ FillsOK(p) /\ CountOK(p)
  /\ \A s \in 1 .. Len(seg) : SegmentOK(s)

LEMMA KetamaStart == KetamaInit => KetamaInv
<1> SUFFICES ASSUME KetamaInit PROVE KetamaInv
  OBVIOUS
<1>1. seg = <<>> /\ Len(seg) = 0 /\ version = 0 /\ me = [p \in Proc |-> Fresh]
  BY DEF KetamaInit
<1>2. Fresh \in Processes /\ Fresh.pc = "idle" /\ Fresh.data = NoId
  BY DEF Fresh, Processes, Labels
<1>3. KetamaTyped
  BY <1>1, <1>2, KetamaAssumption DEF KetamaTyped, Versions
<1>4. \A p \in Proc : AttachedOK(p) /\ FillsOK(p) /\ CountOK(p)
  BY <1>1, <1>2 DEF AttachedOK, FillsOK, CountOK, Filling, Midway, Looping
<1> QED
  BY <1>1, <1>3, <1>4 DEF KetamaInv

LEMMA SegGetType ==
  ASSUME KetamaTyped
  PROVE  SegGet \in 1 .. Len(seg) \cup {NoId}
BY DEF SegGet

(* A step of p that writes to no segment and is not of one that is midway. *)
LEMMA QuietKeeps ==
  ASSUME KetamaInv, NEW p \in Proc, seg' = seg, cut' = cut, version' \in Versions,
         NEW r \in Processes, me' = [me EXCEPT ![p] = r],
         \A q \in Proc : q # p /\ q \in crossed => q \in crossed',
         ~Midway(p), ~Midway(p)', AttachedOK(p)', FillsOK(p)', CountOK(p)'
  PROVE  KetamaInv'
<1>1. KetamaTyped'
  BY DEF KetamaInv, KetamaTyped
<1>2. \A q \in Proc : q # p => me'[q] = me[q]
  BY DEF KetamaInv, KetamaTyped
<1>3. ASSUME NEW q \in Proc
      PROVE  AttachedOK(q)' /\ FillsOK(q)' /\ CountOK(q)'
  <2>1. CASE q = p
    BY <2>1
  <2>2. CASE q # p
    BY <1>2, <2>2 DEF KetamaInv, AttachedOK, FillsOK, CountOK, Filling, Midway
  <2> QED
    BY <2>1, <2>2
<1>4. ASSUME NEW s \in 1 .. Len(seg)
      PROVE  SegmentOK(s)'
  <2>1. SegmentOK(s)
    BY DEF KetamaInv
  <2>2. CASE \E q \in Proc : Midway(q) /\ me[q].write = s
    <3>1. PICK q \in Proc : Midway(q) /\ me[q].write = s
      BY <2>2
    <3>2. Midway(q)' /\ me'[q].write = s
      BY <3>1, <1>2 DEF Midway
    <3> QED
      BY <3>2 DEF SegmentOK
  <2>3. CASE ~ \E q \in Proc : Midway(q) /\ me[q].write = s
    BY <2>1, <2>3 DEF SegmentOK, Whole
  <2> QED
    BY <2>2, <2>3
<1> QED
  BY <1>1, <1>3, <1>4 DEF KetamaInv

(* ketama_roll, but for its writes to the segment.                         *)
Looks(p) ==
  \/ RollStart(p) \/ SemCreate(p) \/ SemUnlock(p) \/ Waited(p) \/ GiveUp(p) \/ Stat(p)
  \/ Attach(p) \/ Lock(p) \/ ReadServers(p) \/ Refuse(p) \/ Stamp(p)
  \/ Reattach(p) \/ Release(p) \/ Count(p) \/ Compare(p)

LEMMA LooksKeep ==
  ASSUME KetamaInv, NEW p \in Proc, Looks(p)
  PROVE  KetamaInv'
<1> DEFINE r == me'[p]
<1>1. /\ KetamaTyped /\ AttachedOK(p) /\ FillsOK(p) /\ me[p] \in Processes /\ version \in Versions
      /\ me \in [Proc -> Processes]
  BY DEF KetamaInv, KetamaTyped
<1>2. Fresh \in Processes /\ Fresh.pc = "idle" /\ Fresh.data = NoId
  BY DEF Fresh, Processes, Labels
<1>3. SegGet \in 1 .. Len(seg) \cup {NoId} /\ SegGet \in Nat \cup {NoId}
  BY <1>1, SegGetType DEF KetamaTyped
<1>4. ASSUME NEW s \in 1 .. Len(seg)
      PROVE  seg[s].numpoints \in Nat
  <2>1. seg[s] \in Segments
    BY <1>1, ElementOfSeq DEF KetamaTyped
  <2> QED
    BY <2>1 DEF Segments
<1>5. /\ seg' = seg /\ cut' = cut /\ version' = version
      /\ \A q \in Proc : q # p /\ q \in crossed => q \in crossed'
  BY DEF Looks, RollStart, SemCreate, SemUnlock, Waited, GiveUp, Stat, Attach, Lock, ReadServers,
         Refuse, Stamp, Reattach, Release, Count, Compare
<1>6. ~Midway(p)
  BY DEF Looks, RollStart, SemCreate, SemUnlock, Waited, GiveUp, Stat, Attach, Lock, ReadServers,
         Refuse, Stamp, Reattach, Release, Count, Compare, Midway
<1>7. /\ me' = [me EXCEPT ![p] = r] /\ r \in Processes
      /\ r.pc \notin {"modtime", "array"}
      /\ r.data \in 1 .. Len(seg) \cup {NoId}
      /\ r.pc \in {"compare", "ready"} => r.data # NoId
      /\ r.pc = "compare" => r.numpoints = seg[r.data].numpoints
      /\ r.pc \in Looping => r.time \in Versions
      /\ r.pc \in {"open", "stamp", "numpoints"} => r.read \in Versions
      /\ r.pc \in {"stamp", "numpoints"} => r.write \in 1 .. Len(seg)
      /\ r.pc = "numpoints" => r.stamp \in Versions
  <2>1. CASE RollStart(p)
    <3>1. /\ me' = [me EXCEPT ![p] = [Fresh EXCEPT !.sem = sem # NoId,
                                                   !.pc = IF sem = NoId THEN "create" ELSE "wait"]]
      BY <2>1 DEF RollStart
    <3>2. r = [Fresh EXCEPT !.sem = sem # NoId, !.pc = IF sem = NoId THEN "create" ELSE "wait"]
      BY <3>1, <1>1
    <3>3. /\ (sem # NoId) \in BOOLEAN
          /\ (IF sem = NoId THEN "create" ELSE "wait") \in {"create", "wait"}
      OBVIOUS
    <3>4. r \in Processes /\ r.pc \in {"create", "wait"} /\ r.data = NoId
      BY <3>2, <3>3, <1>2 DEF Processes, Labels
    <3> QED
      BY <3>1, <3>2, <3>4 DEF Looping
  <2>2. CASE SemCreate(p)
    BY <2>2, <1>1 DEF SemCreate, Processes, Labels, Looping, AttachedOK
  <2>3. CASE SemUnlock(p)
    BY <2>3, <1>1 DEF SemUnlock, Go, Processes, Labels, Looping, AttachedOK
  <2>4. CASE Waited(p) \/ GiveUp(p)
    <3>1. Go(p, "stat")
      BY <2>4 DEF Waited, GiveUp
    <3> QED
      BY <3>1, <1>1 DEF Go, Processes, Labels, Looping, AttachedOK
  <2>5. CASE Stat(p)
    BY <2>5, <1>1 DEF Stat, Processes, Labels, Looping, AttachedOK
  <2>6. CASE Attach(p)
    <3>1. PICK id \in {SegGet, NoId} :
            LET looks == id # NoId /\ ~me[p].rolled
            IN me' = [me EXCEPT ![p].data = IF looks THEN id ELSE NoId, ![p].rolled = FALSE,
                                ![p].pc = IF looks THEN "use" ELSE "lock"]
      BY <2>6 DEF Attach
    <3>2. me[p].time \in Versions
      BY <2>6, <1>1 DEF Attach, AttachedOK, Looping
    <3>3. CASE id # NoId /\ ~me[p].rolled
      BY <3>1, <3>2, <3>3, <1>1, <1>3 DEF Processes, Labels
    <3>4. CASE ~(id # NoId /\ ~me[p].rolled)
      BY <3>1, <3>2, <3>4, <1>1 DEF Processes, Labels
    <3> QED
      BY <3>3, <3>4
  <2>7. CASE Lock(p)
    BY <2>7, <1>1 DEF Lock, Go, Processes, Labels, Looping, AttachedOK
  <2>8. CASE ReadServers(p)
    BY <2>8, <1>1 DEF ReadServers, Processes, Labels, Looping, AttachedOK
  <2>9. CASE Refuse(p)
    BY <2>9, <1>1, <1>2 DEF Refuse, Processes, Labels, Looping, AttachedOK
  <2>10. CASE Stamp(p)
    BY <2>10, <1>1 DEF Stamp, Processes, Labels, Looping, AttachedOK, FillsOK
  <2>11. CASE Reattach(p)
    BY <2>11, <1>1, <1>3 DEF Reattach, Processes, Labels, Looping, AttachedOK
  <2>12. CASE Release(p)
    BY <2>12, <1>1 DEF Release, Go, Processes, Labels, Looping, AttachedOK
  <2>13. CASE Count(p)
    <3>1. CASE me[p].data = NoId
      BY <2>13, <3>1, <1>1, <1>2 DEF Count, Looping
    <3>2. CASE me[p].data # NoId
      <4>1. seg[me[p].data].numpoints \in Nat
        BY <3>2, <1>1, <1>4 DEF AttachedOK
      <4> QED
        BY <2>13, <3>2, <4>1, <1>1 DEF Count, Processes, Labels, Looping, AttachedOK
    <3> QED
      BY <3>1, <3>2
  <2>14. CASE Compare(p)
    <3>1. CASE seg[me[p].data].modtime # me[p].time
      BY <2>14, <3>1, <1>1 DEF Compare, Processes, Labels, Looping, AttachedOK
    <3>2. CASE seg[me[p].data].modtime = me[p].time
      BY <2>14, <3>2, <1>1 DEF Compare, Returned, Processes, Labels, Looping, AttachedOK
    <3> QED
      BY <3>1, <3>2
  <2> QED
    BY <2>1, <2>2, <2>3, <2>4, <2>5, <2>6, <2>7, <2>8, <2>9, <2>10, <2>11, <2>12, <2>13, <2>14 DEF Looks
<1>8. ~Midway(p)' /\ AttachedOK(p)' /\ FillsOK(p)' /\ CountOK(p)'
  BY <1>5, <1>7 DEF Midway, Filling, AttachedOK, FillsOK, CountOK
<1> QED
  BY <1>1, <1>5, <1>6, <1>7, <1>8, QuietKeeps

(* ketama_create_continuum's segment, there already or new.                *)
LEMMA OpenKeeps ==
  ASSUME KetamaInv, NEW p \in Proc, OpenSegment(p)
  PROVE  KetamaInv'
<1> DEFINE r == me'[p]
<1>1. /\ KetamaTyped /\ AttachedOK(p) /\ FillsOK(p) /\ me[p] \in Processes /\ me[p].pc = "open"
      /\ me \in [Proc -> Processes] /\ Len(seg) \in Nat /\ seg \in Seq(Segments)
      /\ cut' = cut /\ crossed' = crossed /\ version' = version /\ version \in Versions
  BY DEF KetamaInv, KetamaTyped, OpenSegment
<1>2. PICK id \in Nat : /\ id = IF SegGet = NoId THEN Len(seg) + 1 ELSE SegGet
                        /\ \/ me' = [me EXCEPT ![p].write = id, ![p].pc = "stamp"]
                           \/ me' = [me EXCEPT ![p].pc = "refuse"]
  <2>1. (IF SegGet = NoId THEN Len(seg) + 1 ELSE SegGet) \in Nat
    BY <1>1, SegGetType
  <2> QED
    BY <2>1 DEF OpenSegment, Go
<1>3. /\ me' = [me EXCEPT ![p] = r] /\ r \in Processes /\ r.pc \in {"stamp", "refuse"}
      /\ r.data = me[p].data /\ r.time = me[p].time /\ r.read = me[p].read
      /\ r.pc = "stamp" => r.write = id
      /\ \A q \in Proc : q # p => me'[q] = me[q]
  <2>1. CASE me' = [me EXCEPT ![p].write = id, ![p].pc = "stamp"]
    BY <1>1, <1>2, <2>1 DEF Processes, Labels
  <2>2. CASE me' = [me EXCEPT ![p].pc = "refuse"]
    BY <1>1, <1>2, <2>2 DEF Processes, Labels
  <2> QED
    BY <1>2, <2>1, <2>2
<1> HIDE DEF r
<1>4. me' \in [Proc -> Processes]
  BY <1>1, <1>3
<1>5. CASE SegGet # NoId
  <2>1. seg' = seg /\ id \in 1 .. Len(seg)
    BY <1>1, <1>2, <1>5, SegGetType DEF OpenSegment
  <2>2. ~Midway(p) /\ ~Midway(p)' /\ AttachedOK(p)' /\ FillsOK(p)' /\ CountOK(p)'
    BY <1>1, <1>3, <2>1 DEF Midway, Filling, AttachedOK, FillsOK, CountOK, Looping, r
  <2> QED
    BY <1>1, <1>3, <2>1, <2>2, QuietKeeps
<1>6. CASE SegGet = NoId
  <2>1. seg' = Append(seg, Blank) /\ id = Len(seg) + 1
    BY <1>2, <1>6 DEF OpenSegment
  <2>2. Blank \in Segments /\ Blank.modtime = NoId
    BY DEF Blank, Segments
  <2>3. /\ seg' \in Seq(Segments) /\ Len(seg') = Len(seg) + 1
        /\ \A s \in 1 .. Len(seg) : seg'[s] = seg[s]
        /\ seg'[Len(seg) + 1] = Blank
    BY <1>1, <2>1, <2>2, AppendProperties
  <2>4. AttachedOK(p)' /\ FillsOK(p)' /\ CountOK(p)'
    BY <1>1, <1>3, <2>1, <2>3, SMTT(30)
       DEF Midway, Filling, AttachedOK, FillsOK, CountOK, Looping, r
  <2>5. ASSUME NEW q \in Proc, q # p
        PROVE  AttachedOK(q)' /\ FillsOK(q)' /\ CountOK(q)'
    <3>1. AttachedOK(q) /\ FillsOK(q) /\ CountOK(q) /\ me'[q] = me[q]
      BY <1>3, <2>5 DEF KetamaInv
    <3>2. AttachedOK(q)' /\ FillsOK(q)'
      BY <1>1, <2>3, <3>1 DEF Midway, Filling, AttachedOK, FillsOK
    <3>3. CountOK(q)'
      BY <1>1, <2>3, <3>1 DEF AttachedOK, CountOK
    <3> QED
      BY <3>2, <3>3
  <2>6. ASSUME NEW s \in 1 .. Len(seg')
        PROVE  SegmentOK(s)'
    <3>1. CASE s = Len(seg) + 1
      BY <2>2, <2>3, <3>1 DEF SegmentOK
    <3>2. CASE s \in 1 .. Len(seg)
      <4>1. SegmentOK(s)
        BY <3>2 DEF KetamaInv
      <4>2. CASE \E q \in Proc : Midway(q) /\ me[q].write = s
        <5>1. PICK q \in Proc : Midway(q) /\ me[q].write = s
          BY <4>2
        <5>2. q # p
          BY <5>1, <1>1 DEF Midway
        <5>3. Midway(q)' /\ me'[q].write = s
          BY <5>1, <5>2, <1>3 DEF Midway
        <5> QED
          BY <5>3 DEF SegmentOK
      <4>3. CASE ~ \E q \in Proc : Midway(q) /\ me[q].write = s
        BY <4>1, <4>3, <3>2, <1>1, <2>3 DEF SegmentOK, Whole
      <4> QED
        BY <4>2, <4>3
    <3> QED
      BY <3>1, <3>2, <2>3, <1>1
  <2> QED
    BY <1>1, <1>3, <1>4, <2>3, <2>4, <2>5, <2>6 DEF KetamaInv, KetamaTyped
<1> QED
  BY <1>5, <1>6

(* The three memcpy.                                                       *)
LEMMA FillKeeps ==
  ASSUME KetamaInv, NEW p \in Proc, WriteContinuum(p)
  PROVE  KetamaInv'
<1> DEFINE w == me[p].write
           rd == me[p].read
           st == me[p].stamp
           r == me'[p]
<1>1. /\ Filling(p) /\ me[p].pc \in {"numpoints", "modtime", "array"} /\ version' = version
      /\ cut' = IF st # rd \/ \E q \in Proc \ {p} : Filling(q) THEN cut \cup {w} ELSE cut
      /\ crossed' = IF me[p].pc = "numpoints"
                    THEN crossed \cup {q \in Proc : me[q].pc = "compare" /\ me[q].data = w}
                    ELSE crossed
  BY DEF WriteContinuum, Fill, Filling
<1>2. /\ KetamaTyped /\ AttachedOK(p) /\ FillsOK(p) /\ me[p] \in Processes
      /\ me \in [Proc -> Processes] /\ Len(seg) \in Nat /\ seg \in Seq(Segments)
      /\ version \in Versions
  BY DEF KetamaInv, KetamaTyped
<1>3. w \in 1 .. Len(seg) /\ rd \in Versions /\ st \in Versions
  BY <1>1, <1>2 DEF FillsOK
<1>4. seg[w] \in Segments
  BY <1>2, <1>3, ElementOfSeq
<1>5. Points[rd] \in Seq(Nat) /\ Len(Points[rd]) \in Nat /\ NoId \notin Versions
  BY <1>3, KetamaAssumption DEF Versions
<1> DEFINE v == IF me[p].pc = "numpoints" THEN [seg[w] EXCEPT !.numpoints = Len(Points[rd])]
                ELSE IF me[p].pc = "modtime" THEN [seg[w] EXCEPT !.modtime = st]
                ELSE [seg[w] EXCEPT !.array = Points[rd]]
           nx == IF me[p].pc = "numpoints" THEN "modtime"
                 ELSE IF me[p].pc = "modtime" THEN "array" ELSE "reattach"
<1>6. seg' = [seg EXCEPT ![w] = v] /\ me' = [me EXCEPT ![p].pc = nx]
  BY DEF WriteContinuum, Fill, Go
<1>7. /\ v \in Segments
      /\ v.numpoints = IF me[p].pc = "numpoints" THEN Len(Points[rd]) ELSE seg[w].numpoints
      /\ v.modtime = IF me[p].pc = "modtime" THEN st ELSE seg[w].modtime
      /\ me[p].pc = "array" => v.array = Points[rd]
  BY <1>1, <1>3, <1>4, <1>5 DEF Segments
<1> HIDE DEF v
<1>8. /\ seg' \in Seq(Segments) /\ Len(seg') = Len(seg)
      /\ \A s \in 1 .. Len(seg) : seg'[s] = IF s = w THEN v ELSE seg[s]
  BY <1>2, <1>3, <1>6, <1>7, ExceptSeq
<1>9. /\ me' \in [Proc -> Processes] /\ r.pc = nx /\ r.data = me[p].data /\ r.time = me[p].time
      /\ r.read = rd /\ r.write = w /\ r.stamp = st
      /\ \A q \in Proc : q # p => me'[q] = me[q]
  <2>1. nx \in Labels
    BY DEF Labels
  <2> HIDE DEF nx
  <2> QED
    BY <1>2, <1>6, <2>1 DEF Processes
<1>10. cut \subseteq cut' /\ (w \notin cut' => w \notin cut /\ st = rd /\ \A q \in Proc : q # p => ~Filling(q))
  BY <1>1
<1> HIDE DEF w, rd, st, r
<1>11. AttachedOK(p)' /\ CountOK(p)'
  BY <1>1, <1>2, <1>8, <1>9 DEF AttachedOK, CountOK, Looping, r
<1>12. FillsOK(p)'
  <2>1. /\ r.pc \in {"modtime", "array", "reattach"}
        /\ r.pc = "modtime" <=> me[p].pc = "numpoints"
        /\ r.pc = "array" <=> me[p].pc = "modtime"
    BY <1>1, <1>9
  <2>2. ASSUME r.pc \in {"modtime", "array"}, w \notin cut'
        PROVE  /\ st = rd /\ seg'[w].numpoints = Len(Points[rd])
               /\ r.pc = "array" => seg'[w].modtime = st
    <3>1. seg'[w] = v
      BY <1>3, <1>8
    <3>2. me[p].pc = "modtime" => seg[w].numpoints = Len(Points[rd])
      BY <2>2, <1>2, <1>10 DEF FillsOK, Midway, w, rd
    <3> QED
      BY <2>1, <2>2, <3>1, <3>2, <1>7, <1>10
  <2> QED
    BY <2>1, <2>2, <1>3, <1>8, <1>9 DEF FillsOK, Filling, Midway, r
<1>13. ASSUME NEW q \in Proc, q # p
       PROVE  AttachedOK(q)' /\ FillsOK(q)' /\ CountOK(q)'
  <2>1. me'[q] = me[q] /\ AttachedOK(q) /\ FillsOK(q) /\ CountOK(q)
    BY <1>9, <1>13 DEF KetamaInv
  <2>2. AttachedOK(q)'
    BY <2>1, <1>8 DEF AttachedOK
  <2>3. ASSUME Midway(q), me[q].write \notin cut'
        PROVE  me[q].write \in 1 .. Len(seg) /\ me[q].write \notin cut
               /\ seg'[me[q].write] = seg[me[q].write]
    <3>1. Filling(q)
      BY <2>3 DEF Midway, Filling
    <3>2. me[q].write # w
      BY <2>3, <3>1, <1>10, <1>13
    <3> QED
      BY <2>1, <2>3, <3>1, <3>2, <1>8, <1>10 DEF FillsOK
  <2>4. FillsOK(q)'
    BY <2>1, <2>3, <1>8 DEF FillsOK, Filling, Midway
  <2>5. ASSUME me[q].pc = "compare", q \notin crossed'
        PROVE  /\ me[q].data \in 1 .. Len(seg) /\ q \notin crossed
               /\ seg'[me[q].data].numpoints = seg[me[q].data].numpoints
    <3>1. me[q].data \in 1 .. Len(seg)
      BY <2>1, <2>5 DEF AttachedOK
    <3>2. q \notin crossed /\ (me[q].data = w => me[p].pc # "numpoints")
      BY <2>5, <1>1
    <3>3. me[q].data = w => v.numpoints = seg[w].numpoints
      BY <3>2, <1>7
    <3> QED
      BY <3>1, <3>2, <3>3, <1>8
  <2>6. CountOK(q)'
    BY <2>1, <2>5 DEF CountOK
  <2> QED
    BY <2>2, <2>4, <2>6
<1>14. ASSUME NEW s \in 1 .. Len(seg)
       PROVE  SegmentOK(s)'
  <2>0. SegmentOK(s)
    BY DEF KetamaInv
  <2>1. CASE s # w
    <3>1. CASE \E q \in Proc : Midway(q) /\ me[q].write = s
      <4>1. PICK q \in Proc : Midway(q) /\ me[q].write = s
        BY <3>1
      <4>2. q # p
        BY <4>1, <2>1 DEF w
      <4>3. Midway(q)' /\ me'[q].write = s
        BY <4>1, <4>2, <1>9 DEF Midway
      <4> QED
        BY <4>3 DEF SegmentOK
    <3>2. CASE ~ \E q \in Proc : Midway(q) /\ me[q].write = s
      BY <2>0, <2>1, <3>2, <1>8, <1>10 DEF SegmentOK, Whole
    <3> QED
      BY <3>1, <3>2
  <2>2. CASE s = w
    <3>1. CASE me[p].pc \in {"numpoints", "modtime"}
      <4>1. Midway(p)' /\ me'[p].write = s
        BY <2>2, <3>1, <1>9 DEF Midway, r
      <4> QED
        BY <4>1 DEF SegmentOK
    <3>2. CASE me[p].pc = "array" /\ w \notin cut'
      <4>1. w \notin cut /\ st = rd
        BY <3>2, <1>10
      <4>2. seg[w].numpoints = Len(Points[rd]) /\ seg[w].modtime = st
        BY <3>2, <4>1, <1>2 DEF FillsOK, Midway, w, rd, st
      <4>3. seg'[s] = v
        BY <2>2, <1>8
      <4>4. seg'[s].numpoints = Len(Points[rd]) /\ seg'[s].modtime = rd /\ seg'[s].array = Points[rd]
        BY <3>2, <4>1, <4>2, <4>3, <1>7
      <4>5. rd # NoId
        BY <1>3, <1>5
      <4> QED
        BY <4>4, <4>5 DEF SegmentOK, Whole
    <3>3. CASE w \in cut'
      BY <2>2, <3>3 DEF SegmentOK
    <3> QED
      BY <3>1, <3>2, <3>3, <1>1
  <2> QED
    BY <2>1, <2>2
<1> QED
  BY <1>1, <1>2, <1>8, <1>9, <1>11, <1>12, <1>13, <1>14 DEF KetamaInv, KetamaTyped

(* ketama_smoke: the segment's words stay for those attached to it.        *)
LEMMA SmokeKeeps ==
  ASSUME KetamaInv, NEW p \in Proc, Smoke(p)
  PROVE  KetamaInv'
<1>1. /\ KetamaTyped /\ me \in [Proc -> Processes] /\ Len(seg) \in Nat /\ seg \in Seq(Segments)
      /\ version \in Versions /\ version' = version /\ cut' = cut /\ crossed' = crossed
      /\ me[p] \in Processes /\ me[p].pc \in {"ready", "smoke"} /\ AttachedOK(p)
  BY DEF KetamaInv, KetamaTyped, Smoke, SmokeSem, SmokeSegment
<1>2. Fresh \in Processes /\ Fresh.pc = "idle" /\ Fresh.data = NoId
  BY DEF Fresh, Processes, Labels
<1>3. /\ seg' \in Seq(Segments) /\ Len(seg') = Len(seg)
      /\ \A s \in 1 .. Len(seg) : /\ seg'[s].numpoints = seg[s].numpoints
                                  /\ seg'[s].modtime = seg[s].modtime
                                  /\ seg'[s].array = seg[s].array
  <2>1. CASE SmokeSem(p)
    BY <1>1, <2>1 DEF SmokeSem
  <2>2. CASE SmokeSegment(p)
    <3>1. seg' = [i \in 1 .. Len(seg) |-> IF i = me[p].data THEN [seg[i] EXCEPT !.removed = TRUE]
                                                             ELSE seg[i]]
      BY <2>2 DEF SmokeSegment
    <3>2. ASSUME NEW i \in 1 .. Len(seg)
          PROVE  /\ seg[i] \in Segments /\ [seg[i] EXCEPT !.removed = TRUE] \in Segments
                 /\ [seg[i] EXCEPT !.removed = TRUE].numpoints = seg[i].numpoints
                 /\ [seg[i] EXCEPT !.removed = TRUE].modtime = seg[i].modtime
                 /\ [seg[i] EXCEPT !.removed = TRUE].array = seg[i].array
      <4>1. seg[i] \in Segments
        BY <1>1, ElementOfSeq
      <4> QED
        BY <4>1 DEF Segments
    <3>3. seg' \in [1 .. Len(seg) -> Segments]
      BY <3>1, <3>2
    <3>4. seg' \in Seq(Segments) /\ Len(seg') = Len(seg)
      BY <1>1, <3>3
    <3> QED
      BY <3>1, <3>2, <3>4
  <2> QED
    BY <2>1, <2>2 DEF Smoke
<1>4. /\ me' = [q \in Proc |-> me'[q]]
      /\ me'[p] \in Processes /\ me'[p].pc \in {"smoke", "idle"}
      /\ me'[p].data \in {me[p].data, NoId}
  <2>1. CASE SmokeSem(p)
    <3>1. /\ me' = [q \in Proc |-> me'[q]]
          /\ me'[p] = [me[p] EXCEPT !.sem = FALSE, !.pc = "smoke"]
      BY <2>1 DEF SmokeSem
    <3> QED
      BY <3>1, <1>1 DEF Processes, Labels
  <2>2. CASE SmokeSegment(p)
    BY <1>1, <1>2, <2>2 DEF SmokeSegment
  <2> QED
    BY <2>1, <2>2 DEF Smoke
<1>5. ASSUME NEW q \in Proc, q # p
      PROVE  /\ me'[q] \in Processes /\ me'[q].pc = me[q].pc /\ me'[q].data = me[q].data
             /\ me'[q].time = me[q].time /\ me'[q].read = me[q].read
             /\ me'[q].write = me[q].write /\ me'[q].stamp = me[q].stamp
             /\ me'[q].numpoints = me[q].numpoints
  <2>1. me[q] \in Processes /\ (me[q].sem /\ ~me[p].sem) \in BOOLEAN
    BY <1>1
  <2>2. me'[q] = me[q] \/ me'[q] = [me[q] EXCEPT !.sem = me[q].sem /\ ~me[p].sem]
    BY <1>1, <1>5 DEF Smoke, SmokeSem, SmokeSegment
  <2> QED
    BY <2>1, <2>2 DEF Processes
<1>6. me' \in [Proc -> Processes]
  <2>1. \A q \in Proc : me'[q] \in Processes
    BY <1>4, <1>5
  <2> QED
    BY <1>4, <2>1
<1>7. ASSUME NEW q \in Proc
      PROVE  AttachedOK(q)' /\ FillsOK(q)' /\ CountOK(q)'
  <2>1. CASE q = p
    BY <2>1, <1>1, <1>3, <1>4 DEF AttachedOK, FillsOK, CountOK, Filling, Midway, Looping
  <2>2. CASE q # p
    <3>1. AttachedOK(q) /\ FillsOK(q) /\ CountOK(q)
      BY DEF KetamaInv
    <3>2. AttachedOK(q)'
      BY <3>1, <2>2, <1>3, <1>5 DEF AttachedOK
    <3>3. FillsOK(q)'
      BY <3>1, <2>2, <1>1, <1>3, <1>5 DEF FillsOK, Filling, Midway
    <3>4. CountOK(q)'
      BY <3>1, <2>2, <1>1, <1>3, <1>5 DEF AttachedOK, CountOK
    <3> QED
      BY <3>2, <3>3, <3>4
  <2> QED
    BY <2>1, <2>2
<1>8. ASSUME NEW s \in 1 .. Len(seg)
      PROVE  SegmentOK(s)'
  <2>1. SegmentOK(s)
    BY DEF KetamaInv
  <2>2. CASE \E q \in Proc : Midway(q) /\ me[q].write = s
    <3>1. PICK q \in Proc : Midway(q) /\ me[q].write = s
      BY <2>2
    <3>2. q # p
      BY <3>1, <1>1 DEF Midway
    <3>3. Midway(q)' /\ me'[q].write = s
      BY <3>1, <3>2, <1>5 DEF Midway
    <3> QED
      BY <3>3 DEF SegmentOK
  <2>3. CASE ~ \E q \in Proc : Midway(q) /\ me[q].write = s
    BY <2>1, <2>3, <1>1, <1>3 DEF SegmentOK, Whole
  <2> QED
    BY <2>2, <2>3
<1> QED
  BY <1>1, <1>3, <1>6, <1>7, <1>8 DEF KetamaInv, KetamaTyped

LEMMA DieKeeps ==
  ASSUME KetamaInv, NEW p \in Proc, Die(p)
  PROVE  KetamaInv'
<1>1. /\ KetamaTyped /\ me \in [Proc -> Processes] /\ Len(seg) \in Nat
      /\ version \in Versions /\ version' = version /\ seg' = seg
      /\ cut' = IF Midway(p) THEN cut \cup {me[p].write} ELSE cut
      /\ crossed' = crossed \ {p} /\ me' = [me EXCEPT ![p] = Fresh]
  BY DEF KetamaInv, KetamaTyped, Die, Midway
<1>2. Fresh \in Processes /\ Fresh.pc = "idle" /\ Fresh.data = NoId
  BY DEF Fresh, Processes, Labels
<1>3. me' \in [Proc -> Processes] /\ me'[p] = Fresh /\ \A q \in Proc : q # p => me'[q] = me[q]
  BY <1>1, <1>2
<1>4. ASSUME NEW q \in Proc
      PROVE  AttachedOK(q)' /\ FillsOK(q)' /\ CountOK(q)'
  <2>1. CASE q = p
    BY <2>1, <1>2, <1>3 DEF AttachedOK, FillsOK, CountOK, Filling, Midway, Looping
  <2>2. CASE q # p
    <3>1. AttachedOK(q) /\ FillsOK(q) /\ CountOK(q) /\ me'[q] = me[q] /\ cut \subseteq cut'
      BY <2>2, <1>1, <1>3 DEF KetamaInv
    <3>2. AttachedOK(q)'
      BY <3>1, <1>1 DEF AttachedOK
    <3>3. FillsOK(q)'
      BY <3>1, <1>1 DEF FillsOK, Filling, Midway
    <3>4. CountOK(q)'
      BY <3>1, <2>2, <1>1 DEF CountOK
    <3> QED
      BY <3>2, <3>3, <3>4
  <2> QED
    BY <2>1, <2>2
<1>5. ASSUME NEW s \in 1 .. Len(seg)
      PROVE  SegmentOK(s)'
  <2>1. SegmentOK(s)
    BY DEF KetamaInv
  <2>2. CASE \E q \in Proc : Midway(q) /\ me[q].write = s
    <3>1. PICK q \in Proc : Midway(q) /\ me[q].write = s
      BY <2>2
    <3>2. CASE q = p
      BY <3>1, <3>2, <1>1 DEF SegmentOK
    <3>3. CASE q # p
      <4>1. Midway(q)' /\ me'[q].write = s
        BY <3>1, <3>3, <1>3 DEF Midway
      <4> QED
        BY <4>1 DEF SegmentOK
    <3> QED
      BY <3>2, <3>3
  <2>3. CASE ~ \E q \in Proc : Midway(q) /\ me[q].write = s
    BY <2>1, <2>3, <1>1 DEF SegmentOK, Whole
  <2> QED
    BY <2>2, <2>3
<1> QED
  BY <1>1, <1>3, <1>4, <1>5 DEF KetamaInv, KetamaTyped

LEMMA EditKeeps ==
  ASSUME KetamaInv, Edit \/ UNCHANGED ketamaVars
  PROVE  KetamaInv'
<1>1. version' \in Versions /\ seg' = seg /\ me' = me /\ cut' = cut /\ crossed' = crossed
  BY KetamaAssumption DEF KetamaInv, KetamaTyped, Edit, ketamaVars, Versions
<1>2. KetamaTyped'
  BY <1>1 DEF KetamaInv, KetamaTyped
<1>3. \A p \in Proc : AttachedOK(p)' /\ FillsOK(p)' /\ CountOK(p)'
  BY <1>1 DEF KetamaInv, AttachedOK, FillsOK, CountOK, Filling, Midway
<1>4. \A s \in 1 .. Len(seg') : SegmentOK(s)'
  BY <1>1 DEF KetamaInv, SegmentOK, Midway, Whole
<1> QED
  BY <1>2, <1>3, <1>4 DEF KetamaInv

LEMMA KetamaKept ==
  ASSUME KetamaInv, [KetamaNext]_ketamaVars
  PROVE  KetamaInv'
<1>1. ASSUME NEW p \in Proc, Roll(p)
      PROVE  KetamaInv'
  <2>1. Looks(p) \/ OpenSegment(p) \/ WriteContinuum(p)
    BY <1>1 DEF Roll, Looks
  <2> QED
    BY <2>1, LooksKeep, OpenKeeps, FillKeeps
<1> QED
  BY <1>1, SmokeKeeps, DieKeeps, EditKeeps DEF KetamaNext

(* A roll that returns 1 leaves the process with the time it asked for,    *)
(* the points of that version and their number, unless another process is  *)
(* midway in that segment, or a creation in it was cut short, ran beside   *)
(* another or met an edit of the file; the number alone may be an older    *)
(* one, when a creation began after it was copied.                         *)
THEOREM RollsWhole == KetamaSpec => RollWhole
<1> DEFINE Outcome(p) ==
             \/ LET s == seg[me[p].data]
                IN /\ s.modtime = me[p].time
                   /\ s.array = Points[s.modtime]
                   /\ p \in crossed \/ me'[p].numpoints = Len(s.array)
             \/ \E q \in Proc \ {p} : Midway(q) /\ me[q].write = me[p].data
             \/ me[p].data \in cut
           A == \A p \in Proc : me[p].pc = "compare" /\ me'[p].pc = "ready" => Outcome(p)
<1>1. ASSUME KetamaInv, [KetamaNext]_ketamaVars
      PROVE  [A]_ketamaVars
  <2>1. SUFFICES ASSUME NEW p \in Proc, me[p].pc = "compare", me'[p].pc = "ready"
                 PROVE  Outcome(p)
    OBVIOUS
  <2>2. AttachedOK(p) /\ CountOK(p) /\ me \in [Proc -> Processes] /\ me[p] \in Processes
    BY <1>1 DEF KetamaInv, KetamaTyped
  <2>3. Compare(p)
    <3>1. me' # me
      BY <2>1
    <3>2. PICK q \in Proc : Roll(q) \/ Smoke(q) \/ Die(q)
      BY <3>1, <1>1 DEF KetamaNext, Edit, ketamaVars
    <3>3. CASE q # p
      <4>1. CASE SmokeSem(q)
        <5>1. me'[p] = [me[p] EXCEPT !.sem = me[p].sem /\ ~me[q].sem]
          BY <3>3, <4>1 DEF SmokeSem
        <5>2. me'[p].pc = me[p].pc
          BY <5>1, <2>2 DEF Processes
        <5> QED
          BY <5>2, <2>1
      <4>2. CASE ~SmokeSem(q)
        <5>1. me'[p] = me[p]
          BY <3>2, <3>3, <4>2, <2>2
             DEF Roll, RollStart, SemCreate, SemUnlock, Waited, GiveUp, Stat, Attach, Lock,
                 ReadServers, Refuse, OpenSegment, Stamp, WriteContinuum, Fill, Go, Reattach,
                 Release, Count, Compare, Smoke, SmokeSegment, Die
        <5> QED
          BY <5>1, <2>1
      <4> QED
        BY <4>1, <4>2
    <3>4. CASE q = p
      <4>1. ~Smoke(p)
        BY <2>1 DEF Smoke, SmokeSem, SmokeSegment
      <4>2. ~Die(p)
        BY <2>1, <2>2 DEF Die, Fresh
      <4>3. Roll(p)
        BY <3>2, <3>4, <4>1, <4>2
      <4> QED
        BY <4>3, <2>1
           DEF Roll, RollStart, SemCreate, SemUnlock, Waited, GiveUp, Stat, Attach, Lock,
               ReadServers, Refuse, OpenSegment, Stamp, WriteContinuum, Fill, Reattach, Release,
               Count
    <3> QED
      BY <3>3, <3>4
  <2>4. seg[me[p].data].modtime = me[p].time /\ me'[p].numpoints = me[p].numpoints
    <3>1. me'[p] = IF seg[me[p].data].modtime # me[p].time
                   THEN [me[p] EXCEPT !.numpoints = 0, !.pc = "attach"] ELSE Returned(p)
      BY <2>2, <2>3 DEF Compare
    <3>2. seg[me[p].data].modtime = me[p].time
      BY <3>1, <2>1, <2>2 DEF Processes
    <3> QED
      BY <3>1, <3>2, <2>2 DEF Returned, Processes
  <2>5. me[p].data \in 1 .. Len(seg) /\ me[p].time \in Versions /\ NoId \notin Versions
    BY <2>1, <2>2, KetamaAssumption DEF AttachedOK, Looping, Versions
  <2>6. SegmentOK(me[p].data)
    BY <2>5, <1>1 DEF KetamaInv
  <2>7. p \in crossed \/ me'[p].numpoints = seg[me[p].data].numpoints
    BY <2>1, <2>2, <2>4 DEF CountOK
  <2>8. \A q \in Proc : Midway(q) => q # p
    BY <2>1 DEF Midway
  <2> QED
    BY <2>4, <2>5, <2>6, <2>7, <2>8 DEF SegmentOK, Whole
<1> QED
  BY <1>1, KetamaStart, KetamaKept, PTL DEF KetamaSpec, RollWhole

(***************************************************************************)
(* The search in the continuum                                             *)
(***************************************************************************)
LEMMA LeastOf ==
  ASSUME NEW T, T \subseteq Nat, T # {}
  PROVE  \E x \in T : \A y \in T : x <= y
<1> DEFINE Upto == {0 .. n : n \in T}
           R == StrictSubsetOrdering(Nat)
           F == FiniteSubsetsOf(Nat)
<1>1. Upto \subseteq F /\ Upto # {}
  <2>1. ASSUME NEW n \in T
        PROVE  0 .. n \in F
    <3>1. n \in Nat /\ 0 .. n \subseteq Nat
      OBVIOUS
    <3>2. IsFiniteSet(0 .. n)
      BY <3>1, FS_Interval
    <3> QED
      BY <3>1, <3>2 DEF FiniteSubsetsOf
  <2> HIDE DEF F
  <2> QED
    BY <2>1
<1>2. \E b \in Upto : \A c \in Upto : ~(<<c, b>> \in R)
  <2>1. IsWellFoundedOn(R, F)
    BY FS_StrictSubsetOrderingWellFounded
  <2> HIDE DEF Upto, R, F
  <2> QED
    BY <1>1, <2>1, WFMin
<1>3. PICK x \in T : \A y \in T : ~(<<0 .. y, 0 .. x>> \in R)
  BY <1>2
<1>4. ASSUME NEW y \in T, y < x
      PROVE  <<0 .. y, 0 .. x>> \in R
  <2>1. 0 .. y \subseteq 0 .. x /\ x \notin 0 .. y /\ x \in 0 .. x
    BY <1>4
  <2> QED
    BY <2>1 DEF StrictSubsetOrdering
<1> HIDE DEF Upto, R, F
<1>5. ASSUME NEW y \in T
      PROVE  x <= y
  <2>1. x \in Nat /\ y \in Nat
    OBVIOUS
  <2>2. ~(y < x)
    BY <1>3, <1>4
  <2> QED
    BY <2>1, <2>2
<1> QED
  BY <1>5

(* What ketama_get_server looks for: the first of the n points that is not *)
(* below the hash, counted from 0, or n.                                   *)
Sorted(points) == \A i, j \in 1 .. Len(points) : i <= j => points[i] <= points[j]

FirstPoint(f, h, points) ==
  /\ f \in 0 .. Len(points)
  /\ \A i \in 0 .. Len(points) - 1 : points[i + 1] < h <=> i < f

Answer(f, points) == IF f = Len(points) THEN 0 ELSE f

(* A turn of its loop, the further turns being those of S.                 *)
Ranges(n) == (0 .. n + 1) \X (-1 .. n)

Turn(S, range, h, n, points) ==
  LET Point(i) == points[i + 1]
      lowp == range[1]
      highp == range[2]
      midp == (lowp + highp) \div 2
      before == IF midp = 0 THEN 0 ELSE Point(midp - 1)
  IN IF midp = n THEN 0
     ELSE IF h <= Point(midp) /\ h > before THEN midp
     ELSE LET low == IF Point(midp) < h THEN midp + 1 ELSE lowp
              high == IF Point(midp) < h THEN highp ELSE midp - 1
          IN IF low > high THEN 0 ELSE S[<<low, high>>]

Around(f, range) == range[1] <= f /\ f <= range[2]

(* What it answers, the points at midp and before it given.                *)
TurnAnswers(answer, S, low, high, h, mid, at, before) ==
  /\ at < h => answer = IF mid + 1 > high THEN 0 ELSE S[<<mid + 1, high>>]
  /\ before < h /\ h <= at => answer = mid
  /\ h <= before /\ h <= at => answer = IF low > mid - 1 THEN 0 ELSE S[<<low, mid - 1>>]

LEMMA TurnCases ==
  ASSUME NEW S, NEW low \in Int, NEW high \in Int, NEW h \in Nat, NEW n \in Nat, NEW points, NEW mid,
         mid = (low + high) \div 2, mid # n, NEW at \in Nat, at = points[mid + 1],
         NEW before \in Nat, before = IF mid = 0 THEN 0 ELSE points[mid]
  PROVE  TurnAnswers(Turn(S, <<low, high>>, h, n, points), S, low, high, h, mid, at, before)
<1>1. Turn(S, <<low, high>>, h, n, points)
        = IF h <= at /\ h > before THEN mid
          ELSE IF (IF at < h THEN mid + 1 ELSE low) > (IF at < h THEN high ELSE mid - 1) THEN 0
               ELSE S[<<IF at < h THEN mid + 1 ELSE low, IF at < h THEN high ELSE mid - 1>>]
  <2>1. mid \in Int /\ mid - 1 + 1 = mid
    OBVIOUS
  <2> QED
    BY <2>1 DEF Turn
<1>2. CASE at < h
  <2>1. ~(h <= at /\ h > before)
    BY <1>2
  <2> QED
    BY <1>1, <1>2, <2>1 DEF TurnAnswers
<1>3. CASE h <= at
  <2>1. ~(at < h)
    BY <1>3
  <2>2. h > before <=> ~(h <= before)
    OBVIOUS
  <2> QED
    BY <1>1, <1>3, <2>1, <2>2 DEF TurnAnswers
<1> QED
  BY <1>2, <1>3

(* An empty range is not searched further.                                 *)
LEMMA TurnOver ==
  ASSUME NEW S, NEW R, NEW low \in Int, NEW high \in Int, low > high, NEW h, NEW n, NEW points
  PROVE  Turn(S, <<low, high>>, h, n, points) = Turn(R, <<low, high>>, h, n, points)
<1> DEFINE mid == (low + high) \div 2
           before == IF mid = 0 THEN 0 ELSE points[mid - 1 + 1]
           next == IF points[mid + 1] < h THEN mid + 1 ELSE low
           last == IF points[mid + 1] < h THEN high ELSE mid - 1
<1>1. mid \in Int /\ high <= mid /\ mid < low
  OBVIOUS
<1>2. next > last
  <2> HIDE DEF mid
  <2> QED
    BY <1>1
<1>3. ASSUME NEW Q
      PROVE  Turn(Q, <<low, high>>, h, n, points)
               = IF mid = n THEN 0
                 ELSE IF h <= points[mid + 1] /\ h > before THEN mid
                 ELSE IF next > last THEN 0 ELSE Q[<<next, last>>]
  BY DEF Turn
<1> HIDE DEF mid, before, next, last
<1> QED
  BY <1>2, <1>3

LEMMA FirstPointThere ==
  ASSUME NEW points \in Seq(Nat), NEW h \in Nat, Sorted(points)
  PROVE  \E f : FirstPoint(f, h, points)
<1> DEFINE n == Len(points)
           T == {i \in 0 .. n : i = n \/ points[i + 1] >= h}
<1>1. n \in Nat /\ \A i \in 0 .. n - 1 : i + 1 \in 1 .. n /\ points[i + 1] \in Nat
  OBVIOUS
<1>2. T \subseteq Nat /\ n \in T
  BY <1>1
<1>3. PICK f \in T : \A i \in T : f <= i
  <2> HIDE DEF T
  <2> QED
    BY <1>2, LeastOf
<1>4. ASSUME NEW i \in 0 .. n - 1
      PROVE  points[i + 1] < h <=> i < f
  <2>0. f \in Nat /\ i \in Nat /\ n \in Nat /\ i \in 0 .. n /\ points[i + 1] \in Nat
    BY <1>1, <1>2
  <2>1. CASE i < f
    <3>1. i \notin T
      <4>1. ~(f <= i)
        BY <2>0, <2>1
      <4> HIDE DEF T
      <4> QED
        BY <4>1, <1>3
    <3>2. i = n \/ points[i + 1] >= h => FALSE
      BY <2>0, <3>1
    <3> QED
      BY <2>0, <2>1, <3>2
  <2>2. CASE f <= i
    <3>0. f \in Nat
      BY <1>2
    <3>1. f + 1 \in 1 .. n /\ i + 1 \in 1 .. n /\ f + 1 <= i + 1 /\ points[f + 1] >= h
      BY <1>1, <2>2, <3>0
    <3>2. points[f + 1] <= points[i + 1]
      BY <3>1 DEF Sorted
    <3>3. points[f + 1] \in Nat /\ points[i + 1] \in Nat
      BY <3>1
    <3> QED
      BY <3>1, <3>2, <3>3, <2>2
  <2>3. f \in Nat /\ i \in Nat
    BY <1>1, <1>2
  <2> QED
    BY <2>1, <2>2, <2>3
<1> QED
  BY <1>1, <1>3, <1>4 DEF FirstPoint

(* A turn with the point in its range finds it, or goes on with a smaller  *)
(* range that has it.                                                      *)
LEMMA TurnFinds ==
  ASSUME NEW points \in Seq(Nat), NEW h \in Nat, NEW f, FirstPoint(f, h, points), NEW S,
         NEW low \in 0 .. Len(points) + 1, NEW high \in -1 .. Len(points), low <= f, f <= high
  PROVE  LET answer == Turn(S, <<low, high>>, h, Len(points), points)
         IN \/ answer = Answer(f, points)
            \/ \E r \in Ranges(Len(points)) :
                 answer = S[r] /\ Around(f, r) /\ r[2] - r[1] < high - low
<1> DEFINE n == Len(points)
           mid == (low + high) \div 2
<1>1. /\ n \in Nat /\ f \in 0 .. n /\ low \in Nat /\ high \in Nat /\ mid \in Nat
      /\ low <= mid /\ mid <= high /\ mid <= n
      /\ \A i \in 0 .. n - 1 : points[i + 1] \in Nat /\ (points[i + 1] < h <=> i < f)
  BY DEF FirstPoint
<1> HIDE DEF n, mid
<1>2. CASE mid = n
  <2>1. Turn(S, <<low, high>>, h, n, points) = 0
    BY <1>2 DEF Turn, mid
  <2>2. f = n
    BY <1>1, <1>2 DEF n, mid
  <2> QED
    BY <2>1, <2>2 DEF Answer, n
<1>3. CASE mid # n
  <2>1. mid \in 0 .. n - 1 /\ points[mid + 1] \in Nat /\ (points[mid + 1] < h <=> mid < f)
    BY <1>1, <1>3
  <2> DEFINE before == IF mid = 0 THEN 0 ELSE points[mid]
             answer == Turn(S, <<low, high>>, h, n, points)
  <2>5. ASSUME mid # 0
        PROVE  /\ mid - 1 \in 0 .. n - 1 /\ points[mid] \in Nat
               /\ points[mid] < h <=> mid - 1 < f
    <3>1. mid - 1 \in 0 .. n - 1 /\ mid - 1 + 1 = mid
      BY <1>1, <2>1, <2>5
    <3> QED
      BY <1>1, <3>1
  <2>6. before \in Nat
    BY <2>5
  <2>8. PICK at \in Nat : at = points[mid + 1]
    BY <2>1
  <2>9. PICK under \in Nat : under = before
    BY <2>6
  <2>10. mid = (low + high) \div 2 /\ under = IF mid = 0 THEN 0 ELSE points[mid]
    BY <2>9 DEF mid
  <2>11. low \in Int /\ high \in Int /\ n \in Nat /\ mid # n
    BY <1>1, <1>3
  <2> HIDE DEF before
  <2>7. /\ points[mid + 1] < h => answer = IF mid + 1 > high THEN 0 ELSE S[<<mid + 1, high>>]
        /\ before < h /\ h <= points[mid + 1] => answer = mid
        /\ h <= before /\ h <= points[mid + 1]
             => answer = IF low > mid - 1 THEN 0 ELSE S[<<low, mid - 1>>]
    <3>1. TurnAnswers(answer, S, low, high, h, mid, at, under)
      BY <2>8, <2>10, <2>11, TurnCases
    <3> HIDE DEF answer
    <3> QED
      BY <3>1, <2>8, <2>9 DEF TurnAnswers
  <2> HIDE DEF answer
  <2> USE DEF before
  <2>2. CASE points[mid + 1] < h
    <3>1. Turn(S, <<low, high>>, h, n, points)
            = IF mid + 1 > high THEN 0 ELSE S[<<mid + 1, high>>]
      BY <2>2, <2>7 DEF answer
    <3>2. mid + 1 <= f /\ ~(mid + 1 > high) /\ high - (mid + 1) < high - low /\ mid + 1 \in 0 .. n + 1
      BY <1>1, <2>1, <2>2
    <3>3. <<mid + 1, high>> \in Ranges(n) /\ Around(f, <<mid + 1, high>>)
      BY <3>2 DEF Ranges, Around, n
    <3> QED
      BY <3>1, <3>2, <3>3 DEF n
  <2>3. CASE ~(points[mid + 1] < h) /\ mid = 0
    <3>1. f = 0 /\ f # n
      BY <1>1, <1>3, <2>1, <2>3
    <3>2. CASE h > 0
      <4>1. Turn(S, <<low, high>>, h, n, points) = mid
        BY <2>1, <2>3, <2>7, <3>2 DEF answer
      <4> QED
        BY <4>1, <3>1, <2>3 DEF Answer, n
    <3>3. CASE ~(h > 0)
      <4>1. low > mid - 1
        BY <1>1, <2>3
      <4>2. Turn(S, <<low, high>>, h, n, points) = 0
        BY <2>1, <2>3, <2>7, <3>3, <4>1 DEF answer
      <4> QED
        BY <4>2, <3>1 DEF Answer, n
    <3> QED
      BY <3>2, <3>3
  <2>4. CASE ~(points[mid + 1] < h) /\ mid # 0
    <3>1. /\ mid - 1 \in 0 .. n - 1 /\ points[mid] \in Nat
          /\ points[mid] < h <=> mid - 1 < f
      BY <2>4, <2>5
    <3>2. f <= mid /\ h <= points[mid + 1]
      BY <1>1, <2>1, <2>4
    <3>3. CASE h > points[mid]
      <4>1. Turn(S, <<low, high>>, h, n, points) = mid
        BY <2>4, <2>7, <3>1, <3>2, <3>3 DEF answer
      <4>2. f = mid
        BY <1>1, <3>1, <3>2, <3>3
      <4> QED
        BY <4>1, <4>2, <1>3 DEF Answer, n
    <3>4. CASE ~(h > points[mid])
      <4>1. Turn(S, <<low, high>>, h, n, points)
              = IF low > mid - 1 THEN 0 ELSE S[<<low, mid - 1>>]
        BY <2>4, <2>7, <3>1, <3>2, <3>4 DEF answer
      <4>2. f <= mid - 1 /\ ~(low > mid - 1) /\ (mid - 1) - low < high - low /\ mid - 1 \in -1 .. n
        BY <1>1, <3>1, <3>2, <3>4
      <4>3. <<low, mid - 1>> \in Ranges(n) /\ Around(f, <<low, mid - 1>>)
        BY <4>2 DEF Ranges, Around, n
      <4> QED
        BY <4>1, <4>2, <4>3 DEF n
    <3> QED
      BY <3>3, <3>4
  <2> QED
    BY <2>2, <2>3, <2>4
<1> QED
  BY <1>2, <1>3

(* One without it answers 0, at once or after further turns.               *)
LEMMA TurnMisses ==
  ASSUME NEW points \in Seq(Nat), NEW h \in Nat, NEW f, FirstPoint(f, h, points), NEW S,
         NEW low \in 0 .. Len(points) + 1, NEW high \in -1 .. Len(points), low <= high,
         f < low \/ high < f
  PROVE  LET answer == Turn(S, <<low, high>>, h, Len(points), points)
         IN \/ answer = 0
            \/ \E r \in Ranges(Len(points)) : answer = S[r] /\ r[1] <= r[2] /\ ~Around(f, r)
<1> DEFINE n == Len(points)
           mid == (low + high) \div 2
<1>1. /\ n \in Nat /\ f \in 0 .. n /\ low \in Nat /\ high \in Nat /\ mid \in Nat
      /\ low <= mid /\ mid <= high /\ mid <= n
      /\ \A i \in 0 .. n - 1 : points[i + 1] \in Nat /\ (points[i + 1] < h <=> i < f)
  BY DEF FirstPoint
<1> HIDE DEF n, mid
<1>2. CASE mid = n
  BY <1>2 DEF Turn, mid, n
<1>3. CASE mid # n
  <2>1. mid \in 0 .. n - 1 /\ points[mid + 1] \in Nat /\ (points[mid + 1] < h <=> mid < f)
    BY <1>1, <1>3
  <2> DEFINE before == IF mid = 0 THEN 0 ELSE points[mid]
             answer == Turn(S, <<low, high>>, h, n, points)
  <2>5. ASSUME mid # 0
        PROVE  /\ mid - 1 \in 0 .. n - 1 /\ points[mid] \in Nat
               /\ points[mid] < h <=> mid - 1 < f
    <3>1. mid - 1 \in 0 .. n - 1 /\ mid - 1 + 1 = mid
      BY <1>1, <2>1, <2>5
    <3> QED
      BY <1>1, <3>1
  <2>6. before \in Nat
    BY <2>5
  <2>8. PICK at \in Nat : at = points[mid + 1]
    BY <2>1
  <2>9. PICK under \in Nat : under = before
    BY <2>6
  <2>10. mid = (low + high) \div 2 /\ under = IF mid = 0 THEN 0 ELSE points[mid]
    BY <2>9 DEF mid
  <2>11. low \in Int /\ high \in Int /\ n \in Nat /\ mid # n
    BY <1>1, <1>3
  <2> HIDE DEF before
  <2>7. /\ points[mid + 1] < h => answer = IF mid + 1 > high THEN 0 ELSE S[<<mid + 1, high>>]
        /\ before < h /\ h <= points[mid + 1] => answer = mid
        /\ h <= before /\ h <= points[mid + 1]
             => answer = IF low > mid - 1 THEN 0 ELSE S[<<low, mid - 1>>]
    <3>1. TurnAnswers(answer, S, low, high, h, mid, at, under)
      BY <2>8, <2>10, <2>11, TurnCases
    <3> HIDE DEF answer
    <3> QED
      BY <3>1, <2>8, <2>9 DEF TurnAnswers
  <2> HIDE DEF answer
  <2> USE DEF before
  <2>2. CASE high < f
    <3>1. points[mid + 1] < h
      BY <1>1, <2>1, <2>2
    <3>2. Turn(S, <<low, high>>, h, n, points)
            = IF mid + 1 > high THEN 0 ELSE S[<<mid + 1, high>>]
      BY <2>7, <3>1 DEF answer
    <3>3. <<mid + 1, high>> \in Ranges(n) /\ ~Around(f, <<mid + 1, high>>)
      BY <1>1, <2>1, <2>2 DEF Ranges, Around, n
    <3>4. CASE mid + 1 > high
      BY <3>2, <3>4 DEF n
    <3>5. CASE ~(mid + 1 > high)
      <4>1. PICK r \in Ranges(n) : r = <<mid + 1, high>>
        BY <3>3
      <4>2. r[1] <= r[2] /\ ~Around(f, r)
        BY <1>1, <3>3, <3>5, <4>1
      <4>3. answer = S[r]
        BY <3>2, <3>5, <4>1 DEF answer
      <4> QED
        BY <4>2, <4>3 DEF answer, n
    <3> QED
      BY <3>4, <3>5
  <2>3. CASE f < low
    <3>1. mid # 0 /\ mid - 1 \in 0 .. n - 1 /\ ~(mid - 1 < f) /\ ~(mid < f)
      BY <1>1, <2>1, <2>3
    <3>2. /\ ~(points[mid + 1] < h) /\ ~(h > points[mid])
      BY <2>1, <2>5, <3>1
    <3>3. Turn(S, <<low, high>>, h, n, points)
            = IF low > mid - 1 THEN 0 ELSE S[<<low, mid - 1>>]
      BY <2>1, <2>5, <2>7, <3>1, <3>2 DEF answer
    <3>4. <<low, mid - 1>> \in Ranges(n) /\ ~Around(f, <<low, mid - 1>>)
      <4>1. mid - 1 \in -1 .. n /\ low \in 0 .. n + 1 /\ ~(low <= f)
        BY <1>1, <2>1, <2>3 DEF n
      <4> QED
        BY <4>1 DEF Ranges, Around
    <3>5. CASE low > mid - 1
      BY <3>3, <3>5 DEF n
    <3>6. CASE ~(low > mid - 1)
      <4>1. PICK r \in Ranges(n) : r = <<low, mid - 1>>
        BY <3>4
      <4>2. r[1] <= r[2] /\ ~Around(f, r)
        BY <1>1, <3>4, <3>6, <4>1
      <4>3. answer = S[r]
        BY <3>3, <3>6, <4>1 DEF answer
      <4> QED
        BY <4>2, <4>3 DEF answer, n
    <3> QED
      BY <3>5, <3>6
  <2> QED
    BY <2>2, <2>3
<1> QED
  BY <1>2, <1>3

(* What every such search answers, and that there is one, so that it is    *)
(* the one GetServer names.                                                *)
Searches(S, h, n, points) == S = [r \in Ranges(n) |-> Turn(S, r, h, n, points)]

LEMMA SearchFinds ==
  ASSUME NEW points \in Seq(Nat), NEW h \in Nat, NEW f, FirstPoint(f, h, points), NEW S,
         Searches(S, h, Len(points), points),
         NEW r \in Ranges(Len(points)), Around(f, r)
  PROVE  S[r] = Answer(f, points)
<1> DEFINE n == Len(points)
           Bad == {q \in Ranges(n) : Around(f, q) /\ S[q] # Answer(f, points)}
           T == {q[2] - q[1] : q \in Bad}
<1>1. n \in Nat /\ f \in 0 .. n
  BY DEF FirstPoint
<1>2. ASSUME NEW q \in Ranges(n)
      PROVE  /\ q = <<q[1], q[2]>> /\ q[1] \in 0 .. n + 1 /\ q[2] \in -1 .. n
             /\ S[q] = Turn(S, q, h, n, points)
  <2>1. q = <<q[1], q[2]>> /\ q[1] \in 0 .. n + 1 /\ q[2] \in -1 .. n
    BY <1>2 DEF Ranges
  <2>2. S[q] = Turn(S, q, h, n, points)
    BY <1>2 DEF Searches
  <2> QED
    BY <2>1, <2>2
<1>3. T \subseteq Nat
  <2>1. ASSUME NEW q \in Bad PROVE q[2] - q[1] \in Nat
    BY <1>1, <1>2, <2>1 DEF Around
  <2> HIDE DEF Bad
  <2> QED
    BY <2>1
<1>4. ASSUME Bad # {} PROVE FALSE
  <2>1. T # {}
    BY <1>4
  <2>2. PICK d \in T : \A e \in T : d <= e
    <3> HIDE DEF T
    <3> QED
      BY <1>3, <2>1, LeastOf
  <2>3. PICK q \in Bad : d = q[2] - q[1]
    BY <2>2
  <2>4. PICK low \in 0 .. n + 1, high \in -1 .. n : q = <<low, high>> /\ low <= f /\ f <= high
    BY <2>3, <1>2 DEF Around
  <2>5. S[q] = Turn(S, <<low, high>>, h, n, points) /\ S[q] # Answer(f, points)
    BY <2>3, <2>4, <1>2
  <2>6. PICK s \in Ranges(n) : S[q] = S[s] /\ Around(f, s) /\ s[2] - s[1] < high - low
    <3> HIDE DEF Bad, T
    <3> QED
      BY <2>4, <2>5, TurnFinds DEF n
  <2>7. s \in Bad /\ s[2] - s[1] \in T
    BY <2>5, <2>6
  <2>8. d = high - low
    BY <2>3, <2>4
  <2>9. d <= s[2] - s[1] /\ s[2] - s[1] \in Nat /\ d \in Nat
    <3> HIDE DEF T, Bad
    <3> QED
      BY <1>3, <2>2, <2>7
  <2> QED
    BY <2>6, <2>8, <2>9
<1> QED
  BY <1>4

LEMMA SearchThere ==
  ASSUME NEW points \in Seq(Nat), NEW h \in Nat, NEW f, FirstPoint(f, h, points)
  PROVE  \E S : Searches(S, h, Len(points), points)
<1> DEFINE n == Len(points)
           S == [r \in Ranges(n) |-> IF r[1] > r[2] THEN Turn(<<>>, r, h, n, points)
                                     ELSE IF Around(f, r) THEN Answer(f, points) ELSE 0]
<1>1. n \in Nat /\ f \in 0 .. n
  BY DEF FirstPoint
<1>2. /\ DOMAIN S = Ranges(n)
      /\ \A r \in Ranges(n) :
           /\ r[1] > r[2] => S[r] = Turn(<<>>, r, h, n, points)
           /\ ~(r[1] > r[2]) /\ Around(f, r) => S[r] = Answer(f, points)
           /\ ~(r[1] > r[2]) /\ ~Around(f, r) => S[r] = 0
  OBVIOUS
<1>3. S = [r \in Ranges(n) |-> S[r]]
  OBVIOUS
<1> HIDE DEF S
<1>4. ASSUME NEW r \in Ranges(n)
      PROVE  S[r] = Turn(S, r, h, n, points)
  <2>1. PICK low \in 0 .. n + 1, high \in -1 .. n : r = <<low, high>>
    BY DEF Ranges
  <2>2. r[1] = low /\ r[2] = high
    BY <2>1
  <2>3. CASE low > high
    <3>1. S[r] = Turn(<<>>, r, h, n, points)
      BY <1>2, <2>2, <2>3
    <3>2. Turn(S, r, h, n, points) = Turn(<<>>, r, h, n, points)
      BY <1>1, <2>1, <2>3, TurnOver
    <3> QED
      BY <3>1, <3>2
  <2>4. CASE low <= f /\ f <= high
    <3>1. S[r] = Answer(f, points)
      BY <1>1, <1>2, <2>2, <2>4 DEF Around
    <3>2. \A q \in Ranges(n) : Around(f, q) => S[q] = Answer(f, points)
      <4>1. ASSUME NEW q \in Ranges(n), Around(f, q)
            PROVE  ~(q[1] > q[2])
        BY <1>1, <4>1 DEF Around, Ranges
      <4> QED
        BY <4>1, <1>2
    <3> QED
      <4>1. \/ Turn(S, <<low, high>>, h, n, points) = Answer(f, points)
            \/ \E q \in Ranges(n) : Turn(S, <<low, high>>, h, n, points) = S[q]
                                   /\ Around(f, q) /\ q[2] - q[1] < high - low
        BY <2>4, TurnFinds
      <4> HIDE DEF n
      <4> QED
        BY <2>1, <3>1, <3>2, <4>1
  <2>5. CASE low <= high /\ (f < low \/ high < f)
    <3>1. S[r] = 0
      BY <1>1, <1>2, <2>2, <2>5 DEF Around
    <3>2. \A q \in Ranges(n) : q[1] <= q[2] /\ ~Around(f, q) => S[q] = 0
      <4>1. ASSUME NEW q \in Ranges(n), q[1] <= q[2]
            PROVE  ~(q[1] > q[2])
        BY <1>1, <4>1 DEF Ranges
      <4> QED
        BY <4>1, <1>2
    <3> QED
      <4>1. \/ Turn(S, <<low, high>>, h, n, points) = 0
            \/ \E q \in Ranges(n) : Turn(S, <<low, high>>, h, n, points) = S[q]
                                   /\ q[1] <= q[2] /\ ~Around(f, q)
        BY <2>5, TurnMisses
      <4> HIDE DEF n
      <4> QED
        BY <2>1, <3>1, <3>2, <4>1
  <2> QED
    BY <1>1, <2>3, <2>4, <2>5
<1> QED
  BY <1>3, <1>4 DEF Searches

LEMMA ServerFound ==
  ASSUME NEW points \in Seq(Nat), NEW h \in Nat, NEW f, FirstPoint(f, h, points)
  PROVE  GetServer(h, Len(points), points) = Answer(f, points)
<1> DEFINE n == Len(points)
           Found == CHOOSE S : Searches(S, h, n, points)
<1>1. Searches(Found, h, n, points)
  BY SearchThere
<1>2. GetServer(h, n, points) = Found[<<0, n>>]
  BY DEF GetServer, Searches, Turn, Ranges
<1>3. <<0, n>> \in Ranges(n) /\ Around(f, <<0, n>>)
  BY DEF Ranges, Around, FirstPoint
<1> HIDE DEF Found
<1> QED
  BY <1>1, <1>2, <1>3, SearchFinds

(* ... which is the next point NextPoint speaks of.                        *)
LEMMA NextFound ==
  ASSUME NEW points \in Seq(Nat), NEW h \in Nat, Sorted(points)
  PROVE  points[GetServer(h, Len(points), points) + 1] = NextPoint(h, points)
<1> DEFINE n == Len(points)
           above == {i \in 1 .. n : points[i] >= h}
<1>1. PICK f : FirstPoint(f, h, points)
  BY FirstPointThere
<1>2. GetServer(h, n, points) = Answer(f, points)
  BY <1>1, ServerFound
<1>3. /\ n \in Nat /\ f \in 0 .. n
      /\ \A i \in 0 .. n - 1 : points[i + 1] < h <=> i < f
  BY <1>1 DEF FirstPoint
<1>4. ASSUME NEW i \in 1 .. n
      PROVE  i \in above <=> f < i
  <2>1. i - 1 \in 0 .. n - 1 /\ i - 1 + 1 = i /\ points[i] \in Nat
    BY <1>3
  <2>2. points[i] < h <=> i - 1 < f
    BY <1>3, <2>1
  <2> QED
    BY <1>3, <2>1, <2>2
<1>5. NextPoint(h, points) = IF above = {} THEN points[1]
                             ELSE points[CHOOSE i \in above : \A j \in above : i <= j]
  BY DEF NextPoint
<1>6. CASE f = n
  <2>1. above = {}
    BY <1>3, <1>4, <1>6
  <2> QED
    BY <1>2, <1>5, <1>6, <2>1 DEF Answer
<1>7. CASE f # n
  <2>1. f + 1 \in above /\ \A i \in above : f + 1 <= i /\ i \in Nat
    <3>1. f + 1 \in 1 .. n /\ f < f + 1
      BY <1>3, <1>7
    <3>2. ASSUME NEW i \in above PROVE f + 1 <= i /\ i \in Nat
      <4>1. i \in 1 .. n
        OBVIOUS
      <4> QED
        BY <4>1, <1>3, <1>4
    <3> HIDE DEF above
    <3> QED
      BY <1>4, <3>1, <3>2
  <2> HIDE DEF above
  <2>2. (CHOOSE i \in above : \A j \in above : i <= j) = f + 1
    <3>1. \E i \in above : \A j \in above : i <= j
      BY <2>1
    <3>2. ASSUME NEW i \in above, \A j \in above : i <= j PROVE i = f + 1
      <4>1. i <= f + 1 /\ f + 1 <= i /\ i \in Nat /\ f + 1 \in Nat
        BY <2>1, <3>2
      <4> QED
        BY <4>1
    <3> QED
      BY <3>1, <3>2
  <2> QED
    BY <1>2, <1>5, <1>7, <2>1, <2>2 DEF Answer
<1> QED
  BY <1>6, <1>7

(* Whatever the points of the file and the hash of the key, the search of  *)
(* a process with a whole continuum finds the server of the next point, or *)
(* of the first when there is none.                                        *)
THEOREM ServersFound == KetamaSpec => []GetServerTrue
<1>1. ASSUME KetamaInv
      PROVE  GetServerTrue
  <2>1. SUFFICES ASSUME NEW p \in Proc, me[p].pc = "ready", Whole(seg[me[p].data], me[p].numpoints),
                        NEW h \in Hashes
                 PROVE  LET s == seg[me[p].data]
                        IN s.array[GetServer(h, me[p].numpoints, s.array) + 1] = NextPoint(h, s.array)
    BY DEF GetServerTrue
  <2>2. me[p].data \in 1 .. Len(seg) /\ seg \in Seq(Segments)
    BY <1>1, <2>1 DEF KetamaInv, KetamaTyped, AttachedOK
  <2>3. seg[me[p].data] \in Segments
    BY <2>2, ElementOfSeq
  <2>4. PICK v \in Versions : seg[me[p].data].array = Points[v] /\ me[p].numpoints = Len(Points[v])
    BY <2>1, <2>3 DEF Whole, Segments
  <2>5. Points[v] \in Seq(Nat) /\ Sorted(Points[v]) /\ h \in Nat
    BY KetamaAssumption DEF Versions, Sorted
  <2> QED
    BY <2>4, <2>5, NextFound
<1> QED
  BY <1>1, KetamaStart, KetamaKept, PTL DEF KetamaSpec

(***************************************************************************)
(* The upgrade client                                                      *)
(***************************************************************************)
IsFile(f) == Len(f) \in Nat /\ f = [i \in 1 .. Len(f) |-> f[i]]

OnlyImage == disk = [image |-> disk.image] /\ IsFile(disk.image)
OnlyTmp == disk = [tmp |-> disk.tmp] /\ IsFile(disk.tmp)
BothFiles ==
  disk = [image |-> disk.image, tmp |-> disk.tmp] /\ IsFile(disk.image) /\ IsFile(disk.tmp)

Stamping == {"stamp", "blank", "copy", "seal", "unlink", "rename"}
Sending == {"read", "write", "ack"}

(* tmp is one header, and then as much of the image as was read.           *)
Copied ==
  /\ Len(disk.tmp) = read + 1
  /\ \A i \in 1 .. read : disk.tmp[i + 1] = disk.image[i]

DiskInv ==
  /\ pc \in Stamping \cup Sending \cup {"idle", "open"}
  /\ OnlyImage \/ OnlyTmp \/ BothFiles
  /\ pc \in {"blank", "copy", "seal", "unlink"} => BothFiles
  /\ pc = "rename" => OnlyTmp \/ BothFiles
  /\ pc \in {"stamp", "blank"} => read = 0
  /\ pc \in {"copy", "seal"} => read \in 0 .. Len(disk.image)
  /\ ~lost =>
       /\ There("image") => Sound(disk.image)
       /\ ~There("image") => Sound(disk.tmp)
       /\ pc \in {"copy", "seal"} => Copied
       /\ pc = "seal" => read = Len(disk.image)
       /\ pc \in {"unlink", "rename"} => Sound(disk.tmp)

(* Piece i of the frame that carries unit k of the image.                  *)
Piece(k, i) == <<[cur |-> k, total |-> Len(disk.image), data |-> disk.image[k]], i>>

Quiet == frames = <<>> /\ toDevice = <<>> /\ fromDevice = <<>>

(* The frame on the wire: the whole of it, or what is written.             *)
InFlight(n) == Len(toDevice) = n /\ \A i \in 1 .. n : toDevice[i] = Piece(read, i)

Unanswered == Len(frames) = read - 1 /\ fromDevice = <<>>

Received ==
  /\ Len(frames) = read /\ toDevice = <<>>
  /\ fromDevice = <<>> \/ Len(fromDevice) + sum = AckBytes

SendInv ==
  /\ IsFile(frames) /\ IsFile(toDevice) /\ IsFile(fromDevice)
  /\ \A k \in 1 .. Len(frames) : \A i \in 1 .. FrameBytes : frames[k][i] = Piece(k, i)
  /\ Len(toDevice) <= FrameBytes
  /\ pc # "idle" => result = "none"
  /\ result = "sent" => There("image") /\ Len(frames) = Len(disk.image)
  /\ pc \in Stamping \cup {"open"} => Quiet
  /\ pc \in Sending => There("image") /\ read \in 0 .. Len(disk.image)
  /\ pc = "read" => Len(frames) = read /\ toDevice = <<>> /\ fromDevice = <<>>
  /\ pc = "write" => read > 0 /\ sum \in 0 .. FrameBytes - 1 /\ InFlight(sum) /\ Unanswered
  /\ pc = "ack" => /\ read > 0 /\ sum \in 0 .. AckBytes - 1
                   /\ Received \/ (Unanswered /\ InFlight(FrameBytes) /\ sum = 0)

UpgradeInv == DiskInv /\ SendInv

(* Files as sequences.                                                     *)
LEMMA FileIsSeq ==
  ASSUME NEW f, IsFile(f), NEW x
  PROVE  f \in Seq({f[i] : i \in 1 .. Len(f)} \cup {x})
BY DEF IsFile

LEMMA FileAppend ==
  ASSUME NEW f, IsFile(f), NEW x
  PROVE  /\ IsFile(Append(f, x)) /\ Len(Append(f, x)) = Len(f) + 1
         /\ \A i \in 1 .. Len(f) : Append(f, x)[i] = f[i]
         /\ Append(f, x)[Len(f) + 1] = x
<1> DEFINE S == {f[i] : i \in 1 .. Len(f)} \cup {x}
           g == Append(f, x)
<1>1. f \in Seq(S) /\ x \in S /\ Len(f) \in Nat
  BY FileIsSeq DEF IsFile
<1> HIDE DEF S
<1>2. /\ g \in Seq(S) /\ Len(g) = Len(f) + 1
      /\ \A i \in 1 .. Len(f) : g[i] = f[i]
      /\ g[Len(f) + 1] = x
  BY <1>1, AppendProperties
<1> HIDE DEF g
<1>3. IsFile(g)
  BY <1>2 DEF IsFile
<1> QED
  BY <1>2, <1>3 DEF g

LEMMA FileExcept ==
  ASSUME NEW f, IsFile(f), NEW k \in 1 .. Len(f), NEW x
  PROVE  /\ IsFile([f EXCEPT ![k] = x]) /\ Len([f EXCEPT ![k] = x]) = Len(f)
         /\ \A i \in 1 .. Len(f) : [f EXCEPT ![k] = x][i] = IF i = k THEN x ELSE f[i]
<1> DEFINE S == {f[i] : i \in 1 .. Len(f)} \cup {x}
           g == [f EXCEPT ![k] = x]
<1>1. f \in Seq(S) /\ x \in S
  BY FileIsSeq
<1> HIDE DEF S
<1>2. /\ g \in Seq(S) /\ Len(g) = Len(f)
      /\ \A i \in 1 .. Len(f) : g[i] = IF i = k THEN x ELSE f[i]
  BY <1>1, ExceptSeq
<1> HIDE DEF g
<1>3. IsFile(g)
  BY <1>2 DEF IsFile
<1> QED
  BY <1>2, <1>3 DEF g

LEMMA FileConcat ==
  ASSUME NEW f, IsFile(f), NEW h, IsFile(h)
  PROVE  /\ IsFile(f \o h) /\ Len(f \o h) = Len(f) + Len(h)
         /\ \A i \in 1 .. Len(f) : (f \o h)[i] = f[i]
         /\ \A i \in 1 .. Len(h) : (f \o h)[Len(f) + i] = h[i]
<1> DEFINE S == {f[i] : i \in 1 .. Len(f)} \cup {h[i] : i \in 1 .. Len(h)}
           g == f \o h
<1>1. f \in Seq(S) /\ h \in Seq(S) /\ Len(f) \in Nat /\ Len(h) \in Nat
  BY DEF IsFile
<1> HIDE DEF S
<1>2. /\ g \in Seq(S) /\ Len(g) = Len(f) + Len(h)
      /\ \A i \in 1 .. Len(f) + Len(h) : g[i] = IF i <= Len(f) THEN f[i] ELSE h[i - Len(f)]
  BY <1>1, ConcatProperties
<1> HIDE DEF g
<1>3. IsFile(g)
  BY <1>2 DEF IsFile
<1>4. \A i \in 1 .. Len(f) : g[i] = f[i]
  BY <1>1, <1>2
<1>5. ASSUME NEW i \in 1 .. Len(h)
      PROVE  g[Len(f) + i] = h[i]
  <2>1. /\ Len(f) + i \in 1 .. Len(f) + Len(h) /\ ~(Len(f) + i <= Len(f))
        /\ (Len(f) + i) - Len(f) = i
    BY <1>1
  <2> QED
    BY <2>1, <1>2
<1> QED
  BY <1>2, <1>3, <1>4, <1>5 DEF g

LEMMA FileRest ==
  ASSUME NEW f, IsFile(f), NEW n \in 0 .. Len(f)
  PROVE  /\ IsFile(SubSeq(f, n + 1, Len(f))) /\ Len(SubSeq(f, n + 1, Len(f))) = Len(f) - n
         /\ \A i \in 1 .. Len(f) - n : SubSeq(f, n + 1, Len(f))[i] = f[n + i]
<1> DEFINE S == {f[i] : i \in 1 .. Len(f)} \cup {0}
           g == SubSeq(f, n + 1, Len(f))
<1>1. f \in Seq(S) /\ Len(f) \in Nat
  BY FileIsSeq DEF IsFile
<1> HIDE DEF S
<1>2. \A i \in n + 1 .. Len(f) : f[i] \in S
  BY <1>1, ElementOfSeq
<1>3. /\ g \in Seq(S)
      /\ Len(g) = IF n + 1 <= Len(f) THEN Len(f) - (n + 1) + 1 ELSE 0
      /\ \A i \in 1 .. Len(f) - (n + 1) + 1 : g[i] = f[n + 1 + i - 1]
  BY <1>1, <1>2, SubSeqProperties
<1> HIDE DEF g
<1>4. Len(g) = Len(f) - n
  BY <1>1, <1>3
<1>5. ASSUME NEW i \in 1 .. Len(f) - n
      PROVE  g[i] = f[n + i]
  <2>1. i \in 1 .. Len(f) - (n + 1) + 1 /\ n + 1 + i - 1 = n + i
    BY <1>1
  <2> QED
    BY <2>1, <1>3
<1>6. IsFile(g)
  BY <1>1, <1>3, <1>4 DEF IsFile
<1> QED
  BY <1>4, <1>5, <1>6 DEF g

LEMMA FilesEqual ==
  ASSUME NEW f, IsFile(f), NEW g, IsFile(g), Len(f) = Len(g), \A i \in 1 .. Len(f) : f[i] = g[i]
  PROVE  f = g
BY DEF IsFile

-----------------------------------------------------------------------------
LEMMA FirmwareSound == IsFile(Firmware) /\ Len(Firmware) = Blocks /\ Sound(Firmware)
<1>1. Blocks \in Nat
  BY UpgradeAssumption
<1>2. Firmware = [i \in 1 .. Blocks |-> <<"block", i>>]
  BY DEF Firmware
<1>3. Len(Firmware) = Blocks /\ IsFile(Firmware)
  BY <1>1, <1>2 DEF IsFile
<1>4. SubSeq(Firmware, 0 + 1, Len(Firmware)) = Firmware
  <2> DEFINE g == SubSeq(Firmware, 0 + 1, Len(Firmware))
  <2>0. 0 \in 0 .. Len(Firmware)
    BY <1>1, <1>3
  <2>1. IsFile(g) /\ Len(g) = Len(Firmware) - 0 /\ \A i \in 1 .. Len(Firmware) - 0 : g[i] = Firmware[0 + i]
    BY <2>0, <1>3, FileRest
  <2> HIDE DEF g
  <2>2. Len(g) = Len(Firmware) /\ \A i \in 1 .. Len(g) : g[i] = Firmware[i]
    BY <1>1, <1>3, <2>1
  <2>3. g = Firmware
    BY <2>1, <2>2, <1>3, FilesEqual
  <2> QED
    BY <2>3 DEF g
<1>5. Len(Firmware) - Blocks = 0
  BY <1>1, <1>3
<1> QED
  BY <1>1, <1>3, <1>4, <1>5 DEF Sound

(* add_hisiHead makes a sound file of a sound one.                         *)
LEMMA StampedSound ==
  ASSUME NEW f, IsFile(f), Sound(f), NEW g, IsFile(g), Len(g) = Len(f) + 1,
         g[1] = Header(f), \A i \in 1 .. Len(f) : g[i + 1] = f[i]
  PROVE  Sound(g)
<1>0. Len(f) \in Nat /\ Blocks \in Nat /\ Len(f) - Blocks >= 0
  BY UpgradeAssumption DEF IsFile, Sound
<1>1. ASSUME NEW n \in 0 .. Len(f)
      PROVE  SubSeq(g, (n + 1) + 1, Len(g)) = SubSeq(f, n + 1, Len(f))
  <2> DEFINE a == SubSeq(g, (n + 1) + 1, Len(g))
             b == SubSeq(f, n + 1, Len(f))
  <2>0. n + 1 \in 0 .. Len(g)
    BY <1>0
  <2>1. IsFile(a) /\ Len(a) = Len(g) - (n + 1) /\ \A i \in 1 .. Len(g) - (n + 1) : a[i] = g[(n + 1) + i]
    BY <2>0, FileRest
  <2>2. IsFile(b) /\ Len(b) = Len(f) - n /\ \A i \in 1 .. Len(f) - n : b[i] = f[n + i]
    BY FileRest
  <2> HIDE DEF a, b
  <2>3. Len(a) = Len(b) /\ Len(a) = Len(f) - n
    BY <1>0, <2>1, <2>2
  <2>4. ASSUME NEW i \in 1 .. Len(a)
        PROVE  a[i] = b[i]
    <3>1. i \in 1 .. Len(g) - (n + 1) /\ i \in 1 .. Len(f) - n /\ n + i \in 1 .. Len(f)
          /\ (n + 1) + i = (n + i) + 1
      BY <1>0, <2>3
    <3>2. a[i] = g[(n + i) + 1] /\ b[i] = f[n + i]
      BY <3>1, <2>1, <2>2
    <3> QED
      BY <3>1, <3>2
  <2>5. a = b
    BY <2>1, <2>2, <2>3, <2>4, FilesEqual
  <2> QED
    BY <2>5 DEF a, b
<1>2. SubSeq(g, (Len(g) - Blocks) + 1, Len(g)) = Firmware
  <2>1. Len(f) - Blocks \in 0 .. Len(f) /\ (Len(f) - Blocks) + 1 = Len(g) - Blocks
    BY <1>0
  <2>2. SubSeq(g, ((Len(f) - Blocks) + 1) + 1, Len(g)) = SubSeq(f, (Len(f) - Blocks) + 1, Len(f))
    BY <1>1, <2>1
  <2>3. SubSeq(f, (Len(f) - Blocks) + 1, Len(f)) = Firmware
    BY DEF Sound
  <2> QED
    BY <2>1, <2>2, <2>3
<1>3. ASSUME NEW i \in 1 .. Len(g) - Blocks
      PROVE  g[i] = Header(SubSeq(g, i + 1, Len(g)))
  <2>1. CASE i = 1
    <3>1. 0 \in 0 .. Len(f) /\ (0 + 1) + 1 = 2
      BY <1>0
    <3>2. SubSeq(g, (0 + 1) + 1, Len(g)) = SubSeq(f, 0 + 1, Len(f))
      BY <1>1, <3>1
    <3>3. SubSeq(f, 0 + 1, Len(f)) = f
      <4> DEFINE b == SubSeq(f, 0 + 1, Len(f))
      <4>1. IsFile(b) /\ Len(b) = Len(f) - 0 /\ \A j \in 1 .. Len(f) - 0 : b[j] = f[0 + j]
        BY <3>1, FileRest
      <4> HIDE DEF b
      <4>2. Len(b) = Len(f) /\ \A j \in 1 .. Len(b) : b[j] = f[j]
        BY <1>0, <4>1
      <4>3. b = f
        BY <4>1, <4>2, FilesEqual
      <4> QED
        BY <4>3 DEF b
    <3>4. SubSeq(g, i + 1, Len(g)) = f
      <4>1. i + 1 = (0 + 1) + 1
        BY <2>1
      <4> QED
        BY <4>1, <3>2, <3>3
    <3> QED
      BY <2>1, <3>4
  <2>2. CASE i # 1
    <3>1. i - 1 \in 1 .. Len(f) - Blocks /\ i - 1 \in 0 .. Len(f) /\ i - 1 \in 1 .. Len(f)
          /\ (i - 1) + 1 = i
      BY <2>2, <1>0
    <3>2. g[(i - 1) + 1] = f[i - 1]
      BY <3>1
    <3>3. f[i - 1] = Header(SubSeq(f, (i - 1) + 1, Len(f)))
      BY <3>1 DEF Sound
    <3>4. SubSeq(g, ((i - 1) + 1) + 1, Len(g)) = SubSeq(f, (i - 1) + 1, Len(f))
      BY <3>1, <1>1
    <3> QED
      BY <3>1, <3>2, <3>3, <3>4
  <2> QED
    BY <2>1, <2>2
<1>4. Len(g) - Blocks >= 0
  BY <1>0
<1> QED
  BY <1>2, <1>3, <1>4 DEF Sound

(* Which files there are.                                                  *)
LEMMA Names ==
  /\ OnlyImage => There("image") /\ ~There("tmp")
  /\ OnlyTmp => There("tmp") /\ ~There("image")
  /\ BothFiles => There("image") /\ There("tmp")
<1>1. ASSUME OnlyImage
      PROVE  There("image") /\ ~There("tmp")
  <2>1. DOMAIN disk = {"image"}
    BY <1>1 DEF OnlyImage
  <2> QED
    BY <2>1 DEF There
<1>2. ASSUME OnlyTmp
      PROVE  There("tmp") /\ ~There("image")
  <2>1. DOMAIN disk = {"tmp"}
    BY <1>2 DEF OnlyTmp
  <2> QED
    BY <2>1 DEF There
<1>3. ASSUME BothFiles
      PROVE  There("image") /\ There("tmp")
  <2>1. DOMAIN disk = {"image", "tmp"}
    BY <1>3 DEF BothFiles
  <2> QED
    BY <2>1 DEF There
<1> QED
  BY <1>1, <1>2, <1>3

LEMMA EmptyFile == IsFile(<<>>) /\ Len(<<>>) = 0
BY DEF IsFile

LEMMA ImageIsFile ==
  ASSUME DiskInv, There("image")
  PROVE  IsFile(disk.image)
BY Names DEF DiskInv, OnlyImage, BothFiles

LEMMA UpgradeStart == UpgradeInit => UpgradeInv
<1> SUFFICES ASSUME UpgradeInit PROVE UpgradeInv
  OBVIOUS
<1>1. disk.image = Firmware /\ OnlyImage
  BY FirmwareSound DEF UpgradeInit, OnlyImage
<1>2. There("image")
  BY <1>1, Names
<1>3. DiskInv
  BY <1>1, <1>2, FirmwareSound DEF DiskInv, UpgradeInit, Stamping
<1>4. SendInv
  <2>1. frames = <<>> /\ toDevice = <<>> /\ fromDevice = <<>> /\ pc = "idle" /\ result = "none"
    BY DEF UpgradeInit
  <2>2. IsFile(frames) /\ IsFile(toDevice) /\ IsFile(fromDevice) /\ Len(frames) = 0 /\ Len(toDevice) = 0
    BY <2>1, EmptyFile
  <2>3. Len(toDevice) <= FrameBytes
    BY <2>2, UpgradeAssumption
  <2> QED
    BY <2>1, <2>2, <2>3 DEF SendInv, Stamping, Sending
<1> QED
  BY <1>3, <1>4 DEF UpgradeInv

-----------------------------------------------------------------------------
(* The files.                                                              *)
LEMMA DiskSame ==
  ASSUME DiskInv, UNCHANGED <<disk, lost>>,
         pc' \in Sending \cup {"idle", "open"} \/ (pc' = "stamp" /\ read' = 0)
  PROVE  DiskInv'
<1>1. OnlyImage' \/ OnlyTmp' \/ BothFiles'
  BY DEF DiskInv, OnlyImage, OnlyTmp, BothFiles, IsFile
<1>2. /\ pc' \in Stamping \cup Sending \cup {"idle", "open"}
      /\ pc' \notin {"blank", "copy", "seal", "unlink", "rename"}
      /\ pc' = "stamp" => read' = 0
  BY DEF Sending, Stamping
<1>3. ~lost' => /\ There("image")' => Sound(disk'.image)
                /\ ~There("image")' => Sound(disk'.tmp)
  BY DEF DiskInv, There
<1> QED
  BY <1>1, <1>2, <1>3 DEF DiskInv, Sound

(* Both files there, the second one written.                               *)
LEMMA TmpWritten ==
  ASSUME BothFiles, NEW x, IsFile(x), disk' = [disk EXCEPT !.tmp = x]
  PROVE  BothFiles' /\ disk'.image = disk.image /\ disk'.tmp = x
<1>1. disk' = [image |-> disk.image, tmp |-> x]
  BY DEF BothFiles
<1>2. disk'.image = disk.image /\ disk'.tmp = x
  BY <1>1
<1> QED
  BY <1>1, <1>2 DEF BothFiles, IsFile

LEMMA DiskOpenBoth ==
  ASSUME DiskInv, OpenBoth
  PROVE  DiskInv'
<1>1. CASE UNCHANGED disk /\ pc' = "open"
  BY <1>1, DiskSame DEF OpenBoth
<1>2. CASE There("image") /\ disk' = [image |-> disk.image, tmp |-> <<>>] /\ pc' = "blank"
  <2>1. disk'.image = disk.image /\ disk'.tmp = <<>>
    BY <1>2
  <2>2. BothFiles'
    BY <1>2, <2>1, ImageIsFile, EmptyFile DEF BothFiles, IsFile
  <2>3. There("image")'
    BY <1>2 DEF There
  <2>4. read' = 0 /\ lost' = lost
    BY DEF OpenBoth, DiskInv
  <2>5. ~lost' => Sound(disk'.image)
    BY <1>2, <2>1, <2>4 DEF DiskInv
  <2> QED
    BY <1>2, <2>2, <2>3, <2>4, <2>5 DEF DiskInv, Stamping, Sound
<1> QED
  BY <1>1, <1>2 DEF OpenBoth

LEMMA DiskWriteBlank ==
  ASSUME DiskInv, WriteBlank
  PROVE  DiskInv'
<1>1. CASE UNCHANGED disk /\ pc' = "open"
  BY <1>1, DiskSame DEF WriteBlank
<1>2. CASE disk' = [disk EXCEPT !.tmp = <<BlankHeader>>] /\ pc' = "copy"
  <2>1. pc = "blank" /\ BothFiles /\ read' = 0 /\ read = 0 /\ lost' = lost /\ There("image")
    BY Names DEF WriteBlank, DiskInv
  <2>2. IsFile(<<BlankHeader>>) /\ Len(<<BlankHeader>>) = 1
    BY DEF IsFile
  <2>3. BothFiles' /\ disk'.image = disk.image /\ disk'.tmp = <<BlankHeader>>
    BY <1>2, <2>1, <2>2, TmpWritten
  <2>4. There("image")'
    BY <1>2, <2>1 DEF There
  <2>5. ~lost' => Sound(disk'.image)
    BY <2>1, <2>3 DEF DiskInv
  <2>6. read' \in 0 .. Len(disk'.image)
    BY <2>1, <2>3 DEF BothFiles, IsFile
  <2>7. Copied'
    BY <2>1, <2>2, <2>3 DEF Copied
  <2> QED
    BY <1>2, <2>3, <2>4, <2>5, <2>6, <2>7 DEF DiskInv, Stamping, Sound
<1> QED
  BY <1>1, <1>2 DEF WriteBlank

LEMMA DiskCopyUnit ==
  ASSUME DiskInv, CopyUnit
  PROVE  DiskInv'
<1>1. /\ pc = "copy" /\ pc' = "copy" /\ BothFiles /\ There("image")
      /\ read \in 0 .. Len(disk.image) /\ read < Len(disk.image) /\ read' = read + 1
  BY Names DEF CopyUnit, DiskInv
<1>2. Len(disk.image) \in Nat /\ read' \in 0 .. Len(disk.image)
  BY <1>1 DEF BothFiles, IsFile
<1>3. CASE UNCHANGED disk /\ lost' = TRUE
  BY <1>1, <1>2, <1>3 DEF DiskInv, Stamping, BothFiles, IsFile
<1>4. CASE /\ disk' = [disk EXCEPT !.tmp = Append(disk.tmp, disk.image[read + 1])]
           /\ UNCHANGED lost
  <2>1. IsFile(disk.tmp) /\ IsFile(Append(disk.tmp, disk.image[read + 1]))
    BY <1>1, FileAppend DEF BothFiles
  <2>2. BothFiles' /\ disk'.image = disk.image /\ disk'.tmp = Append(disk.tmp, disk.image[read + 1])
    BY <1>1, <1>4, <2>1, TmpWritten
  <2>3. There("image")'
    BY <1>4, <1>1 DEF There
  <2>4. ASSUME ~lost
        PROVE  Copied' /\ Sound(disk'.image)
    <3>1. Copied /\ Sound(disk.image)
      BY <1>1, <2>4 DEF DiskInv
    <3>2. /\ Len(disk'.tmp) = Len(disk.tmp) + 1
          /\ \A i \in 1 .. Len(disk.tmp) : disk'.tmp[i] = disk.tmp[i]
          /\ disk'.tmp[Len(disk.tmp) + 1] = disk.image[read + 1]
      BY <2>1, <2>2, FileAppend
    <3>3. Len(disk'.tmp) = read' + 1
      BY <1>1, <3>1, <3>2 DEF Copied
    <3>4. ASSUME NEW i \in 1 .. read'
          PROVE  disk'.tmp[i + 1] = disk'.image[i]
      <4>1. CASE i = read'
        BY <4>1, <1>1, <2>2, <3>1, <3>2 DEF Copied
      <4>2. CASE i # read'
        <5>1. i \in 1 .. read /\ i + 1 \in 1 .. Len(disk.tmp)
          BY <4>2, <1>1, <3>1 DEF Copied
        <5> QED
          BY <5>1, <3>1, <3>2, <2>2 DEF Copied
      <4> QED
        BY <4>1, <4>2
    <3> QED
      BY <3>1, <3>3, <3>4, <2>2 DEF Copied
  <2> QED
    BY <1>1, <1>2, <1>4, <2>2, <2>3, <2>4 DEF DiskInv, Stamping, Sound
<1> QED
  BY <1>3, <1>4 DEF CopyUnit

LEMMA DiskCopyEnd ==
  ASSUME DiskInv, CopyEnd
  PROVE  DiskInv'
<1>1. /\ pc = "copy" /\ pc' = "seal" /\ disk' = disk /\ read' = read /\ BothFiles
      /\ There("image") /\ read \in 0 .. Len(disk.image)
      /\ lost' = (lost \/ read < Len(disk.image))
  BY Names DEF CopyEnd, DiskInv
<1>2. BothFiles' /\ There("image")' /\ read' \in 0 .. Len(disk'.image)
  BY <1>1 DEF BothFiles, IsFile, There
<1>3. ASSUME ~lost'
      PROVE  read = Len(disk.image) /\ Copied /\ Sound(disk.image)
  <2>1. ~lost /\ ~(read < Len(disk.image))
    BY <1>1, <1>3, Zenon
  <2>2. Len(disk.image) \in Nat
    BY <1>1 DEF BothFiles, IsFile
  <2>3. read = Len(disk.image)
    BY <1>1, <2>1, <2>2
  <2> QED
    BY <1>1, <2>1, <2>3 DEF DiskInv
<1>4. ~lost' => read' = Len(disk'.image) /\ Copied' /\ Sound(disk'.image)
  BY <1>1, <1>3 DEF Copied
<1> QED
  BY <1>1, <1>2, <1>4 DEF DiskInv, Stamping, Sound

LEMMA WholeFile ==
  ASSUME NEW f, IsFile(f)
  PROVE  SubSeq(f, 1, Len(f)) = f
<1> DEFINE b == SubSeq(f, 0 + 1, Len(f))
<1>0. Len(f) \in Nat /\ 0 \in 0 .. Len(f)
  BY DEF IsFile
<1>1. IsFile(b) /\ Len(b) = Len(f) - 0 /\ \A j \in 1 .. Len(f) - 0 : b[j] = f[0 + j]
  BY <1>0, FileRest
<1> HIDE DEF b
<1>2. Len(b) = Len(f) /\ \A j \in 1 .. Len(b) : b[j] = f[j]
  BY <1>0, <1>1
<1>3. b = f
  BY <1>1, <1>2, FilesEqual
<1> QED
  BY <1>3 DEF b

LEMMA DiskWriteHeader ==
  ASSUME DiskInv, WriteHeader
  PROVE  DiskInv'
<1> DEFINE h == Header(SubSeq(disk.image, 1, read))
           f == [disk.tmp EXCEPT ![1] = h]
<1>1. CASE UNCHANGED disk /\ pc' = "open"
  BY <1>1, DiskSame DEF WriteHeader
<1>2. CASE disk' = [disk EXCEPT !.tmp = f] /\ pc' = "unlink"
  <2>1. /\ pc = "seal" /\ BothFiles /\ read' = read /\ lost' = lost /\ There("image")
        /\ read \in 0 .. Len(disk.image) /\ IsFile(disk.image) /\ IsFile(disk.tmp)
    BY Names DEF WriteHeader, DiskInv, BothFiles
  <2> HIDE DEF h
  <2>2. IsFile(f)
    <3>1. CASE 1 \in 1 .. Len(disk.tmp)
      BY <3>1, <2>1, FileExcept
    <3>2. CASE 1 \notin 1 .. Len(disk.tmp)
      <4>1. f = disk.tmp
        <5>1. DOMAIN disk.tmp = 1 .. Len(disk.tmp)
          BY <2>1 DEF IsFile
        <5>2. f = [i \in DOMAIN disk.tmp |-> disk.tmp[i]]
          BY <5>1, <3>2
        <5> QED
          BY <5>1, <5>2, <2>1 DEF IsFile
      <4> QED
        BY <4>1, <2>1
    <3> QED
      BY <3>1, <3>2
  <2> HIDE DEF f
  <2>3. BothFiles' /\ disk'.image = disk.image /\ disk'.tmp = f
    BY <1>2, <2>1, <2>2, TmpWritten
  <2>4. There("image")'
    BY <1>2, <2>1 DEF There
  <2>5. ASSUME ~lost
        PROVE  Sound(disk'.image) /\ Sound(disk'.tmp)
    <3>1. read = Len(disk.image) /\ Copied /\ Sound(disk.image) /\ Len(disk.image) \in Nat
      BY <2>1, <2>5 DEF DiskInv, IsFile
    <3>2. h = Header(disk.image)
      BY <3>1, <2>1, WholeFile DEF h
    <3>3. 1 \in 1 .. Len(disk.tmp) /\ Len(disk.tmp) = Len(disk.image) + 1
      BY <3>1 DEF Copied
    <3>4. /\ Len(f) = Len(disk.tmp)
          /\ \A i \in 1 .. Len(disk.tmp) : f[i] = IF i = 1 THEN h ELSE disk.tmp[i]
      BY <2>1, <3>3, FileExcept DEF f
    <3>5. Len(f) = Len(disk.image) + 1 /\ f[1] = Header(disk.image)
      BY <3>2, <3>3, <3>4
    <3>6. ASSUME NEW i \in 1 .. Len(disk.image)
          PROVE  f[i + 1] = disk.image[i]
      <4>1. i + 1 \in 1 .. Len(disk.tmp) /\ i + 1 # 1 /\ i \in 1 .. read
        BY <3>1, <3>3
      <4> QED
        BY <4>1, <3>1, <3>4 DEF Copied
    <3>7. Sound(f)
      BY <2>1, <2>2, <3>1, <3>5, <3>6, StampedSound
    <3> QED
      BY <2>3, <3>1, <3>7
  <2> QED
    BY <1>2, <2>1, <2>3, <2>4, <2>5 DEF DiskInv, Stamping, Sound
<1> QED
  BY <1>1, <1>2 DEF WriteHeader

LEMMA DiskUnlink ==
  ASSUME DiskInv, Unlink
  PROVE  DiskInv'
<1>1. /\ BothFiles /\ There("image") /\ pc' = "rename" /\ lost' = lost
      /\ ~lost => Sound(disk.image) /\ Sound(disk.tmp)
  BY Names DEF DiskInv, Unlink
<1>2. CASE disk' = disk
  <2>1. BothFiles' /\ There("image")'
    BY <1>1, <1>2 DEF BothFiles, IsFile, There
  <2> QED
    BY <1>1, <1>2, <2>1 DEF DiskInv, Stamping, Sound
<1>3. CASE disk' = [tmp |-> disk.tmp]
  <2>1. disk'.tmp = disk.tmp /\ OnlyTmp'
    BY <1>1, <1>3 DEF OnlyTmp, BothFiles, IsFile
  <2>2. ~There("image")'
    BY <1>3 DEF There
  <2> QED
    BY <1>1, <2>1, <2>2 DEF DiskInv, Stamping, Sound
<1> QED
  BY <1>2, <1>3 DEF Unlink

LEMMA DiskRename ==
  ASSUME DiskInv, Rename
  PROVE  DiskInv'
<1>1. /\ OnlyTmp \/ BothFiles
      /\ pc' = "open" /\ lost' = lost
      /\ ~lost => Sound(disk.tmp)
  BY DEF DiskInv, Rename
<1>2. CASE disk' = disk
  BY <1>1, <1>2, DiskSame
<1>3. CASE disk' = [image |-> disk.tmp]
  <2>1. disk'.image = disk.tmp /\ OnlyImage'
    BY <1>1, <1>3 DEF OnlyTmp, BothFiles, OnlyImage, IsFile
  <2>2. There("image")'
    BY <1>3 DEF There
  <2> QED
    BY <1>1, <2>1, <2>2 DEF DiskInv, Stamping, Sound
<1> QED
  BY <1>2, <1>3 DEF Rename

LEMMA DiskKept ==
  ASSUME DiskInv, [UpgradeNext]_upgradeVars
  PROVE  DiskInv'
<1>1. CASE Start
  BY <1>1, DiskSame DEF Start
<1>2. CASE OpenImage \/ ReadUnit \/ WriteSome \/ ReadSome \/ AckTimeout \/ PeerGone \/ Kill
  <2>1. UNCHANGED <<disk, lost>>
    BY <1>2 DEF OpenImage, ReadUnit, WriteSome, ReadSome, AckTimeout, PeerGone, Kill
  <2>2. pc' \in Sending \cup {"idle", "open"}
    BY <1>2 DEF OpenImage, ReadUnit, WriteSome, ReadSome, AckTimeout, PeerGone, Kill, Exit, Sending
  <2> QED
    BY <2>1, <2>2, DiskSame
<1>3. CASE DeviceReads \/ DeviceGone \/ UNCHANGED upgradeVars
  <2>1. UNCHANGED <<disk, pc, read, lost>>
    BY <1>3 DEF DeviceReads, DeviceGone, upgradeVars
  <2>2. /\ OnlyImage' = OnlyImage /\ OnlyTmp' = OnlyTmp /\ BothFiles' = BothFiles
        /\ Copied' = Copied /\ There("image")' = There("image")
    BY <2>1 DEF OnlyImage, OnlyTmp, BothFiles, Copied, There, IsFile
  <2> QED
    BY <2>1, <2>2 DEF DiskInv, Sound
<1> QED
  BY <1>1, <1>2, <1>3, DiskOpenBoth, DiskWriteBlank, DiskCopyUnit, DiskCopyEnd, DiskWriteHeader,
     DiskUnlink, DiskRename DEF UpgradeNext, Tool

-----------------------------------------------------------------------------
(* The connection.                                                         *)
LEMMA NoPiece ==
  ASSUME NEW f, IsFile(f), Len(f) = 0
  PROVE  f = <<>>
BY EmptyFile, FilesEqual

LEMMA SendQuiet ==
  ASSUME Quiet', pc' \in Stamping \cup {"open"}, result' = "none"
  PROVE  SendInv'
<1>1. frames' = <<>> /\ toDevice' = <<>> /\ fromDevice' = <<>>
  BY DEF Quiet
<1>2. IsFile(frames') /\ IsFile(toDevice') /\ IsFile(fromDevice') /\ Len(frames') = 0 /\ Len(toDevice') = 0
  BY <1>1, EmptyFile
<1>3. Len(toDevice') <= FrameBytes
  BY <1>2, UpgradeAssumption
<1>4. pc' \notin Sending /\ pc' # "idle"
  BY DEF Stamping, Sending
<1> QED
  BY <1>2, <1>3, <1>4 DEF SendInv, Sending, IsFile, Quiet

LEMMA SendStamping ==
  ASSUME SendInv,
         OpenBoth \/ WriteBlank \/ CopyUnit \/ CopyEnd \/ WriteHeader \/ Unlink \/ Rename
  PROVE  SendInv'
<1>1. pc \in Stamping /\ UNCHANGED <<wire, result>> /\ pc' \in Stamping \cup {"open"}
  BY DEF OpenBoth, WriteBlank, CopyUnit, CopyEnd, WriteHeader, Unlink, Rename, Stamping
<1>2. Quiet' /\ result' = "none"
  BY <1>1 DEF SendInv, Quiet, wire, Stamping
<1> QED
  BY <1>1, <1>2, SendQuiet

LEMMA SendStart ==
  ASSUME Start
  PROVE  SendInv'
<1>1. Quiet' /\ pc' \in Stamping \cup {"open"} /\ result' = "none"
  BY DEF Start, Quiet, Stamping
<1> QED
  BY <1>1, SendQuiet

(* The tool's end: what the device has stays what it was.                  *)
LEMMA SendIdle ==
  ASSUME SendInv, UNCHANGED <<disk, frames, toDevice>>, IsFile(fromDevice'), pc' = "idle",
         result' = "sent" => There("image") /\ Len(frames) = Len(disk.image)
  PROVE  SendInv'
<1>1. There("image")' = There("image")
  BY DEF There
<1> QED
  BY <1>1 DEF SendInv, Stamping, Sending, Piece, IsFile

LEMMA SendOpenImage ==
  ASSUME DiskInv, SendInv, OpenImage
  PROVE  SendInv'
<1>1. /\ UNCHANGED <<disk, frames, toDevice, fromDevice>> /\ Quiet
      /\ read' = 0 /\ sum' = 0 /\ pc = "open" /\ result = "none"
  BY DEF OpenImage, wire, SendInv
<1>2. CASE There("image") /\ pc' = "read" /\ result' = result
  <2>1. Len(disk'.image) \in Nat /\ There("image")'
    BY <1>1, <1>2, ImageIsFile DEF IsFile, There
  <2>2. frames' = <<>> /\ toDevice' = <<>> /\ fromDevice' = <<>>
    BY <1>1 DEF Quiet
  <2>3. IsFile(frames') /\ IsFile(toDevice') /\ IsFile(fromDevice') /\ Len(frames') = 0 /\ Len(toDevice') = 0
    BY <2>2, EmptyFile
  <2>4. Len(toDevice') <= FrameBytes
    BY <2>3, UpgradeAssumption
  <2>5. read' \in 0 .. Len(disk'.image)
    BY <1>1, <2>1
  <2> QED
    BY <1>1, <1>2, <2>1, <2>2, <2>3, <2>4, <2>5 DEF SendInv, Stamping, Sending
<1>3. CASE ~There("image")
  <2>1. pc' = "idle" /\ result' = "failed" /\ IsFile(fromDevice')
    BY <1>1, <1>3 DEF OpenImage, Exit, SendInv, IsFile
  <2> QED
    BY <1>1, <2>1, SendIdle
<1> QED
  BY <1>2, <1>3 DEF OpenImage

LEMMA SendReadUnit ==
  ASSUME DiskInv, SendInv, ReadUnit
  PROVE  SendInv'
<1>1. /\ UNCHANGED <<disk, frames, toDevice, fromDevice>> /\ pc = "read" /\ result = "none"
      /\ There("image") /\ read \in 0 .. Len(disk.image)
      /\ Len(frames) = read /\ toDevice = <<>> /\ fromDevice = <<>> /\ sum' = 0
  BY DEF ReadUnit, wire, SendInv, Sending
<1>2. CASE pc' = "idle" /\ (result' = "failed" \/ (read = Len(disk.image) /\ result' = "sent"))
  <2>1. IsFile(fromDevice')
    BY <1>1 DEF SendInv, IsFile
  <2> QED
    BY <1>1, <1>2, <2>1, SendIdle
<1>3. CASE read # Len(disk.image) /\ read' = read + 1 /\ pc' = "write" /\ result' = result
  <2>1. Len(disk.image) \in Nat
    BY <1>1, ImageIsFile DEF IsFile
  <2>2. read' \in 0 .. Len(disk'.image) /\ read' > 0 /\ Len(frames') = read' - 1
    BY <1>1, <1>3, <2>1
  <2>3. There("image")' /\ IsFile(frames') /\ IsFile(toDevice') /\ IsFile(fromDevice')
    BY <1>1 DEF There, IsFile, SendInv
  <2>4. InFlight(sum)' /\ sum' \in 0 .. FrameBytes - 1
    BY <1>1, EmptyFile, UpgradeAssumption DEF InFlight
  <2>5. Unanswered'
    BY <1>1, <2>2 DEF Unanswered
  <2>6. \A k \in 1 .. Len(frames') : \A i \in 1 .. FrameBytes : frames'[k][i] = Piece(k, i)'
    BY <1>1 DEF SendInv, Piece
  <2>7. Len(toDevice') <= FrameBytes
    BY <1>1 DEF SendInv
  <2> QED
    BY <1>1, <1>3, <2>2, <2>3, <2>4, <2>5, <2>6, <2>7 DEF SendInv, Stamping, Sending
<1> QED
  BY <1>2, <1>3 DEF ReadUnit, Exit

LEMMA SendWriteSome ==
  ASSUME SendInv, WriteSome
  PROVE  SendInv'
<1>1. /\ UNCHANGED <<disk, read, fromDevice, frames, result>> /\ pc = "write" /\ result = "none"
      /\ There("image") /\ read \in 0 .. Len(disk.image) /\ read > 0
      /\ sum \in 0 .. FrameBytes - 1 /\ InFlight(sum) /\ Unanswered
      /\ IsFile(frames) /\ IsFile(toDevice) /\ IsFile(fromDevice)
  BY DEF WriteSome, SendInv, Sending
<1>2. PICK n \in 1 .. FrameBytes - sum :
        /\ toDevice' = toDevice \o [i \in 1 .. n |-> <<Frame, sum + i>>]
        /\ IF sum + n = FrameBytes THEN pc' = "ack" /\ sum' = 0
                                   ELSE sum' = sum + n /\ UNCHANGED pc
  BY DEF WriteSome
<1> DEFINE h == [i \in 1 .. n |-> <<Frame, sum + i>>]
<1>3. n \in Nat /\ n >= 1 /\ sum + n \in 1 .. FrameBytes /\ sum \in Nat /\ FrameBytes \in Nat
  BY <1>1, UpgradeAssumption
<1>4. IsFile(h) /\ Len(h) = n /\ \A i \in 1 .. n : h[i] = Piece(read, sum + i)
  BY <1>3 DEF IsFile, Piece, Frame
<1> HIDE DEF h
<1>5. /\ IsFile(toDevice \o h) /\ Len(toDevice \o h) = Len(toDevice) + Len(h)
      /\ \A i \in 1 .. Len(toDevice) : (toDevice \o h)[i] = toDevice[i]
      /\ \A i \in 1 .. Len(h) : (toDevice \o h)[Len(toDevice) + i] = h[i]
  <2>1. IsFile(toDevice) /\ IsFile(h)
    BY <1>1, <1>4
  <2> QED
    BY ONLY <2>1, FileConcat
<1>6. toDevice' = toDevice \o h
  BY <1>2 DEF h
<1>7. /\ IsFile(toDevice') /\ Len(toDevice') = sum + n
      /\ \A i \in 1 .. sum : toDevice'[i] = Piece(read, i)
      /\ \A i \in 1 .. n : toDevice'[sum + i] = Piece(read, sum + i)
  BY <1>1, <1>4, <1>5, <1>6 DEF InFlight, IsFile
<1>8. ASSUME NEW i \in 1 .. sum + n
      PROVE  toDevice'[i] = Piece(read, i)
  <2>1. CASE i <= sum
    <3>1. i \in 1 .. sum
      BY <2>1, <1>3
    <3> QED
      BY <3>1, <1>7
  <2>2. CASE ~(i <= sum)
    <3>1. i - sum \in 1 .. n /\ sum + (i - sum) = i
      BY <2>2, <1>3
    <3>2. toDevice'[sum + (i - sum)] = Piece(read, sum + (i - sum))
      BY <3>1, <1>7
    <3> QED
      BY <3>1, <3>2
  <2> QED
    BY <2>1, <2>2
<1>9. PICK m : m = sum + n
  OBVIOUS
<1>10. InFlight(m)'
  <2>1. Len(toDevice') = m /\ \A i \in 1 .. m : toDevice'[i] = Piece(read, i)'
    BY <1>1, <1>7, <1>8, <1>9 DEF Piece
  <2> QED
    BY <2>1, <1>1 DEF InFlight, Piece
<1>11. /\ There("image")' /\ IsFile(frames') /\ IsFile(fromDevice') /\ result' = "none"
       /\ read' \in 0 .. Len(disk'.image) /\ read' > 0 /\ Unanswered'
  BY <1>1 DEF There, IsFile, Unanswered
<1>12. \A k \in 1 .. Len(frames') : \A i \in 1 .. FrameBytes : frames'[k][i] = Piece(k, i)'
  BY <1>1 DEF SendInv, Piece
<1>13. Len(toDevice') <= FrameBytes
  BY <1>3, <1>7
<1>14. CASE m = FrameBytes
  <2>1. pc' = "ack" /\ sum' = 0 /\ sum' \in 0 .. AckBytes - 1
    BY <1>2, <1>9, <1>14, UpgradeAssumption
  <2>2. InFlight(FrameBytes)'
    BY <1>10, <1>14
  <2> QED
    BY <2>1, <2>2, <1>7, <1>11, <1>12, <1>13 DEF SendInv, Stamping, Sending
<1>15. CASE m # FrameBytes
  <2>1. pc' = "write" /\ sum' = m /\ sum' \in 0 .. FrameBytes - 1
    BY <1>1, <1>2, <1>3, <1>9, <1>15
  <2>2. InFlight(sum)'
    BY <1>10, <2>1 DEF InFlight
  <2> QED
    BY <2>1, <2>2, <1>7, <1>11, <1>12, <1>13 DEF SendInv, Stamping, Sending
<1> QED
  BY <1>14, <1>15

LEMMA SendReadSome ==
  ASSUME SendInv, ReadSome
  PROVE  SendInv'
<1>1. /\ UNCHANGED <<disk, read, toDevice, frames>> /\ pc = "ack" /\ result = "none"
      /\ There("image") /\ read \in 0 .. Len(disk.image) /\ read > 0
      /\ sum \in 0 .. AckBytes - 1 /\ fromDevice # <<>>
      /\ IsFile(frames) /\ IsFile(toDevice) /\ IsFile(fromDevice)
  BY DEF ReadSome, SendInv, Sending
<1>2. Len(frames) = read /\ toDevice = <<>> /\ Len(fromDevice) + sum = AckBytes
  BY <1>1 DEF SendInv, Received, Unanswered
<1>3. PICK n \in 1 .. Len(fromDevice) :
        /\ n <= AckBytes - sum
        /\ fromDevice' = SubSeq(fromDevice, n + 1, Len(fromDevice))
        /\ IF sum + n < AckBytes THEN sum' = sum + n /\ UNCHANGED <<pc, result>>
           ELSE /\ sum' = 0
                /\ IF fromDevice[n] = "success" THEN pc' = "read" /\ UNCHANGED result
                                                ELSE Exit("failed")
  BY DEF ReadSome
<1>4. Len(fromDevice) \in Nat /\ n \in 0 .. Len(fromDevice) /\ AckBytes \in Nat /\ sum \in Nat
  BY <1>1, UpgradeAssumption DEF IsFile
<1>5. IsFile(fromDevice') /\ Len(fromDevice') = Len(fromDevice) - n
  BY <1>1, <1>3, <1>4, FileRest
<1>6. /\ There("image")' /\ IsFile(frames') /\ IsFile(toDevice')
      /\ read' \in 0 .. Len(disk'.image) /\ read' > 0 /\ Len(frames') = read' /\ toDevice' = <<>>
  BY <1>1, <1>2 DEF There, IsFile
<1>7. \A k \in 1 .. Len(frames') : \A i \in 1 .. FrameBytes : frames'[k][i] = Piece(k, i)'
  BY <1>1 DEF SendInv, Piece
<1>8. Len(toDevice') <= FrameBytes
  BY <1>1 DEF SendInv
<1>9. CASE sum + n < AckBytes
  <2>1. /\ sum' = sum + n /\ pc' = "ack" /\ result' = "none"
        /\ sum' \in 0 .. AckBytes - 1 /\ Len(fromDevice') + sum' = AckBytes
    BY <1>1, <1>2, <1>3, <1>4, <1>5, <1>9
  <2>2. Received'
    BY <2>1, <1>6 DEF Received
  <2> QED
    BY <2>1, <2>2, <1>5, <1>6, <1>7, <1>8 DEF SendInv, Stamping, Sending
<1>10. CASE ~(sum + n < AckBytes)
  <2>1. Len(fromDevice') = 0
    BY <1>2, <1>3, <1>4, <1>5, <1>10
  <2>2. fromDevice' = <<>>
    BY <2>1, <1>5, NoPiece
  <2>3. CASE pc' = "read" /\ result' = result
    BY <2>3, <2>2, <1>1, <1>5, <1>6, <1>7, <1>8 DEF SendInv, Stamping, Sending
  <2>4. CASE Exit("failed")
    <3>1. pc' = "idle" /\ result' = "failed"
      BY <2>4 DEF Exit
    <3> QED
      BY <3>1, <1>1, <1>5, SendIdle
  <2> QED
    BY <1>3, <1>10, <2>3, <2>4
<1> QED
  BY <1>9, <1>10

LEMMA SendDeviceReads ==
  ASSUME DiskInv, SendInv, DeviceReads
  PROVE  SendInv'
<1>1. /\ UNCHANGED <<disk, pc, read, sum, result>> /\ pc # "idle" /\ Len(toDevice) >= FrameBytes
      /\ IsFile(frames) /\ IsFile(toDevice) /\ IsFile(fromDevice) /\ FrameBytes \in Nat \ {0}
      /\ AckBytes \in Nat \ {0} /\ Len(toDevice) \in Nat
  BY UpgradeAssumption DEF DeviceReads, SendInv, IsFile
<1>2. pc = "ack" /\ Unanswered /\ InFlight(FrameBytes) /\ sum = 0
  <2>1. Len(toDevice) # 0
    BY <1>1
  <2>2. toDevice # <<>>
    BY <2>1, EmptyFile
  <2>3. ~(pc = "write")
    BY <1>1 DEF SendInv, InFlight
  <2>4. pc \in Stamping \cup Sending \cup {"idle", "open"}
    BY DEF DiskInv
  <2> QED
    BY <2>2, <2>3, <1>1, <2>4 DEF SendInv, Quiet, Received, Sending
<1>3. /\ There("image") /\ read \in 0 .. Len(disk.image) /\ read > 0 /\ result = "none"
      /\ Len(toDevice) = FrameBytes /\ \A i \in 1 .. FrameBytes : toDevice[i] = Piece(read, i)
      /\ Len(frames) = read - 1 /\ fromDevice = <<>>
  BY <1>2 DEF SendInv, Sending, InFlight, Unanswered
<1>4. SubSeq(toDevice, 1, FrameBytes) = toDevice
  BY <1>1, <1>3, WholeFile
<1>5. frames' = Append(frames, toDevice)
  BY <1>4 DEF DeviceReads
<1>6. /\ IsFile(frames') /\ Len(frames') = read
      /\ \A k \in 1 .. read - 1 : frames'[k] = frames[k]
      /\ frames'[read] = toDevice
  <2>1. /\ IsFile(Append(frames, toDevice)) /\ Len(Append(frames, toDevice)) = Len(frames) + 1
        /\ \A k \in 1 .. Len(frames) : Append(frames, toDevice)[k] = frames[k]
        /\ Append(frames, toDevice)[Len(frames) + 1] = toDevice
    BY <1>1, FileAppend
  <2>2. Len(frames) + 1 = read
    BY <1>3
  <2> QED
    BY <2>1, <2>2, <1>3, <1>5
<1>7. toDevice' = <<>>
  <2>1. FrameBytes \in 0 .. Len(toDevice) /\ Len(toDevice) - FrameBytes = 0
    BY <1>1, <1>3
  <2>2. IsFile(SubSeq(toDevice, FrameBytes + 1, Len(toDevice)))
        /\ Len(SubSeq(toDevice, FrameBytes + 1, Len(toDevice))) = Len(toDevice) - FrameBytes
    BY <2>1, <1>1, FileRest
  <2> QED
    BY <2>1, <2>2, NoPiece DEF DeviceReads
<1>8. IsFile(fromDevice') /\ Len(fromDevice') = AckBytes
  <2>1. PICK answer : fromDevice' = fromDevice \o [i \in 1 .. AckBytes |-> answer]
    BY DEF DeviceReads
  <2> DEFINE h == [i \in 1 .. AckBytes |-> answer]
  <2>2. IsFile(h) /\ Len(h) = AckBytes
    BY <1>1 DEF IsFile
  <2>3. fromDevice' = fromDevice \o h
    BY <2>1
  <2> HIDE DEF h
  <2>4. IsFile(fromDevice \o h) /\ Len(fromDevice \o h) = Len(fromDevice) + Len(h)
    BY <1>1, <2>2, FileConcat
  <2>5. Len(fromDevice) = 0
    BY <1>3, EmptyFile
  <2> QED
    BY <2>2, <2>3, <2>4, <2>5, <1>1
<1>9. ASSUME NEW k \in 1 .. Len(frames'), NEW i \in 1 .. FrameBytes
      PROVE  frames'[k][i] = Piece(k, i)'
  <2>1. Piece(k, i)' = Piece(k, i)
    BY <1>1 DEF Piece
  <2>2. CASE k = read
    BY <2>1, <2>2, <1>3, <1>6
  <2>3. CASE k # read
    <3>1. k \in 1 .. read - 1 /\ k \in 1 .. Len(frames)
      BY <2>3, <1>3, <1>6
    <3> QED
      BY <3>1, <2>1, <1>6 DEF SendInv
  <2> QED
    BY <2>2, <2>3
<1>10. IsFile(toDevice') /\ Len(toDevice') <= FrameBytes
  BY <1>1, <1>7, EmptyFile
<1>11. Received'
  <2>1. Len(fromDevice') + sum' = AckBytes
    BY <1>1, <1>2, <1>8
  <2> QED
    BY <2>1, <1>1, <1>6, <1>7 DEF Received
<1>12. /\ There("image")' /\ read' \in 0 .. Len(disk'.image) /\ read' > 0 /\ pc' = "ack"
       /\ result' = "none" /\ sum' \in 0 .. AckBytes - 1
  BY <1>1, <1>2, <1>3 DEF There
<1> QED
  BY <1>6, <1>8, <1>9, <1>10, <1>11, <1>12 DEF SendInv, Stamping, Sending

LEMMA SendDeviceGone ==
  ASSUME SendInv, DeviceGone
  PROVE  SendInv'
<1>1. UNCHANGED <<disk, pc, read, sum, toDevice, frames, result>> /\ fromDevice' = <<>>
  BY DEF DeviceGone
<1>2. IsFile(fromDevice') /\ IsFile(frames') /\ IsFile(toDevice') /\ There("image")' = There("image")
  BY <1>1, EmptyFile DEF SendInv, IsFile, There
<1>3. \A k \in 1 .. Len(frames') : \A i \in 1 .. FrameBytes : frames'[k][i] = Piece(k, i)'
  BY <1>1 DEF SendInv, Piece
<1>4. /\ Quiet => Quiet'
      /\ Unanswered => Unanswered'
      /\ Received => Received'
      /\ InFlight(sum) => InFlight(sum)'
      /\ InFlight(FrameBytes) => InFlight(FrameBytes)'
  BY <1>1 DEF Quiet, Unanswered, Received, InFlight, Piece
<1> QED
  BY <1>1, <1>2, <1>3, <1>4 DEF SendInv

LEMMA SendKept ==
  ASSUME DiskInv, SendInv, [UpgradeNext]_upgradeVars
  PROVE  SendInv'
<1>1. CASE AckTimeout \/ PeerGone \/ Kill
  <2>1. /\ UNCHANGED <<disk, frames, toDevice, fromDevice>> /\ pc' = "idle" /\ result' = "failed"
    BY <1>1 DEF AckTimeout, PeerGone, Kill, Exit, wire
  <2>2. IsFile(fromDevice')
    BY <2>1 DEF SendInv, IsFile
  <2> QED
    BY <2>1, <2>2, SendIdle
<1>2. CASE UNCHANGED upgradeVars
  <2>1. UNCHANGED <<disk, pc, read, sum, toDevice, fromDevice, frames, result>>
    BY <1>2 DEF upgradeVars
  <2>2. /\ IsFile(fromDevice') /\ IsFile(frames') /\ IsFile(toDevice')
        /\ There("image")' = There("image")
    BY <2>1 DEF SendInv, IsFile, There
  <2>3. \A k \in 1 .. Len(frames') : \A i \in 1 .. FrameBytes : frames'[k][i] = Piece(k, i)'
    BY <2>1 DEF SendInv, Piece
  <2>4. /\ Quiet => Quiet'
        /\ Unanswered => Unanswered'
        /\ Received => Received'
        /\ InFlight(sum) => InFlight(sum)'
        /\ InFlight(FrameBytes) => InFlight(FrameBytes)'
    BY <2>1 DEF Quiet, Unanswered, Received, InFlight, Piece
  <2> QED
    BY <2>1, <2>2, <2>3, <2>4 DEF SendInv
<1> QED
  BY <1>1, <1>2, SendStart, SendStamping, SendOpenImage, SendReadUnit, SendWriteSome, SendReadSome,
     SendDeviceReads, SendDeviceGone DEF UpgradeNext, Tool

LEMMA UpgradeInvariant == UpgradeSpec => []UpgradeInv
<1>1. UpgradeInv /\ [UpgradeNext]_upgradeVars => UpgradeInv'
  BY DiskKept, SendKept DEF UpgradeInv
<1> QED
  BY <1>1, UpgradeStart, PTL DEF UpgradeSpec

(***************************************************************************)
(* Wherever the tool is killed, and however often it is started again, an  *)
(* image that is there is the firmware behind sound headers, and if it is  *)
(* not there then the file add_hisiHead wrote is: for firmware of any size *)
(* and any number of runs, unless the copying loop of test_client.c lost a *)
(* unit.  Between unlink and rename only the second file is there, and     *)
(* what makes it sound is that tmp is one header and the units read so     *)
(* far, all of them when the header is written.                            *)
(***************************************************************************)
THEOREM ImageAlwaysSurvives == UpgradeSpec => []ImageSurvives
<1>1. UpgradeInv => ImageSurvives
  BY Names DEF UpgradeInv, DiskInv, ImageSurvives
<1> QED
  BY <1>1, UpgradeInvariant, PTL

(***************************************************************************)
(* What the device has received of a connection is the beginning of the    *)
(* image, whole frames numbered one after the other, however write(2) cut  *)
(* them (writen) and read(2) the answers (readn); when send_file returns 0 *)
(* it is the whole image, and as many frames as each of them said: for     *)
(* images, frames and answers of any length.  The tool sends a frame only  *)
(* when the answer to the one before it is read to its last piece, so that *)
(* one frame at most is on the wire.                                       *)
(***************************************************************************)
THEOREM DeliveryIsWhole == UpgradeSpec => []DeliveredWhole
<1>1. ASSUME UpgradeInv
      PROVE  DeliveredWhole
  <2>1. FrameBytes \in Nat \ {0} /\ 1 \in 1 .. FrameBytes
    BY UpgradeAssumption
  <2>2. ASSUME NEW k \in 1 .. Len(frames), NEW i \in 1 .. FrameBytes
        PROVE  /\ frames[k][i][2] = i /\ frames[k][i][1].cur = k
               /\ frames[k][i][1].total = Len(disk.image) /\ frames[k][i][1].data = disk.image[k]
    <3> DEFINE unit == [cur |-> k, total |-> Len(disk.image), data |-> disk.image[k]]
    <3>1. frames[k][i] = <<unit, i>>
      BY <1>1 DEF UpgradeInv, SendInv, Piece
    <3>2. unit.cur = k /\ unit.total = Len(disk.image) /\ unit.data = disk.image[k]
      OBVIOUS
    <3> HIDE DEF unit
    <3>3. frames[k][i][1] = unit /\ frames[k][i][2] = i
      BY <3>1
    <3> QED
      BY <3>2, <3>3
  <2>3. ASSUME result = "sent"
        PROVE  /\ [k \in 1 .. Len(frames) |-> frames[k][1][1].data] = disk.image
               /\ \A k \in 1 .. Len(frames) : frames[k][1][1].total = Len(frames)
    <3>1. There("image") /\ Len(frames) = Len(disk.image)
      BY <1>1, <2>3 DEF UpgradeInv, SendInv
    <3>2. IsFile(disk.image)
      BY <1>1, <3>1, ImageIsFile DEF UpgradeInv
    <3>3. \A k \in 1 .. Len(frames) : frames[k][1][1].data = disk.image[k]
                                      /\ frames[k][1][1].total = Len(disk.image)
      BY <2>1, <2>2
    <3>4. [k \in 1 .. Len(frames) |-> frames[k][1][1].data] = [k \in 1 .. Len(disk.image) |-> disk.image[k]]
      BY <3>1, <3>3
    <3> QED
      BY <3>1, <3>2, <3>3, <3>4 DEF IsFile
  <2>4. Len(toDevice) <= FrameBytes
    BY <1>1 DEF UpgradeInv, SendInv
  <2> QED
    BY <2>2, <2>3, <2>4 DEF DeliveredWhole
<1> QED
  BY <1>1, UpgradeInvariant, PTL
=============================================================================
