------------------------------- MODULE Ketama -------------------------------
(***************************************************************************)
(* The consistent-hashing library Z_my_work_mem/test_client/ketama.c:      *)
(* processes that share one continuum in System V shared memory, made from *)
(* a file of servers that an administrator edits, next to a semaphore that *)
(* is set and read but never waited on.  One ketama_roll is a dozen steps, *)
(* between any two of which the others run.                                *)
(*                                                                         *)
(* A version of the file stands for its modification time and for the      *)
(* continuum made of it: two edits in one second are out of sight.  A read *)
(* or write of the segment is a step; those of a process come in program   *)
(* order.  A shmat may fail.  Segments are numbered in the order they are  *)
(* created; one that is removed stays with the processes attached to it.   *)
(***************************************************************************)
EXTENDS Integers, Sequences, SequencesExt

CONSTANTS Proc,
          Killed,       \* bound: those of them that may be killed
          Smoking,      \* bound: those of them that call ketama_smoke
          MaxVersion,   \* bound: the last version of the file
          Points,       \* Points[v]: the sorted points of version v, or <<>>
                        \* when the file defines no servers
          Hashes,       \* what keys hash to
          MaxSegments,  \* bound: how often the segment is created
          NoId          \* -1 of shmget, shmat and semget

ASSUME KetamaAssumption ==
  /\ MaxVersion \in Nat /\ MaxSegments \in Nat
  /\ Points \in [0 .. MaxVersion -> Seq(Nat)]
  /\ \A v \in 0 .. MaxVersion : \A i, j \in 1 .. Len(Points[v]) :
       i <= j => Points[v][i] <= Points[v][j]
  /\ Hashes \subseteq Nat
  /\ NoId \notin Nat

VARIABLES version,  \* the file's
          sem,      \* the semaphore's value, NoId when there is none
          seg,      \* the i-th segment: its words, and whether it is removed
          me,       \* each process: pc, and its variables
          cut,      \* history: segments a creation was cut short in, ran in
                    \* beside another, or stamped with a later version
          crossed   \* history: processes in whose segment a creation began
                    \* since they copied the number of points

ketamaVars == <<version, sem, seg, me, cut, crossed>>

Blank == [numpoints |-> 0, modtime |-> NoId, array |-> <<>>, removed |-> FALSE]

(* A process outside ketama_roll; sem tells whether the semaphore it has   *)
(* the id of is still there.  The ids it tracks for ketama_smoke are left  *)
(* out: of all it met, only the last can still be in use.                  *)
Fresh == [pc |-> "idle", sem |-> FALSE, time |-> NoId, data |-> NoId, rolled |-> FALSE,
          read |-> NoId, write |-> NoId, stamp |-> NoId, numpoints |-> 0]

(* shmget of the one key: the segment that is not removed, if any.         *)
SegGet == LET ids == {i \in 1 .. Len(seg) : ~seg[i].removed}
          IN IF ids = {} THEN NoId ELSE CHOOSE i \in ids : TRUE

(* SETVAL, which fails on a semaphore that is removed.                     *)
SemSet(p, val) == IF me[p].sem THEN val ELSE sem

Go(p, pc) == me' = [me EXCEPT ![p].pc = pc]

KetamaInit ==
  /\ version = 0 /\ sem = NoId /\ seg = <<>>
  /\ me = [p \in Proc |-> Fresh]
  /\ cut = {} /\ crossed = {}

(***************************************************************************)
(* ketama_roll                                                             *)
(***************************************************************************)
(* ketama_sem_init: a semaphore that is there is used as it is.            *)
RollStart(p) ==
  /\ me[p].pc \in {"idle", "ready"}
  /\ me' = [me EXCEPT ![p] = [Fresh EXCEPT !.sem = sem # NoId,
                                           !.pc = IF sem = NoId THEN "create" ELSE "wait"]]
  /\ UNCHANGED <<version, sem, seg, cut, crossed>>

(* One that is not is created, in the meantime perhaps by another process; *)
SemCreate(p) ==
  /\ me[p].pc = "create"
  /\ sem' = IF sem = NoId THEN 0 ELSE sem
  /\ me' = [me EXCEPT ![p].sem = TRUE, ![p].pc = "unlock"]
  /\ UNCHANGED <<version, seg, cut, crossed>>

(* and set to 1, whatever its value is by then.                            *)
SemUnlock(p) ==
  /\ me[p].pc = "unlock"
  /\ sem' = SemSet(p, 1) /\ Go(p, "wait")
  /\ UNCHANGED <<version, seg, cut, crossed>>

(* "wait for the continuum creator to finish", a second at most; then the  *)
(* creator's lock is taken away.                                           *)
Waited(p) ==
  /\ me[p].pc = "wait" /\ ~(me[p].sem /\ sem = 2)
  /\ Go(p, "stat")
  /\ UNCHANGED <<version, sem, seg, cut, crossed>>

GiveUp(p) ==
  /\ me[p].pc = "wait" /\ me[p].sem /\ sem = 2
  /\ sem' = SemSet(p, 1) /\ Go(p, "stat")
  /\ UNCHANGED <<version, seg, cut, crossed>>

(* The file's time is read once, before the loop.                          *)
Stat(p) ==
  /\ me[p].pc = "stat"
  /\ me' = [me EXCEPT ![p].time = version, ![p].pc = "attach"]
  /\ UNCHANGED <<version, sem, seg, cut, crossed>>

(* A turn of the loop: a first turn with a segment only looks at it.  What *)
(* a later turn attaches here it replaces before it reads it.              *)
Attach(p) ==
  /\ me[p].pc = "attach"
  /\ \E id \in {SegGet, NoId} :
       LET looks == id # NoId /\ ~me[p].rolled
       IN me' = [me EXCEPT ![p].data = IF looks THEN id ELSE NoId, ![p].rolled = FALSE,
                           ![p].pc = IF looks THEN "use" ELSE "lock"]
  /\ UNCHANGED <<version, sem, seg, cut, crossed>>

Lock(p) ==
  /\ me[p].pc = "lock"
  /\ sem' = SemSet(p, 2) /\ Go(p, "read")
  /\ UNCHANGED <<version, seg, cut, crossed>>

(* ketama_create_continuum.  The servers are read;                         *)
ReadServers(p) ==
  /\ me[p].pc = "read"
  /\ me' = [me EXCEPT ![p].read = version,
                      ![p].pc = IF Points[version] = <<>> THEN "refuse" ELSE "open"]
  /\ UNCHANGED <<version, sem, seg, cut, crossed>>

Refuse(p) ==
  /\ me[p].pc = "refuse"
  /\ sem' = SemSet(p, 1)
  /\ me' = [me EXCEPT ![p] = Fresh]
  /\ UNCHANGED <<version, seg, cut, crossed>>

(* the segment is opened or created, and attached or not;                  *)
OpenSegment(p) ==
  /\ me[p].pc = "open"
  /\ LET id == IF SegGet = NoId THEN Len(seg) + 1 ELSE SegGet
     IN /\ seg' = IF SegGet = NoId THEN Append(seg, Blank) ELSE seg
        /\ \/ me' = [me EXCEPT ![p].write = id, ![p].pc = "stamp"]
           \/ Go(p, "refuse")
  /\ UNCHANGED <<version, sem, cut, crossed>>

(* the file's time is read again;                                          *)
Stamp(p) ==
  /\ me[p].pc = "stamp"
  /\ me' = [me EXCEPT ![p].stamp = version, ![p].pc = "numpoints"]
  /\ UNCHANGED <<version, sem, seg, cut, crossed>>

(* and three memcpy fill the segment, of which others that look at it see  *)
(* any part.                                                               *)
Filling(p) == me[p].pc \in {"numpoints", "modtime", "array"}

(* The first is made, the last is not.                                     *)
Midway(p) == me[p].pc \in {"modtime", "array"}

Fill(p, field, value, next) ==
  /\ me[p].pc = field
  /\ seg' = [seg EXCEPT ![me[p].write] = [seg[me[p].write] EXCEPT ![field] = value]]
  /\ Go(p, next)
  /\ cut' = IF me[p].stamp # me[p].read \/ \E q \in Proc \ {p} : Filling(q)
            THEN cut \cup {me[p].write} ELSE cut
  /\ crossed' = IF field = "numpoints"
                THEN crossed \cup {q \in Proc : me[q].pc = "compare" /\ me[q].data = me[p].write}
                ELSE crossed
  /\ UNCHANGED <<version, sem>>

WriteContinuum(p) ==
  \/ Fill(p, "numpoints", Len(Points[me[p].read]), "modtime")
  \/ Fill(p, "modtime", me[p].stamp, "array")
  \/ Fill(p, "array", Points[me[p].read], "reattach")

(* The new continuum is attached again, unless another process removed it  *)
(* or shmat fails.                                                         *)
Reattach(p) ==
  /\ me[p].pc = "reattach"
  /\ \E id \in {SegGet, NoId} :
       me' = [me EXCEPT ![p].data = id, ![p].read = NoId, ![p].write = NoId,
                        ![p].stamp = NoId, ![p].pc = "release"]
  /\ UNCHANGED <<version, sem, seg, cut, crossed>>

Release(p) ==
  /\ me[p].pc = "release"
  /\ sem' = SemSet(p, 1) /\ Go(p, "use")
  /\ UNCHANGED <<version, seg, cut, crossed>>

(* The number of points is copied, the rest used where it is.              *)
Count(p) ==
  /\ me[p].pc = "use"
  /\ me' = [me EXCEPT ![p] =
       IF me[p].data = NoId THEN Fresh
       ELSE [me[p] EXCEPT !.numpoints = seg[me[p].data].numpoints, !.rolled = TRUE,
                          !.pc = "compare"]]
  /\ UNCHANGED <<version, sem, seg, cut, crossed>>

Returned(p) == [me[p] EXCEPT !.rolled = FALSE, !.time = NoId, !.pc = "ready"]

WrongCompare(p) ==
  /\ me[p].pc = "compare"
  /\ me' = [me EXCEPT ![p] = Returned(p)]
  /\ crossed' = crossed \ {p}
  /\ UNCHANGED <<version, sem, seg, cut>>

(* Another turn when the time in the segment is by now not the one read    *)
(* before the loop; the copy is made anew then.                            *)
Compare(p) ==
  /\ me[p].pc = "compare"
  /\ me' = [me EXCEPT ![p] =
       IF seg[me[p].data].modtime # me[p].time
       THEN [me[p] EXCEPT !.numpoints = 0, !.pc = "attach"]
       ELSE Returned(p)]
  /\ crossed' = crossed \ {p}
  /\ UNCHANGED <<version, sem, seg, cut>>

Roll(p) ==
  \/ RollStart(p) \/ SemCreate(p) \/ SemUnlock(p) \/ Waited(p) \/ GiveUp(p) \/ Stat(p)
  \/ Attach(p) \/ Lock(p) \/ ReadServers(p) \/ Refuse(p) \/ OpenSegment(p) \/ Stamp(p)
  \/ WriteContinuum(p) \/ Reattach(p) \/ Release(p)
  \/ Count(p) \/ Compare(p)

(***************************************************************************)
(* ketama_smoke removes the semaphore for all, then the segment.           *)
(***************************************************************************)
SmokeSem(p) ==
  /\ p \in Smoking /\ me[p].pc = "ready" /\ Len(seg) < MaxSegments
  /\ sem' = SemSet(p, NoId)
  /\ me' = [q \in Proc |-> IF q = p THEN [me[p] EXCEPT !.sem = FALSE, !.pc = "smoke"]
                           ELSE [me[q] EXCEPT !.sem = me[q].sem /\ ~me[p].sem]]
  /\ UNCHANGED <<version, seg, cut, crossed>>

SmokeSegment(p) ==
  /\ me[p].pc = "smoke"
  /\ seg' = [i \in 1 .. Len(seg) |-> IF i = me[p].data THEN [seg[i] EXCEPT !.removed = TRUE]
                                                      ELSE seg[i]]
  /\ me' = [me EXCEPT ![p] = Fresh]
  /\ UNCHANGED <<version, sem, cut, crossed>>

Smoke(p) == SmokeSem(p) \/ SmokeSegment(p)

(* A process is killed, also between locking and unlocking.                *)
Die(p) ==
  /\ p \in Killed /\ me[p].pc \notin {"idle", "ready"}
  /\ me' = [me EXCEPT ![p] = Fresh]
  /\ cut' = IF Midway(p) THEN cut \cup {me[p].write} ELSE cut
  /\ crossed' = crossed \ {p}
  /\ UNCHANGED <<version, sem, seg>>

(* The administrator writes the file.                                      *)
Edit ==
  /\ version < MaxVersion
  /\ version' = version + 1
  /\ UNCHANGED <<sem, seg, me, cut, crossed>>

KetamaNext == Edit \/ \E p \in Proc : Roll(p) \/ Smoke(p) \/ Die(p)

Rolling(p) == me[p].pc \notin {"idle", "ready", "smoke"}

KetamaFairness == \A p \in Proc : WF_ketamaVars(Roll(p) /\ Rolling(p))

KetamaSpec == KetamaInit /\ [][KetamaNext]_ketamaVars /\ KetamaFairness

(***************************************************************************)
(* ketama_get_server: the index, from 0, of the point found for hash h.    *)
(***************************************************************************)
WrongGetServer(h, n, points) ==
  LET Point(i) == points[i + 1]
      Search[range \in (0 .. n + 1) \X (-1 .. n)] ==
        LET lowp == range[1]
            highp == range[2]
            midp == (lowp + highp) \div 2
            before == IF midp = 0 THEN 0 ELSE Point(midp - 1)
        IN IF midp = n THEN 0
           ELSE IF h < Point(midp) /\ h > before THEN midp
           ELSE LET low == IF Point(midp) < h THEN midp + 1 ELSE lowp
                    high == IF Point(midp) < h THEN highp ELSE midp - 1
                IN IF low > high THEN 0 ELSE Search[<<low, high>>]
  IN Search[<<0, n>>]

GetServer(h, n, points) ==
  LET Point(i) == points[i + 1]
      Search[range \in (0 .. n + 1) \X (-1 .. n)] ==
        LET lowp == range[1]
            highp == range[2]
            midp == (lowp + highp) \div 2
            before == IF midp = 0 THEN 0 ELSE Point(midp - 1)
        IN IF midp = n THEN 0
           ELSE IF h <= Point(midp) /\ h > before THEN midp
           ELSE LET low == IF Point(midp) < h THEN midp + 1 ELSE lowp
                    high == IF Point(midp) < h THEN highp ELSE midp - 1
                IN IF low > high THEN 0 ELSE Search[<<low, high>>]
  IN Search[<<0, n>>]

(* "server with next biggest point after what this key hashes to", from    *)
(* the first again behind the last.                                        *)
NextPoint(h, points) ==
  LET above == {i \in 1 .. Len(points) : points[i] >= h}
  IN IF above = {} THEN points[1] ELSE points[CHOOSE i \in above : \A j \in above : i <= j]

-----------------------------------------------------------------------------
(* The continuum in segment s is that of the version it is stamped with,   *)
(* and n the number of its points.                                         *)
Whole(s, n) ==
  /\ s.modtime # NoId
  /\ s.array = Points[s.modtime]
  /\ n = Len(s.array)

(***************************************************************************)
(* The semaphore is no lock: processes pass it together, set it back for   *)
(* each other and lose patience with it.  Still, a roll that returns 1     *)
(* leaves the process with the time it asked for, the points of that       *)
(* version and their number, unless, by then, another process is midway in *)
(* that very segment, or a creation in it was cut short, ran beside        *)
(* another, or met an edit of the file; and the number alone may be an     *)
(* older one when a creation began between the reads of number and time.   *)
(***************************************************************************)
RollWhole ==
  [][\A p \in Proc :
       me[p].pc = "compare" /\ me'[p].pc = "ready" =>
         \/ LET s == seg[me[p].data]
            IN /\ s.modtime = me[p].time
               /\ s.array = Points[s.modtime]
               /\ p \in crossed \/ me'[p].numpoints = Len(s.array)
         \/ \E q \in Proc \ {p} : Midway(q) /\ me[q].write = me[p].data
         \/ me[p].data \in cut]_ketamaVars

(***************************************************************************)
(* A roll returns, also when the process that locked the semaphore died,   *)
(* unless the file is edited after its time was read: then it may create   *)
(* the continuum for ever, each time with a time it does not look for.     *)
(***************************************************************************)
RollReturns ==
  \A p \in Proc : Rolling(p) ~> ~Rolling(p) \/ me[p].time \notin {NoId, version}

(***************************************************************************)
(* The search of a ready process finds the server of the next point, for   *)
(* hashes on, between, below and above the points, also of two servers     *)
(* that share a point.                                                     *)
(***************************************************************************)
GetServerTrue ==
  \A p \in Proc :
    LET s == seg[me[p].data]
    IN me[p].pc = "ready" /\ Whole(s, me[p].numpoints) =>
         \A h \in Hashes :
           s.array[GetServer(h, me[p].numpoints, s.array) + 1] = NextPoint(h, s.array)
=============================================================================
