------------------------- MODULE AeFileEventsProofs -------------------------
(***************************************************************************)
(* The safety properties of the file events hold for any number of         *)
(* descriptors, any sizes of the table and any handlers: TypeOK,           *)
(* KernelAgrees and ValidDispatch of AeFileEvents are invariants.          *)
(***************************************************************************)
EXTENDS AeFileEvents, FiniteSetTheorems, WellFoundedInduction, TLAPS

Typed ==
  /\ mask \in [Fds -> SUBSET Modes]
  /\ setsize \in SetSizes
  /\ opened \subseteq Fds /\ interest \in [Fds -> SUBSET Modes]
  /\ ready \in [Fds -> Conditions]
  /\ closed \subseteq Fds

(* maxfd is registered, and nothing above it is.                           *)
MaxfdHighest ==
  /\ maxfd \in Fds /\ maxfd < setsize /\ mask[maxfd] # {}
  /\ \A fd \in Fds : fd < setsize /\ mask[fd] # {} => fd <= maxfd

ListenerStays == Listener < setsize /\ mask[Listener] # {}

(* What is not open is not registered, and what was closed is not open.    *)
ClosedIsUnregistered ==
  /\ \A fd \in Fds \ opened : fd < setsize => mask[fd] = {}
  /\ closed \cap opened = {}

TableInv == Typed /\ MaxfdHighest /\ ListenerStays /\ ClosedIsUnregistered /\ KernelAgrees

(* Where the thread is, and what it has of the batch.  The table is never  *)
(* resized while events of a batch are pending.                            *)
BatchInv ==
  /\ step \in {"poll", "next", "read", "write"}
  /\ step = "poll" => batch = {} /\ cur = NoEvent
  /\ step \in {"read", "write"} => cur.fd \in Fds /\ cur.fd < setsize
  /\ \A e \in batch : e.fd \in Fds /\ e.fd < setsize /\ e.mask \subseteq Modes
  /\ cur.fd \in Fds \cup {-1} /\ cur.mask \subseteq Modes

FileInv == TableInv /\ BatchInv /\ ValidDispatch

-----------------------------------------------------------------------------
(* A non-empty set of descriptors has a highest element: the one with the  *)
(* least set of descriptors from it on.                                    *)
LEMMA HighestExists ==
  ASSUME NEW used \in SUBSET Fds, used # {}
  PROVE  \E x \in used : \A y \in used : y <= x
<1> DEFINE Upwards == {x .. MaxFd : x \in used}
           R == StrictSubsetOrdering(Nat)
           F == FiniteSubsetsOf(Nat)
<1>1. IsWellFoundedOn(R, F)
  BY FS_StrictSubsetOrderingWellFounded
<1>2. MaxFd \in Nat /\ used \subseteq Nat
  BY FileAssumption DEF Fds
<1>3. Upwards \subseteq F
  <2>1. \A x \in Nat : IsFiniteSet(x .. MaxFd)
    BY <1>2, FS_Interval
  <2> QED
    BY <1>2, <2>1 DEF FiniteSubsetsOf
<1>4. Upwards # {}
  OBVIOUS
<1>5. \E b \in Upwards : \A c \in Upwards : ~(<<c, b>> \in R)
  <2> HIDE DEF Upwards, R, F
  <2> QED
    BY <1>1, <1>3, <1>4, WFMin
<1>6. PICK x \in used : \A y \in used : ~(<<y .. MaxFd, x .. MaxFd>> \in R)
  BY <1>5
<1>7. \A y \in used : ~(x < y)
  <2> SUFFICES ASSUME NEW y \in used, x < y
               PROVE  <<y .. MaxFd, x .. MaxFd>> \in R
    BY <1>6
  <2>1. y .. MaxFd \subseteq x .. MaxFd /\ x \notin y .. MaxFd /\ x \in x .. MaxFd
    BY <1>2 DEF Fds
  <2>2. x .. MaxFd \subseteq Nat
    BY <1>2
  <2> QED
    BY <2>1, <2>2 DEF StrictSubsetOrdering
<1> QED
  BY <1>2, <1>7

LEMMA HighestIs ==
  ASSUME NEW mk, NEW below, \E fd \in Fds : fd < below /\ mk[fd] # {}
  PROVE  /\ Highest(mk, below) \in Fds /\ Highest(mk, below) < below
         /\ mk[Highest(mk, below)] # {}
         /\ \A fd \in Fds : fd < below /\ mk[fd] # {} => fd <= Highest(mk, below)
<1> DEFINE used == {fd \in Fds : fd < below /\ mk[fd] # {}}
           x == CHOOSE e \in used : \A y \in used : y <= e
<1>1. used # {} /\ used \in SUBSET Fds
  OBVIOUS
<1>2. x \in used /\ \A y \in used : y <= x
  <2> HIDE DEF used
  <2> QED
    BY <1>1, HighestExists
<1>3. Highest(mk, below) = x
  BY <1>1 DEF Highest
<1> HIDE DEF x
<1> QED
  BY <1>2, <1>3

LEMMA HighestOnly ==
  ASSUME NEW mk, NEW below, NEW top \in Fds, top < below, mk[top] # {},
         \A fd \in Fds : fd < below /\ mk[fd] # {} => fd <= top
  PROVE  Highest(mk, below) = top
<1>1. MaxFd \in Nat
  BY FileAssumption
<1> QED
  BY <1>1, HighestIs DEF Fds

LEMMA Sizes == FileAssumption => Fds \subseteq Nat /\ SetSizes \subseteq Nat /\ Listener \in Fds
  BY DEF FileAssumption, Fds

-----------------------------------------------------------------------------
(* aeCreateFileEvent and aeDeleteFileEvent keep the table, the kernel's    *)
(* set and maxfd in agreement.                                             *)
LEMMA CreateKeeps ==
  ASSUME TableInv, NEW fd \in Fds, NEW m \in SUBSET Modes, m # {},
         CreateFileEvent(fd, m),
         fd \in opened', opened \subseteq opened', opened' \subseteq Fds,
         closed' \subseteq closed, closed' \cap opened' = {},
         ready' \in [Fds -> Conditions]
  PROVE  TableInv' /\ setsize' = setsize
<1>1. Fds \subseteq Nat /\ SetSizes \subseteq Nat /\ Listener \in Fds
  BY Sizes, FileAssumption
<1>2. CASE CreateFails(fd)
  <2>1. UNCHANGED <<mask, setsize, maxfd, interest>>
    BY <1>2 DEF CreateFileEvent, table
  <2> QED
    BY <2>1 DEF TableInv, Typed, MaxfdHighest, ListenerStays, ClosedIsUnregistered, KernelAgrees
<1>3. CASE ~CreateFails(fd)
  <2>1. /\ mask' = [mask EXCEPT ![fd] = mask[fd] \cup m]
        /\ interest' = [interest EXCEPT ![fd] = mask[fd] \cup m]
        /\ maxfd' = IF fd > maxfd THEN fd ELSE maxfd
        /\ setsize' = setsize /\ fd < setsize
    BY <1>1, <1>3 DEF CreateFileEvent, CreateFails, TableInv, Typed
  <2>2. Typed'
    BY <2>1 DEF TableInv, Typed
  <2>3. MaxfdHighest'
    BY <1>1, <2>1 DEF TableInv, Typed, MaxfdHighest
  <2>4. ListenerStays'
    BY <1>1, <2>1 DEF TableInv, Typed, ListenerStays
  <2>5. ClosedIsUnregistered'
    BY <2>1 DEF TableInv, Typed, ClosedIsUnregistered
  <2>6. KernelAgrees'
    BY <2>1 DEF TableInv, Typed, KernelAgrees
  <2> QED
    BY <2>1, <2>2, <2>3, <2>4, <2>5, <2>6 DEF TableInv
<1> QED
  BY <1>2, <1>3

LEMMA DeleteKeeps ==
  ASSUME TableInv, NEW fd \in Fds, fd # Listener, NEW m \in SUBSET Modes,
         DeleteFileEvent(fd, m),
         opened' \subseteq Fds, closed' \subseteq Fds, closed' \cap opened' = {},
         \A g \in Fds \ opened' : g \in opened => g = fd /\ m = Modes,
         ready' \in [Fds -> Conditions]
  PROVE  TableInv' /\ setsize' = setsize
<1>1. Fds \subseteq Nat /\ SetSizes \subseteq Nat /\ Listener \in Fds
  BY Sizes, FileAssumption
<1>2. /\ setsize' = setsize
      /\ mask' = [mask EXCEPT ![fd] = IF fd < setsize THEN mask[fd] \ m ELSE mask[fd]]
      /\ maxfd' = IF fd = maxfd /\ mask'[fd] = {} THEN Highest(mask, maxfd) ELSE maxfd
      /\ interest' = IF fd < setsize /\ mask[fd] # {}
                     THEN [interest EXCEPT ![fd] = IF interest[fd] = {} THEN {} ELSE mask[fd] \ m]
                     ELSE interest
  BY DEF DeleteFileEvent, Deleted, MaxfdAfter, InterestAfter
<1>3. Typed'
  BY <1>2 DEF TableInv, Typed
<1>4. ListenerStays'
  BY <1>1, <1>2 DEF TableInv, Typed, ListenerStays
<1>5. MaxfdHighest'
  <2>1. CASE fd = maxfd /\ mask'[fd] = {}
    <3>1. Listener < maxfd /\ mask[Listener] # {}
      BY <1>1, <1>2, <2>1 DEF TableInv, Typed, ListenerStays, MaxfdHighest
    <3>2. /\ maxfd' \in Fds /\ maxfd' < maxfd /\ mask[maxfd'] # {}
          /\ \A g \in Fds : g < maxfd /\ mask[g] # {} => g <= maxfd'
      BY <1>1, <1>2, <2>1, <3>1, HighestIs
    <3> QED
      BY <1>1, <1>2, <2>1, <3>2 DEF TableInv, Typed, MaxfdHighest
  <2>2. CASE ~(fd = maxfd /\ mask'[fd] = {})
    BY <1>1, <1>2, <2>2 DEF TableInv, Typed, MaxfdHighest
  <2> QED
    BY <2>1, <2>2
<1>6. ClosedIsUnregistered'
  BY <1>2 DEF TableInv, Typed, ClosedIsUnregistered
<1>7. KernelAgrees'
  BY <1>2 DEF TableInv, Typed, KernelAgrees
<1> QED
  BY <1>2, <1>3, <1>4, <1>5, <1>6, <1>7 DEF TableInv

LEMMA CloseKeeps ==
  ASSUME TableInv, NEW fd \in opened \ {Listener}, Close(fd)
  PROVE  TableInv' /\ setsize' = setsize
<1>1. fd \in Fds /\ opened \subseteq Fds /\ closed \subseteq Fds /\ closed \cap opened = {}
  BY DEF TableInv, Typed, ClosedIsUnregistered
<1>2. /\ DeleteFileEvent(fd, Modes)
      /\ opened' = opened \ {fd} /\ closed' = closed \cup {fd}
      /\ ready' \in [Fds -> Conditions]
  BY FileAssumption DEF Close, TableInv, Typed
<1> QED
  BY <1>1, <1>2, DeleteKeeps

LEMMA ResizeKeeps ==
  ASSUME TableInv, NEW size \in SetSizes, Resize(size), UNCHANGED <<kernel, ready, closed>>
  PROVE  TableInv'
<1>1. Fds \subseteq Nat /\ SetSizes \subseteq Nat /\ Listener \in Fds
  BY Sizes, FileAssumption
<1>2. /\ maxfd < size /\ setsize' = size /\ maxfd' = maxfd
      /\ mask' = [fd \in Fds |-> IF fd >= size THEN {"w"} ELSE IF fd > maxfd THEN {} ELSE mask[fd]]
      /\ opened' = opened /\ interest' = interest /\ ready' = ready /\ closed' = closed
  BY DEF Resize, InitSlots, Garbage, kernel
<1>3. Typed'
  BY <1>2 DEF TableInv, Typed, Modes
<1>4. ListenerStays' /\ MaxfdHighest'
  BY <1>1, <1>2 DEF TableInv, Typed, ListenerStays, MaxfdHighest
<1>5. ClosedIsUnregistered'
  BY <1>1, <1>2 DEF TableInv, Typed, ClosedIsUnregistered, MaxfdHighest
<1>6. KernelAgrees'
  BY <1>1, <1>2 DEF TableInv, Typed, KernelAgrees, MaxfdHighest
<1> QED
  BY <1>3, <1>4, <1>5, <1>6 DEF TableInv

-----------------------------------------------------------------------------
(* A handler is called for a valid event: its descriptor is registered, so *)
(* open, so not one that was closed.                                       *)
LEMMA HandlerKeeps ==
  ASSUME TableInv, NEW fd \in opened, HandlerCode(fd)
  PROVE  TableInv' /\ setsize' = setsize
<1>1. /\ opened \subseteq Fds /\ closed \subseteq Fds /\ closed \cap opened = {}
      /\ ready \in [Fds -> Conditions] /\ fd \in Fds
  BY DEF TableInv, Typed, ClosedIsUnregistered
<1>2. CASE UNCHANGED <<table, kernel, ready, closed>>
  BY <1>2 DEF table, kernel, TableInv, Typed, MaxfdHighest, ListenerStays, ClosedIsUnregistered,
              KernelAgrees
<1>3. ASSUME NEW m \in {{"r"}, {"w"}}, CreateFileEvent(fd, m), UNCHANGED <<opened, ready, closed>>
      PROVE  TableInv' /\ setsize' = setsize
  <2>1. m \in SUBSET Modes /\ m # {}
    BY DEF Modes
  <2> QED
    BY <1>1, <1>3, <2>1, CreateKeeps
<1>4. ASSUME fd # Listener, NEW m \in {{"r"}, {"w"}}, DeleteFileEvent(fd, m),
             UNCHANGED <<opened, ready, closed>>
      PROVE  TableInv' /\ setsize' = setsize
  <2>1. m \in SUBSET Modes
    BY DEF Modes
  <2> QED
    BY <1>1, <1>4, <2>1, DeleteKeeps
<1>5. ASSUME NEW g \in opened \ {Listener}, Close(g)
      PROVE  TableInv' /\ setsize' = setsize
  BY <1>5, CloseKeeps
<1>6. CASE Accept
  <2>1. PICK g \in Fds \ opened :
          /\ CreateFileEvent(g, {"r"})
          /\ opened' = opened \cup {g} /\ closed' = closed \ {g} /\ UNCHANGED ready
    BY <1>6 DEF Accept
  <2>2. {"r"} \in SUBSET Modes /\ {"r"} # {}
    BY DEF Modes
  <2>3. /\ g \in opened' /\ opened \subseteq opened' /\ opened' \subseteq Fds
        /\ closed' \subseteq closed /\ closed' \cap opened' = {} /\ ready' \in [Fds -> Conditions]
    BY <1>1, <2>1
  <2> QED
    BY <2>1, <2>2, <2>3, CreateKeeps
<1> QED
  BY <1>2, <1>3, <1>4, <1>5, <1>6 DEF HandlerCode

LEMMA ValidIsOpen ==
  ASSUME TableInv, cur.fd \in Fds, cur.fd < setsize, NEW dir, Valid(dir)
  PROVE  cur.fd \in opened /\ cur.fd \notin closed
  BY DEF TableInv, ClosedIsUnregistered, Valid

(* A step that leaves the table and the kernel alone.                      *)
LEMMA TableUnchanged ==
  ASSUME TableInv, UNCHANGED <<table, kernel, closed>>, ready' \in [Fds -> Conditions]
  PROVE  TableInv' /\ setsize' = setsize
  BY DEF table, kernel, TableInv, Typed, MaxfdHighest, ListenerStays, ClosedIsUnregistered,
         KernelAgrees

LEMMA FileInvInit == Init => FileInv
<1> SUFFICES ASSUME Init PROVE FileInv
  OBVIOUS
<1>1. Fds \subseteq Nat /\ SetSizes \subseteq Nat /\ Listener \in Fds /\ {} \in Conditions
  BY Sizes, FileAssumption
<1>2. TableInv
  BY <1>1 DEF Init, TableInv, Typed, MaxfdHighest, ListenerStays, ClosedIsUnregistered,
              KernelAgrees, Modes
<1>3. BatchInv /\ ValidDispatch
  BY DEF Init, BatchInv, ValidDispatch, NoCall, NoEvent
<1> QED
  BY <1>2, <1>3 DEF FileInv

LEMMA OutsideKeeps == FileInv /\ Outside => FileInv'
<1> SUFFICES ASSUME FileInv, Outside PROVE FileInv'
  OBVIOUS
<1>1. TableInv /\ BatchInv /\ ValidDispatch
  BY DEF FileInv
<1>2. /\ opened \subseteq Fds /\ closed \subseteq Fds /\ closed \cap opened = {}
      /\ ready \in [Fds -> Conditions]
  BY <1>1 DEF TableInv, Typed, ClosedIsUnregistered
<1>3. step = "poll" /\ batch = {} /\ cur = NoEvent /\ UNCHANGED <<batch, cur, step, called>>
  BY <1>1 DEF Outside, BatchInv
<1>4. BatchInv' /\ ValidDispatch'
  BY <1>1, <1>3 DEF BatchInv, ValidDispatch, NoEvent
<1>5. ASSUME NEW fd \in opened \ {Listener}, NEW m \in {{"r"}, {"w"}},
             CreateFileEvent(fd, m) \/ DeleteFileEvent(fd, m), UNCHANGED <<opened, ready, closed>>
      PROVE  TableInv'
  <2>1. m \in SUBSET Modes /\ m # {}
    BY DEF Modes
  <2>2. CASE CreateFileEvent(fd, m)
    BY <1>1, <1>2, <1>5, <2>1, <2>2, CreateKeeps
  <2>3. CASE DeleteFileEvent(fd, m)
    BY <1>1, <1>2, <1>5, <2>1, <2>3, DeleteKeeps
  <2> QED
    BY <1>5, <2>2, <2>3
<1>6. ASSUME NEW size \in SetSizes, Resize(size), UNCHANGED <<kernel, ready, closed>>
      PROVE  TableInv'
  BY <1>1, <1>6, ResizeKeeps
<1>7. ASSUME NEW fd \in opened \ {Listener}, Close(fd)
      PROVE  TableInv'
  BY <1>1, <1>7, CloseKeeps
<1>8. TableInv'
  BY <1>5, <1>6, <1>7 DEF Outside
<1> QED
  BY <1>4, <1>8 DEF FileInv

LEMMA DispatchKeeps == FileInv /\ Dispatch => FileInv'
<1> SUFFICES ASSUME FileInv, Dispatch PROVE FileInv'
  OBVIOUS
<1>1. TableInv /\ BatchInv /\ ValidDispatch /\ ready \in [Fds -> Conditions]
  BY DEF FileInv, TableInv, Typed
<1>2. CASE Poll
  <2>1. ASSUME NEW fd \in Fds, Reported(fd) # {}
        PROVE  fd < setsize /\ FiredMask(Reported(fd)) \subseteq Modes
    <3>1. interest[fd] # {}
      BY <2>1 DEF Reported
    <3>2. setsize \in Nat /\ fd \in Nat
      BY <1>1, Sizes, FileAssumption DEF TableInv, Typed
    <3> QED
      BY <1>1, <3>1, <3>2 DEF TableInv, KernelAgrees, FiredMask, Modes
  <2>2. TableInv' /\ setsize' = setsize
    <3>1. UNCHANGED <<table, kernel, ready>> /\ closed' = {}
      BY <1>2 DEF Poll
    <3> QED
      BY <1>1, <3>1 DEF table, kernel, TableInv, Typed, MaxfdHighest, ListenerStays,
                        ClosedIsUnregistered, KernelAgrees
  <2>3. BatchInv'
    BY <1>1, <1>2, <2>1, <2>2 DEF Poll, BatchInv
  <2>4. ValidDispatch'
    BY <1>2 DEF Poll, ValidDispatch, NoCall
  <2> QED
    BY <2>2, <2>3, <2>4 DEF FileInv
<1>3. CASE NextEvent
  <2>1. TableInv' /\ setsize' = setsize
    BY <1>1, <1>3, TableUnchanged DEF NextEvent
  <2>2. BatchInv'
    BY <1>1, <1>3, <2>1 DEF NextEvent, BatchInv, NoEvent
  <2>3. ValidDispatch'
    BY <1>3 DEF NextEvent, ValidDispatch, NoCall
  <2> QED
    BY <2>1, <2>2, <2>3 DEF FileInv
<1>4. ASSUME NEW dir, Valid(dir), Call(dir), step \in {"read", "write"}
      PROVE  TableInv' /\ setsize' = setsize /\ ValidDispatch'
  <2>1. cur.fd \in opened /\ cur.fd \notin closed
    BY <1>1, <1>4, ValidIsOpen DEF BatchInv
  <2>2. TableInv' /\ setsize' = setsize
    BY <1>1, <1>4, <2>1, HandlerKeeps DEF Call
  <2> QED
    BY <1>4, <2>1, <2>2 DEF Call, ValidDispatch
<1>5. CASE ReadStep
  <2>1. TableInv' /\ setsize' = setsize /\ ValidDispatch'
    <3>1. CASE Valid("r")
      BY <1>4, <1>5, <3>1 DEF ReadStep
    <3>2. CASE ~Valid("r")
      BY <1>1, <1>5, <3>2, TableUnchanged DEF ReadStep, ValidDispatch, NoCall
    <3> QED
      BY <3>1, <3>2
  <2>2. BatchInv'
    BY <1>1, <1>5, <2>1 DEF ReadStep, BatchInv
  <2> QED
    BY <2>1, <2>2 DEF FileInv
<1>6. CASE WriteStep
  <2>1. TableInv' /\ setsize' = setsize /\ ValidDispatch'
    <3>1. CASE Valid("w") /\ (called = NoCall \/ cur.fd \in TwoProcs)
      BY <1>4, <1>6, <3>1 DEF WriteStep
    <3>2. CASE ~(Valid("w") /\ (called = NoCall \/ cur.fd \in TwoProcs))
      BY <1>1, <1>6, <3>2, TableUnchanged DEF WriteStep, ValidDispatch
    <3> QED
      BY <3>1, <3>2
  <2>2. BatchInv'
    BY <1>1, <1>6, <2>1 DEF WriteStep, BatchInv
  <2> QED
    BY <2>1, <2>2 DEF FileInv
<1> QED
  BY <1>2, <1>3, <1>5, <1>6 DEF Dispatch

LEMMA FileInvNext == FileInv /\ [Next]_vars => FileInv'
<1> SUFFICES ASSUME FileInv, [Next]_vars PROVE FileInv'
  OBVIOUS
<1>1. CASE Dispatch
  BY <1>1, DispatchKeeps
<1>2. CASE Outside
  BY <1>2, OutsideKeeps
<1>3. ASSUME NEW fd \in Fds, NEW c \in Conditions, Condition(fd, c)
      PROVE  FileInv'
  <2>1. TableInv'
    BY <1>3, TableUnchanged DEF FileInv, TableInv, Typed, Condition
  <2>2. BatchInv' /\ ValidDispatch'
    BY <1>3 DEF FileInv, Condition, table, BatchInv, ValidDispatch
  <2> QED
    BY <2>1, <2>2 DEF FileInv
<1>4. CASE UNCHANGED vars
  <2>1. TableInv'
    BY <1>4, TableUnchanged DEF FileInv, TableInv, Typed, vars
  <2>2. BatchInv' /\ ValidDispatch'
    BY <1>4 DEF FileInv, vars, table, BatchInv, ValidDispatch
  <2> QED
    BY <2>1, <2>2 DEF FileInv
<1> QED
  BY <1>1, <1>2, <1>3, <1>4 DEF Next

LEMMA FileInvType == FileInv => TypeOK
<1> SUFFICES ASSUME FileInv PROVE TypeOK
  OBVIOUS
<1>1. maxfd = Highest(mask, setsize)
  BY HighestOnly DEF FileInv, TableInv, MaxfdHighest
<1> QED
  BY <1>1 DEF FileInv, TableInv, Typed, BatchInv, TypeOK

-----------------------------------------------------------------------------
LEMMA FileInvariant == Spec => []FileInv
  BY FileInvInit, FileInvNext, PTL DEF Spec

(* maxfd is the highest registered descriptor, after any registrations,    *)
(* deletions, closes and resizes (ae.c:198-199, 211-218).                  *)
THEOREM MaxfdAlwaysHighest == Spec => []TypeOK
  BY FileInvariant, FileInvType, PTL

(* The kernel watches exactly what the table says, so epoll_ctl never      *)
(* fails for an open descriptor that fits the table (ae_epoll.c:73-106).   *)
THEOREM KernelAlwaysAgrees == Spec => []KernelAgrees
<1>1. FileInv => KernelAgrees
  BY DEF FileInv, TableInv
<1> QED
  BY <1>1, FileInvariant, PTL

(* No handler is called for a descriptor that was closed in the same batch *)
(* (ae.c:512-514).                                                         *)
THEOREM DispatchAlwaysValid == Spec => []ValidDispatch
<1>1. FileInv => ValidDispatch
  BY DEF FileInv
<1> QED
  BY <1>1, FileInvariant, PTL
=============================================================================
