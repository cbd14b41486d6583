---------------------------- MODULE AeFileEvents ----------------------------
(***************************************************************************)
(* The file events of ae/ae.c over ae/ae/ae_epoll.c: the table of          *)
(* registrations, the kernel's interest set behind it, and the dispatch of *)
(* one epoll batch, during which handlers register, unregister, close and  *)
(* accept descriptors that may be in the same batch.                       *)
(***************************************************************************)
EXTENDS Integers, FiniteSets

CONSTANTS MaxFd,          \* bound: descriptors are 0 .. MaxFd
          Listener,       \* a descriptor that is never closed
          SetSizes,       \* what callers ask of aeResizeSetSize
          TwoProcs,       \* descriptors with wfileProc # rfileProc
          Conditions      \* what can be true of a descriptor at once

Fds == 0 .. MaxFd

ASSUME FileAssumption ==
  /\ MaxFd \in Nat /\ Listener \in Fds
  /\ SetSizes \subseteq 1 .. MaxFd + 1
  /\ \E s \in SetSizes : Listener < s
  /\ TwoProcs \subseteq Fds
  /\ {} \in Conditions /\ Conditions \subseteq SUBSET {"in", "out", "hup"}

VARIABLES mask,      \* events[fd].mask, AE_NONE being {}
          setsize, maxfd,
          opened,    \* the descriptors that are open
          interest,  \* the kernel's epoll set, {} being absent from it
          ready,     \* the conditions that hold on a descriptor
          closed,    \* closed since the last epoll_wait and not opened again
          batch,     \* fired events not yet reached
          cur,       \* the fired event being dispatched
          step,      \* where the thread is
          called     \* the handler that was called last, or NoCall

table  == <<mask, setsize, maxfd>>
kernel == <<opened, interest>>
vars   == <<table, kernel, ready, closed, batch, cur, step, called>>

Modes  == {"r", "w"}
NoCall == [fd |-> -1, dir |-> "none", stale |-> FALSE]
NoEvent == [fd |-> -1, mask |-> {}]

Init ==
  /\ mask = [fd \in Fds |-> IF fd = Listener THEN {"r"} ELSE {}]
  /\ setsize \in {s \in SetSizes : Listener < s}
  /\ maxfd = Listener
  /\ opened = {Listener}
  /\ interest = mask
  /\ ready = [fd \in Fds |-> {}]
  /\ closed = {}
  /\ batch = {} /\ cur = NoEvent /\ step = "poll" /\ called = NoCall

-----------------------------------------------------------------------------
(* epoll_ctl as aeApiAddEvent and aeApiDelEvent call it.  The operation is *)
(* chosen by the mask the table holds; it fails when the kernel disagrees. *)
(* Callers pass descriptors that are open.                                 *)
AddFails(fd) == (mask[fd] = {}) # (interest[fd] = {})

CreateFails(fd) == fd >= setsize \/ AddFails(fd)

CreateFileEvent(fd, m) ==
  IF CreateFails(fd) THEN UNCHANGED <<table, interest>>
  ELSE /\ mask' = [mask EXCEPT ![fd] = @ \cup m]
       /\ interest' = [interest EXCEPT ![fd] = mask[fd] \cup m]
       /\ maxfd' = IF fd > maxfd THEN fd ELSE maxfd
       /\ UNCHANGED setsize

Highest(mk, below) ==
  LET used == {fd \in Fds : fd < below /\ mk[fd] # {}}
  IN IF used = {} THEN -1 ELSE CHOOSE x \in used : \A y \in used : y <= x

(* aeDeleteFileEvent followed by nothing, or by close(fd). *)
Deleted(fd, m) == [mask EXCEPT ![fd] = IF fd < setsize THEN @ \ m ELSE @]

WrongMaxfdAfter(fd, m) ==
  IF fd = maxfd /\ Deleted(fd, m)[fd] = {} THEN maxfd - 1 ELSE maxfd

MaxfdAfter(fd, m) ==
  IF fd = maxfd /\ Deleted(fd, m)[fd] = {} THEN Highest(mask, maxfd) ELSE maxfd

InterestAfter(fd, m) ==
  IF fd < setsize /\ mask[fd] # {}
  THEN [interest EXCEPT ![fd] = IF @ = {} THEN {} ELSE mask[fd] \ m]
  ELSE interest

DeleteFileEvent(fd, m) ==
  /\ mask' = Deleted(fd, m)
  /\ maxfd' = MaxfdAfter(fd, m)
  /\ interest' = InterestAfter(fd, m)
  /\ UNCHANGED setsize

(* Closing drops the descriptor from the epoll set; what has been fired    *)
(* for it and is still to be dispatched is about a file that is gone.      *)
Close(fd) ==
  /\ DeleteFileEvent(fd, Modes)
  /\ opened' = opened \ {fd}
  /\ ready' = [ready EXCEPT ![fd] = {}]
  /\ closed' = closed \cup {fd}

(* accept returns the lowest free descriptor, which is then registered.    *)
Accept ==
  \E fd \in Fds \ opened :
    /\ \A g \in Fds \ opened : fd <= g
    /\ CreateFileEvent(fd, {"r"})
    /\ opened' = opened \cup {fd}
    /\ closed' = closed \ {fd}
    /\ UNCHANGED ready

(* aeResizeSetSize: slots past the end hold garbage until initialised.     *)
Garbage == {"w"}

WrongInitSlots(size, mk) == [fd \in Fds |-> IF fd >= size THEN Garbage ELSE mk[fd]]

InitSlots(size, mk) == [fd \in Fds |-> IF fd >= size THEN Garbage
                                       ELSE IF fd > maxfd THEN {} ELSE mk[fd]]

Resize(size) ==
  /\ size # setsize
  /\ maxfd < size
  /\ setsize' = size
  /\ mask' = InitSlots(size, mask)
  /\ UNCHANGED maxfd

-----------------------------------------------------------------------------
(* What a handler called for fd may do. *)
HandlerCode(fd) ==
  \/ UNCHANGED <<table, kernel, ready, closed>>
  \/ /\ \E m \in {{"r"}, {"w"}} : CreateFileEvent(fd, m)
     /\ UNCHANGED <<opened, ready, closed>>
  \/ /\ fd # Listener
     /\ \E m \in {{"r"}, {"w"}} : DeleteFileEvent(fd, m)
     /\ UNCHANGED <<opened, ready, closed>>
  \/ fd # Listener /\ Close(fd)
  \/ fd = Listener /\ Accept
  \/ \E g \in opened \ {fd, Listener} : Close(g)

(* Between two iterations of aeMain: timers and beforesleep. *)
Outside ==
  /\ step = "poll"
  /\ \/ \E fd \in opened \ {Listener}, m \in {{"r"}, {"w"}} :
          /\ CreateFileEvent(fd, m) \/ DeleteFileEvent(fd, m)
          /\ UNCHANGED <<opened, ready, closed>>
     \/ \E size \in SetSizes : Resize(size) /\ UNCHANGED <<kernel, ready, closed>>
     \/ \E fd \in opened \ {Listener} : Close(fd)
  /\ UNCHANGED <<batch, cur, step, called>>

(* The outside world: bytes arrive, buffers drain, peers hang up.  Only    *)
(* the next epoll_wait can notice.                                         *)
Condition(fd, c) ==
  /\ step = "poll" /\ fd \in opened
  /\ ready' = [ready EXCEPT ![fd] = c]
  /\ UNCHANGED <<table, kernel, closed, batch, cur, step, called>>

-----------------------------------------------------------------------------
(* What epoll_wait reports of a descriptor, and aeApiPoll's translation.   *)
Reported(fd) ==
  IF interest[fd] = {} THEN {}
  ELSE ready[fd] \cap ({"hup"} \cup (IF "r" \in interest[fd] THEN {"in"} ELSE {})
                              \cup (IF "w" \in interest[fd] THEN {"out"} ELSE {}))

WrongFiredElse(events) ==
  IF "out" \in events THEN {"w"} ELSE IF "in" \in events THEN {"r"} ELSE {"w"}

FiredMask(events) ==
  (IF "in" \in events THEN {"r"} ELSE {}) \cup
  (IF events \cap {"out", "hup"} # {} THEN {"w"} ELSE {})

Poll ==
  /\ step = "poll"
  /\ batch' = {[fd |-> fd, mask |-> FiredMask(Reported(fd))] : fd \in {g \in Fds : Reported(g) # {}}}
  /\ batch' # {}
  /\ step' = "next"
  /\ called' = NoCall
  /\ closed' = {}
  /\ UNCHANGED <<table, kernel, ready, cur>>

(* The kernel's order of a batch is arbitrary. *)
NextEvent ==
  /\ step = "next"
  /\ \/ \E e \in batch : cur' = e /\ batch' = batch \ {e} /\ step' = "read"
     \/ batch = {} /\ cur' = NoEvent /\ step' = "poll" /\ UNCHANGED batch
  /\ called' = NoCall
  /\ UNCHANGED <<table, kernel, ready, closed>>

WrongValid(dir) == dir \in cur.mask

Valid(dir) == dir \in mask[cur.fd] \cap cur.mask

Call(dir) ==
  /\ HandlerCode(cur.fd)
  /\ called' = [fd |-> cur.fd, dir |-> dir, stale |-> cur.fd \in closed]

ReadStep ==
  /\ step = "read"
  /\ step' = "write"
  /\ IF Valid("r") THEN Call("r")
     ELSE called' = NoCall /\ UNCHANGED <<table, kernel, ready, closed>>
  /\ UNCHANGED <<cur, batch>>

(* rfired is called # NoCall. *)
WriteStep ==
  /\ step = "write"
  /\ step' = "next"
  /\ IF Valid("w") /\ (called = NoCall \/ cur.fd \in TwoProcs) THEN Call("w")
     ELSE UNCHANGED <<table, kernel, ready, closed, called>>
  /\ UNCHANGED <<cur, batch>>

Dispatch == Poll \/ NextEvent \/ ReadStep \/ WriteStep

Next == Dispatch \/ Outside \/ \E fd \in Fds, c \in Conditions : Condition(fd, c)

Spec == Init /\ [][Next]_vars

(* One thread runs aeMain; a poll with something to report returns.        *)
FairSpec == Spec /\ WF_vars(Dispatch)

-----------------------------------------------------------------------------
(* Type invariant, and that maxfd is the highest registered descriptor     *)
(* (ae.c:198-199, 211-218), after any registrations, deletions, resizes.   *)
TypeOK ==
  /\ maxfd = Highest(mask, setsize)
  /\ mask \in [Fds -> SUBSET Modes]
  /\ setsize \in SetSizes
  /\ opened \subseteq Fds /\ interest \in [Fds -> SUBSET Modes]
  /\ ready \in [Fds -> Conditions]
  /\ \A e \in batch \cup {cur} : e.fd \in Fds \cup {-1} /\ e.mask \subseteq Modes
  /\ closed \subseteq Fds
  /\ step \in {"poll", "next", "read", "write"}

(* ae_epoll.c:73-106: the kernel watches what the table says, so the       *)
(* choice between ADD and MOD is right and epoll_ctl never fails for an    *)
(* open descriptor that fits the table.                                    *)
KernelAgrees ==
  \A fd \in Fds : interest[fd] = IF fd < setsize THEN mask[fd] ELSE {}

(* ae.c:512-514: a fired event is dispatched only while it is still valid: *)
(* no handler runs for a descriptor that a handler of the same batch has   *)
(* closed.  (One that was opened again in the meantime gets the event of   *)
(* its predecessor.)                                                       *)
ValidDispatch == ~called.stale

(* ae.c:441-453: a handler that stays registered for a condition that      *)
(* stays true is called again and again, whatever the other handlers do.   *)
Wants(fd, dir, c) == dir \in mask[fd] /\ fd < setsize /\ c \in ready[fd]

Serves(fd, dir) == called.fd = fd /\ called.dir = dir

EverServed ==
  \A fd \in Fds :
    /\ <>[]Wants(fd, "r", "in") => []<>Serves(fd, "r")
    /\ <>[](Wants(fd, "w", "out") /\ (fd \in TwoProcs \/ "r" \notin mask[fd]))
         => []<>Serves(fd, "w")
=============================================================================
