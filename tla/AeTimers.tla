------------------------------ MODULE AeTimers ------------------------------
(***************************************************************************)
(* The time events of ae/ae.c: an unsorted list, grown at its head by      *)
(* aeCreateTimeEvent, marked by aeDeleteTimeEvent, and walked once per     *)
(* iteration of aeMain by processTimeEvents, whose callbacks may create    *)
(* and delete timers while the walk holds the pointers `prev` and `te`.    *)
(* One thread; time passes between any two steps.                          *)
(***************************************************************************)
EXTENDS Integers, Sequences, SequencesExt

CONSTANTS Delays,            \* what callers ask for, in ticks
          Forever,           \* the timeout of a poll without timers
          MaxTime,           \* bound: the last tick
          MaxTimers          \* bound: timers ever created

ASSUME TimerAssumption ==
  /\ Delays \subseteq Nat \ {0}
  /\ MaxTime \in Nat \ {0} /\ MaxTimers \in Nat

VARIABLES list,      \* timeEventHead and what follows it
          nextId,    \* timeEventNextId
          now,       \* CLOCK_MONOTONIC
          phase,     \* where aeMain's thread is
          deadline,  \* when the current poll times out
          left,      \* processTimeEvents: how many timers from te to the end
          prev,      \* processTimeEvents: its prev, by name, or NoId
          maxId,     \* processTimeEvents: its maxId
          over,      \* timers deleted, or ended by AE_NOMORE
          byFinal,   \* timers created by a finalizer
          gone       \* timers whose finalizer has run

walk == <<left, prev, maxId>>
vars == <<list, nextId, now, phase, deadline, walk, over, byFinal, gone>>

NoId    == -1     \* AE_DELETED_EVENT_ID; also a null pointer
NoTimer == -2     \* a callback that creates nothing
NoMore  == -1     \* AE_NOMORE

(* An aeTimeEvent.  `name` is the id it got at creation; `id` is the field *)
(* of the code, which deletion overwrites.                                 *)
Timer(n, when) == [name |-> n, id |-> n, when |-> when]

Names(l) == {l[i].name : i \in DOMAIN l}
LiveNames(l) == {l[i].id : i \in DOMAIN l} \ {NoId}

WrongPush(l, t) == Append(l, t)
Push(l, t) == <<t>> \o l

Mark(l, ids) ==
  [i \in DOMAIN l |-> IF l[i].id \in ids THEN [l[i] EXCEPT !.id = NoId] ELSE l[i]]

(* prev->next = te->next, or the head when prev is null: everything        *)
(* between the two leaves the list.                                        *)
WrongIndex(l, n) == 0
Index(l, n) == IF n = NoId THEN 0 ELSE CHOOSE i \in DOMAIN l : l[i].name = n

Unlink(l, p, te) == SubSeq(l, 1, Index(l, p)) \o SubSeq(l, te + 1, Len(l))

Init ==
  /\ list = <<>>
  /\ nextId = 0
  /\ now = 1
  /\ phase = "before"
  /\ deadline = Forever
  /\ left = 0 /\ prev = NoId /\ maxId = NoId
  /\ over = {} /\ byFinal = {} /\ gone = {}

-----------------------------------------------------------------------------
(* What code that the loop calls may do: at most one aeCreateTimeEvent and *)
(* one aeDeleteTimeEvent per call.  l is the list as that code finds it.   *)
UserCode(l) ==
  \E new \in {NoTimer} \cup Delays, del \in {{}} \cup {{n} : n \in LiveNames(l)} :
    /\ new # NoTimer => nextId < MaxTimers
    /\ list' = IF new = NoTimer THEN Mark(l, del)
               ELSE Push(Mark(l, del), Timer(nextId, now + new))
    /\ nextId' = IF new = NoTimer THEN nextId ELSE nextId + 1
    /\ over' = over \cup del

(* The program's set-up, beforesleep, and the file event handlers.         *)
Handler ==
  /\ phase \in {"before", "files"}
  /\ UserCode(list)
  /\ UNCHANGED <<now, phase, deadline, walk, byFinal, gone>>

Tick ==
  /\ now < MaxTime
  /\ now' = now + 1
  /\ UNCHANGED <<list, nextId, phase, deadline, walk, over, byFinal, gone>>

WrongNearest(l) == IF l = <<>> THEN Forever ELSE l[1].when

(* aeSearchNearestTimer: deleted timers count too.                         *)
Nearest(l) ==
  IF l = <<>> THEN Forever
  ELSE CHOOSE w \in {l[i].when : i \in DOMAIN l} : \A i \in DOMAIN l : w <= l[i].when

Sleep ==
  /\ phase = "before"
  /\ phase' = "poll"
  /\ deadline' = Nearest(list)
  /\ UNCHANGED <<list, nextId, now, walk, over, byFinal, gone>>

Wake ==
  /\ phase = "poll"
  /\ phase' = "files"
  /\ UNCHANGED <<list, nextId, now, deadline, walk, over, byFinal, gone>>

Timeout == deadline # Forever /\ now >= deadline /\ Wake

(* processTimeEvents up to its loop.  When time(NULL) has gone back, every *)
(* timer becomes due.                                                      *)
BeginPass(skew) ==
  /\ phase = "files"
  /\ phase' = "pass"
  /\ list' = IF skew THEN [i \in DOMAIN list |-> [list[i] EXCEPT !.when = 0]] ELSE list
  /\ left' = Len(list)
  /\ prev' = NoId
  /\ maxId' = nextId - 1
  /\ UNCHANGED <<nextId, now, deadline, over, byFinal, gone>>

-----------------------------------------------------------------------------
(* One round of the loop of processTimeEvents, at the timer te.            *)
At == Len(list) - left + 1
Te == list[At]
InPass == phase = "pass" /\ left > 0

RemoveDeleted ==
  /\ InPass /\ Te.id = NoId
  /\ UserCode(Unlink(list, prev, At))
  /\ byFinal' = byFinal \cup nextId .. nextId' - 1
  /\ gone' = gone \cup {Te.name}
  /\ left' = left - 1
  /\ UNCHANGED <<now, phase, deadline, prev, maxId>>

(* A timer of this very pass, which leaves prev behind, or one not yet due. *)
PassOver ==
  /\ InPass /\ Te.id # NoId
  /\ Te.id > maxId \/ now < Te.when
  /\ left' = left - 1
  /\ prev' = IF Te.id > maxId THEN prev ELSE Te.name
  /\ UNCHANGED <<list, nextId, now, phase, deadline, maxId, over, byFinal, gone>>

WrongRearm(t, retval) ==
  IF retval = NoMore THEN [t EXCEPT !.id = NoId]
  ELSE [t EXCEPT !.id = t.name, !.when = now + retval]

(* The timer as its callback leaves it: armed again or deleted.            *)
Rearm(t, retval) ==
  IF retval = NoMore THEN [t EXCEPT !.id = NoId] ELSE [t EXCEPT !.when = now + retval]

Fire ==
  /\ InPass /\ Te.id # NoId /\ Te.id <= maxId /\ now >= Te.when
  /\ \E retval \in {NoMore} \cup Delays, new \in {NoTimer} \cup Delays,
        del \in {{}} \cup {{n} : n \in LiveNames(list)} :
       LET called == Mark(list, del)
           done   == [called EXCEPT ![At] = Rearm(@, retval)]
       IN /\ new # NoTimer => nextId < MaxTimers
          /\ list' = IF new = NoTimer THEN done
                     ELSE Push(done, Timer(nextId, now + new))
          /\ nextId' = IF new = NoTimer THEN nextId ELSE nextId + 1
          /\ over' = over \cup del \cup (IF retval = NoMore THEN {Te.name} ELSE {})
  /\ left' = left - 1
  /\ prev' = Te.name
  /\ UNCHANGED <<now, phase, deadline, maxId, byFinal, gone>>

EndPass ==
  /\ phase = "pass" /\ left = 0
  /\ phase' = "before"
  /\ UNCHANGED <<list, nextId, now, deadline, walk, over, byFinal, gone>>

Step == RemoveDeleted \/ PassOver \/ Fire

Next ==
  \/ Tick
  \/ Handler
  \/ Sleep
  \/ Wake
  \/ \E skew \in BOOLEAN : BeginPass(skew)
  \/ Step
  \/ EndPass

Spec == Init /\ [][Next]_vars

(* The thread keeps running and a poll ends at its timeout; no file event  *)
(* and no tick of the clock is promised.                                   *)
Fairness ==
  /\ WF_vars(Sleep)
  /\ WF_vars(Timeout)
  /\ WF_vars(\E skew \in BOOLEAN : BeginPass(skew))
  /\ WF_vars(Step)
  /\ WF_vars(EndPass)

FairSpec == Spec /\ Fairness

-----------------------------------------------------------------------------
(* Type invariant, and that the walk never meets a timer created while it  *)
(* runs: the check against maxId is, as ae.c:408-413 says, useless.        *)
TypeOK ==
  /\ InPass => Te.id <= maxId
  /\ \A i \in DOMAIN list :
       /\ list[i].name \in 0 .. nextId - 1
       /\ list[i].id \in {NoId, list[i].name}
       /\ list[i].when \in Nat
  /\ nextId \in 0 .. MaxTimers
  /\ now \in 1 .. MaxTime
  /\ phase \in {"before", "poll", "files", "pass"}
  /\ deadline \in Nat \cup {Forever}
  /\ left \in 0 .. Len(list)
  /\ {prev, maxId} \subseteq NoId .. nextId - 1
  /\ over \cup byFinal \cup gone \subseteq 0 .. nextId - 1

(* ae.c:393-405: relinking around a deleted timer takes out that timer and *)
(* no other: a timer stays in the list until its finalizer has run.  Only  *)
(* a timer that a finalizer created can be lost, while prev is still null. *)
NoTimerLost ==
  /\ (0 .. nextId - 1) \ Names(list) \subseteq gone \cup byFinal
  /\ gone \cap Names(list) = {}
  /\ IsInjective([i \in DOMAIN list |-> list[i].name])

(* ae.c:327-338, 429-431: a timer that was deleted, by its own callback or *)
(* by another one earlier in the same pass, never fires again.             *)
OverNeverFires == [][Fire => Te.name \notin over]_vars

(* A due timer that is not deleted, and a deleted one whose time has come. *)
Due(n) == \E i \in DOMAIN list : list[i].id = n /\ list[i].when <= now

Served(n) == n \in over \/ \E i \in DOMAIN list : list[i].id = n /\ list[i].when > now

Expired(n) == \E i \in DOMAIN list :
                list[i].name = n /\ list[i].id = NoId /\ list[i].when <= now

(* ae.c:367-439, 466-500: a due timer gets its callback, which ends it or  *)
(* arms it again, or is deleted: the poll does not sleep past it and the   *)
(* walk does not skip it, whatever callbacks create and delete around it.  *)
(* A timer that NoTimerLost gives up is excepted.  A deleted timer's       *)
(* finalizer runs at the latest when the timer would have fired, and so    *)
(* after NOMORE at once (351-364, 393-405).                                *)
DueServed ==
  \A n \in 0 .. MaxTimers - 1 :
    /\ Due(n) /\ n \notin byFinal ~> Served(n)
    /\ Expired(n) ~> n \in gone
=============================================================================
