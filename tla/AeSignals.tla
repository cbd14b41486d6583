----------------------------- MODULE AeSignals ------------------------------
(***************************************************************************)
(* Signals in ae/ae.c: the handler _aeSignalPreProc, which interrupts the  *)
(* loop's thread anywhere, writes the signal's number to a pipe; the loop  *)
(* finds the pipe readable and _aeSignalProc reads it and calls the        *)
(* registered sigProc.  Neither end of the pipe is non-blocking, and the   *)
(* handler is installed without SA_RESTART.                                *)
(***************************************************************************)
EXTENDS Integers, Sequences, SequencesExt

CONSTANTS Sigs,        \* the signals used
          Capacity,    \* bytes the pipe holds
          MaxSignals   \* bound: signals sent

ASSUME SignalAssumption == Capacity \in Nat \ {0} /\ MaxSignals \in Nat

VARIABLES installed,  \* is the disposition of sig _aeSignalPreProc?
          proc,       \* is sigevents[sig].sigProc set?
          pending,    \* signals sent and not yet delivered
          pipe,       \* the bytes in the pipe
          sent,       \* how many signals were sent
          written,    \* bytes written for each signal
          taken,      \* bytes of each signal the loop has read
          phase,      \* where aeMain's thread is
          batch,      \* the fired events not yet dispatched
          work,       \* another file event, or a timer, is due
          hung        \* the signal handler is blocked in write

signalVars == <<installed, proc, pending, pipe, sent, written, taken, phase, batch, work, hung>>

SignalInit ==
  /\ installed = [s \in Sigs |-> FALSE]
  /\ proc = [s \in Sigs |-> FALSE]
  /\ pending = {} /\ pipe = <<>> /\ sent = 0
  /\ written = [s \in Sigs |-> 0]
  /\ taken = [s \in Sigs |-> 0]
  /\ phase = "poll" /\ batch = {} /\ work = FALSE /\ hung = FALSE

-----------------------------------------------------------------------------
(* aeCreateSignalEvent and aeDeleteSignalEvent, called by the set-up or by *)
(* handlers; nobody creates an event that is there.                        *)
Register(s) ==
  /\ ~hung /\ phase \in {"poll", "dispatch"}
  /\ ~proc[s]
  /\ proc' = [proc EXCEPT ![s] = TRUE]
  /\ installed' = [installed EXCEPT ![s] = TRUE]
  /\ UNCHANGED <<pending, pipe, sent, written, taken, phase, batch, work, hung>>

Unregister(s) ==
  /\ ~hung /\ phase \in {"poll", "dispatch"}
  /\ proc[s]
  /\ proc' = [proc EXCEPT ![s] = FALSE]
  /\ installed' = [installed EXCEPT ![s] = FALSE]
  /\ UNCHANGED <<pending, pipe, sent, written, taken, phase, batch, work, hung>>

(* A signal that is pending already is not queued again. *)
Send(s) ==
  /\ sent < MaxSignals
  /\ installed[s]
  /\ pending' = pending \cup {s}
  /\ sent' = sent + 1
  /\ UNCHANGED <<installed, proc, pipe, written, taken, phase, batch, work, hung>>

PipeFull == Len(pipe) = Capacity

(* The handler runs on the loop's thread.  A read that was blocked returns *)
(* EINTR, which ends the loop of _aeSignalProc; one about to be called     *)
(* finds the new byte.                                                     *)
Interrupted == IF phase = "read" /\ pipe = <<>> THEN {"read", "dispatch"} ELSE {phase}

Deliver(s) ==
  /\ s \in pending /\ ~hung
  /\ pending' = pending \ {s}
  /\ IF ~installed[s]
     THEN UNCHANGED <<pipe, written, phase, hung>>
     ELSE IF PipeFull
     THEN hung' = TRUE /\ UNCHANGED <<pipe, written, phase>>
     ELSE /\ pipe' = Append(pipe, s)
          /\ written' = [written EXCEPT ![s] = @ + 1]
          /\ phase' \in Interrupted
          /\ UNCHANGED hung
  /\ UNCHANGED <<installed, proc, sent, taken, batch, work>>

WorkArrives ==
  /\ ~work
  /\ work' = TRUE
  /\ UNCHANGED <<installed, proc, pending, pipe, sent, written, taken, phase, batch, hung>>

-----------------------------------------------------------------------------
(* One iteration of aeMain. *)
Fired == (IF pipe # <<>> THEN {"signals"} ELSE {}) \cup (IF work THEN {"work"} ELSE {})

Poll ==
  /\ phase = "poll" /\ ~hung
  /\ Fired # {}
  /\ batch' = Fired
  /\ phase' = "dispatch"
  /\ UNCHANGED <<installed, proc, pending, pipe, sent, written, taken, work, hung>>

DispatchSignals ==
  /\ phase = "dispatch" /\ ~hung
  /\ "signals" \in batch
  /\ batch' = batch \ {"signals"}
  /\ phase' = "read"
  /\ UNCHANGED <<installed, proc, pending, pipe, sent, written, taken, work, hung>>

DispatchWork ==
  /\ phase = "dispatch" /\ ~hung
  /\ "work" \in batch
  /\ batch' = batch \ {"work"}
  /\ work' = FALSE
  /\ UNCHANGED <<installed, proc, pending, pipe, sent, written, taken, phase, hung>>

EndDispatch ==
  /\ phase = "dispatch" /\ batch = {} /\ ~hung
  /\ phase' = "poll"
  /\ UNCHANGED <<installed, proc, pending, pipe, sent, written, taken, batch, work, hung>>

WrongUnread(p) == <<>>
Unread(p) == Tail(p)

(* The loop of _aeSignalProc: one byte is read and its sigProc, if one is  *)
(* still registered, called.  On an empty pipe the thread stays in read(2). *)
ReadByte ==
  /\ phase = "read" /\ pipe # <<>> /\ ~hung
  /\ pipe' = Unread(pipe)
  /\ taken' = [taken EXCEPT ![Head(pipe)] = @ + 1]
  /\ UNCHANGED <<installed, proc, pending, sent, written, phase, batch, work, hung>>

Iterate == Poll \/ DispatchSignals \/ DispatchWork \/ EndDispatch \/ ReadByte

SignalNext ==
  \/ \E s \in Sigs : Register(s) \/ Unregister(s) \/ Send(s) \/ Deliver(s)
  \/ WorkArrives
  \/ Iterate

(* The thread runs while it is not blocked; the kernel delivers signals.   *)
SignalFairness == WF_signalVars(Iterate) /\ \A s \in Sigs : WF_signalVars(Deliver(s))

SignalSpec == SignalInit /\ [][SignalNext]_signalVars /\ SignalFairness

-----------------------------------------------------------------------------
(* ae.c:66-90: once the last signal has come, the loop gets every byte the *)
(* handler wrote to the pipe, whether it came while the loop polled, read, *)
(* was blocked in read or ran another handler, unless the handler finds    *)
(* the pipe full and blocks for good.                                      *)
SignalsHandled == <>[](taken = written \/ hung)

(* ae.c:441-442: "Process every pending time event, then every pending     *)
(* file event": what is due while signals are handled gets its turn.       *)
WorkServed == work ~> ~work
=============================================================================
