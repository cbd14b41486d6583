---------------------------- MODULE MCMemServer -----------------------------
(* Instances of MemServer for TLC. *)
EXTENDS MemServer

(* No action reads the history variables, and of a client that has been    *)
(* sent a part of what it is due only the rest matters from then on.       *)
Owed(c) ==
  IF c \in stale \cup short THEN <<>> ELSE SubSeq(due[c], Len(got[c]) + 1, Len(due[c]))

WithoutPast ==
  <<conn, asked, store, live, queue, writable, sending, stale, short,
    [c \in Clients |-> Owed(c)]>>
=============================================================================
