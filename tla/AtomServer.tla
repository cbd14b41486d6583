----------------------------- MODULE AtomServer -----------------------------
(***************************************************************************)
(* The clients of the atom server, Z_my_work_atom/tcp_server.c with cmd.c  *)
(* and main.c: ClientQueue, the queue that clientAdd and clientDelete link *)
(* by pointers, next to the descriptors the kernel has open and the table  *)
(* of aeCreateFileEvent, which is too small for all of them.               *)
(*                                                                         *)
(* One thread.  A client has one descriptor while it lives, and is named   *)
(* by it.  No handler of this server sets a timer or asks to send: the     *)
(* timers clientDelete deletes, and send_response_handle, are left out.    *)
(***************************************************************************)
EXTENDS Integers, FiniteSets, Functions

CONSTANTS Descriptors,  \* what accept may return
          SetSize,      \* the 1000 of aeCreateEventLoop
          NoClient      \* a null pointer

ASSUME AtomAssumption ==
  /\ Descriptors \subseteq Nat /\ IsFiniteSet(Descriptors) /\ SetSize \in Nat
  /\ NoClient \notin Descriptors

VARIABLES clientQueue,  \* ClientQueue
          client,       \* next and pre of every client; garbage once freed
          open,         \* descriptors that accept returned and no close took
          registered,   \* those whose AE_READABLE calls recv_cmd_handle
          blocking,     \* history: those that could not be made non-blocking
          spinning      \* recv_cmd_handle is in its inner loop

atomVars == <<clientQueue, client, open, registered, blocking, spinning>>

AtomInit ==
  /\ clientQueue = NoClient
  /\ client = [c \in Descriptors |-> [next |-> NoClient, pre |-> NoClient]]
  /\ open = {} /\ registered = {} /\ blocking = {}
  /\ spinning = FALSE

(* The queue's head and links.                                             *)
ClientAdd(new) ==
  /\ client' = [c \in Descriptors |->
                  IF c = new THEN [next |-> clientQueue, pre |-> NoClient]
                  ELSE IF c = clientQueue THEN [client[c] EXCEPT !.pre = new]
                  ELSE client[c]]
  /\ clientQueue' = new

WrongUnlinked(tmp) ==
  LET next == client[tmp].next
      pre == client[tmp].pre
  IN [c \in Descriptors |->
        IF c = pre THEN [client[c] EXCEPT !.next = next] ELSE client[c]]

Unlinked(tmp) ==
  LET next == client[tmp].next
      pre == IF tmp = clientQueue THEN NoClient ELSE client[tmp].pre
  IN [c \in Descriptors |->
        IF c = next THEN [client[c] EXCEPT !.pre = pre]
        ELSE IF c = pre THEN [client[c] EXCEPT !.next = next]
        ELSE client[c]]

ClientDelete(tmp) ==
  /\ client' = Unlinked(tmp)
  /\ clientQueue' = IF tmp = clientQueue THEN client[tmp].next ELSE clientQueue
  /\ registered' = registered \ {tmp}
  /\ open' = open \ {tmp}

(* The lowest free descriptor, from accept.                                *)
Accepted(fd) == fd \in Descriptors \ open /\ \A g \in Descriptors \ open : fd <= g

(* One turn of server_accept_handle's loop.  When anetNonBlock fails the   *)
(* descriptor stays open and nobody has it; when aeCreateFileEvent fails   *)
(* nobody looks at the result.                                             *)
ServerAccept ==
  /\ ~spinning
  /\ \E fd \in Descriptors :
       /\ Accepted(fd)
       /\ open' = open \cup {fd}
       /\ \/ /\ ClientAdd(fd)
             /\ registered' = IF fd < SetSize THEN registered \cup {fd} ELSE registered
             /\ UNCHANGED blocking
          \/ blocking' = blocking \cup {fd} /\ UNCHANGED <<clientQueue, client, registered>>
  /\ UNCHANGED spinning

(* recv_cmd_handle: bytes, and then the inner loop, which do_protocol's    *)
(* SUCCESS_CMD never leaves; or the end of the stream, or an error.        *)
RecvBytes ==
  /\ ~spinning /\ registered # {}
  /\ spinning' = TRUE
  /\ UNCHANGED <<clientQueue, client, open, registered, blocking>>

RecvEnd ==
  /\ ~spinning
  /\ \E fd \in registered : ClientDelete(fd)
  /\ UNCHANGED <<blocking, spinning>>

AtomNext == ServerAccept \/ RecvBytes \/ RecvEnd

AtomSpec == AtomInit /\ [][AtomNext]_atomVars

-----------------------------------------------------------------------------
(* The queue is q[1], ..., q[n], from the head on and back.                *)
Queues(q, n) ==
  /\ clientQueue = IF n = 0 THEN NoClient ELSE q[1]
  /\ \A i \in 1 .. n :
       client[q[i]] = [next |-> IF i = n THEN NoClient ELSE q[i + 1],
                       pre |-> IF i = 1 THEN NoClient ELSE q[i - 1]]

(***************************************************************************)
(* After any connections and disconnections, in any order, the queue has   *)
(* every open client once, linked both ways, and no freed one; the event   *)
(* loop holds no pointer to a client that is not queued; and what is open  *)
(* but will never be read from is only what could not be made non-blocking *)
(* or has a descriptor outside the table.                                  *)
(***************************************************************************)
QueueAgrees ==
  LET held == open \ blocking
      n == Cardinality(held)
  IN /\ \E q \in Bijection(1 .. n, held) : Queues(q, n)
     /\ registered = {c \in held : c < SetSize}
=============================================================================
