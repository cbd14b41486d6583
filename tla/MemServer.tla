------------------------------ MODULE MemServer ------------------------------
(***************************************************************************)
(* The key-value server Z_my_work_mem: tcp_server.c and cmd.c, from whole  *)
(* commands (RespParser takes them out of the byte stream) to the bytes of *)
(* the replies.  Replies wait in a queue per client until its socket is    *)
(* writable; a GET's reply points at the value the dict holds.  The dict   *)
(* is the map that Dict implements.                                        *)
(***************************************************************************)
EXTENDS Integers, Sequences, SequencesExt

CONSTANTS Clients, Keys,
          NoValue,        \* no dict entry; a reply that is a constant string
          MaxRequests     \* bound: commands of one client

ASSUME ServerAssumption ==
  /\ MaxRequests \in Nat
  /\ "none" \notin Clients
  /\ NoValue \notin Clients \X (1 .. MaxRequests)

VARIABLES conn,      \* "new", "open", "closed"
          asked,     \* commands each client has sent
          store,     \* the dict: the value object of each key
          live,      \* the value objects that are allocated
          queue,     \* send_response_queue
          writable,  \* clients registered for AE_WRITABLE
          sending,   \* the client whose send_response_handle runs, or NoClient
          due,       \* what each client's commands should be answered, in units
          got,       \* what each client has been sent, in units
          stale,     \* clients with a reply whose value was freed before it
                     \* was sent
          short      \* clients an item was sent to in more than one write

history == <<due, got, stale, short>>
vars == <<conn, asked, store, live, queue, writable, sending, history>>

NoClient == "none"

(* A value object is named after the SET that allocated it. *)
Objects == Clients \X (1 .. MaxRequests)

-----------------------------------------------------------------------------
(* A Response.  A constant reply has one item; that of a GET has two, the  *)
(* "*1\r\n" and the value.  An item is two units long, so that half of it  *)
(* can be written.                                                         *)
Half == 1
Full == 2

Response(kind, obj) ==
  [kind |-> kind, obj |-> obj, cur |-> 1,
   pos |-> IF obj = NoValue THEN <<0>> ELSE <<0, 0>>]

(* The units of one item, as they should be on the wire and as they are    *)
(* in memory when they are written.                                        *)
Unit(r, item, i) == <<r.kind, IF item = 2 THEN r.obj ELSE NoValue, i>>

Item(r, item) == [i \in 1 .. Full |-> Unit(r, item, i)]

Wire(r) == IF r.obj = NoValue THEN Item(r, 1) ELSE Item(r, 1) \o Item(r, 2)

InMemory(r, item, i) ==
  IF item = 2 /\ r.obj \notin live THEN <<"freed", NoValue, i>> ELSE Unit(r, item, i)

Init ==
  /\ conn = [c \in Clients |-> "new"]
  /\ asked = [c \in Clients |-> 0]
  /\ store = [k \in Keys |-> NoValue]
  /\ live = {}
  /\ queue = [c \in Clients |-> <<>>]
  /\ writable = {}
  /\ sending = NoClient
  /\ due = [c \in Clients |-> <<>>]
  /\ got = [c \in Clients |-> <<>>]
  /\ stale = {} /\ short = {}

-----------------------------------------------------------------------------
(* server_accept_handle: both events are registered at once. *)
Accept(c) ==
  /\ sending = NoClient /\ conn[c] = "new"
  /\ conn' = [conn EXCEPT ![c] = "open"]
  /\ writable' = writable \cup {c}
  /\ UNCHANGED <<asked, store, live, queue, sending, history>>

(* recv_cmd_handle with one complete command, and what ALL_cmd does for    *)
(* it; AE_WRITABLE is registered whenever replies are waiting.             *)
WrongArmed(c, q) == writable

Armed(c, q) == IF q = <<>> THEN writable ELSE writable \cup {c}

WrongEnqueued(q, r) == <<r>> \o q

(* ResponseInsert *)
Enqueued(q, r) == Append(q, r)

Reply(c, r) ==
  /\ queue' = [queue EXCEPT ![c] = Enqueued(queue[c], r)]
  /\ writable' = Armed(c, queue'[c])
  /\ due' = [due EXCEPT ![c] = due[c] \o Wire(r)]

Receives(c) ==
  /\ sending = NoClient /\ conn[c] = "open" /\ asked[c] < MaxRequests
  /\ asked' = [asked EXCEPT ![c] = asked[c] + 1]
  /\ UNCHANGED <<conn, sending, got, short>>

WrongFreed(k) == {}

(* dictAdd, and dictReplace when that fails: the old value is freed.       *)
Freed(k) == {store[k]}

(* The reply has still to be sent, wholly or in part, and needs the object. *)
Awaits(r, objects) == r.obj # NoValue /\ r.obj \in objects /\ r.pos[2] < Full

Set(c, k) ==
  /\ Receives(c)
  /\ store' = [store EXCEPT ![k] = <<c, asked'[c]>>]
  /\ live' = (live \ Freed(k)) \cup {<<c, asked'[c]>>}
  /\ stale' = stale \cup {x \in Clients : \E i \in DOMAIN queue[x] : Awaits(queue[x][i], Freed(k))}
  /\ Reply(c, Response("ok", NoValue))

Get(c, k) ==
  /\ Receives(c)
  /\ Reply(c, IF store[k] = NoValue THEN Response("err", NoValue)
              ELSE Response("value", store[k]))
  /\ UNCHANGED <<store, live, stale>>

(* A SET or GET with the wrong number of arguments; another command, to    *)
(* which no function makes a response.                                     *)
BadArguments(c) ==
  /\ Receives(c)
  /\ Reply(c, Response("err", NoValue))
  /\ UNCHANGED <<store, live, stale>>

Unknown(c) ==
  /\ Receives(c)
  /\ writable' = Armed(c, queue[c])
  /\ UNCHANGED <<store, live, queue, due, stale>>

(* clientDelete *)
Deleted(c) ==
  /\ conn' = [conn EXCEPT ![c] = "closed"]
  /\ queue' = [queue EXCEPT ![c] = <<>>]
  /\ writable' = writable \ {c}
  /\ sending' = NoClient
  /\ UNCHANGED <<asked, store, live, history>>

Disconnect(c) == sending = NoClient /\ conn[c] = "open" /\ Deleted(c)

-----------------------------------------------------------------------------
(* send_response_handle, one round of its loop at a time; nothing else     *)
(* runs meanwhile, but the socket's buffer fills and drains.               *)
SendBegin(c) ==
  /\ sending = NoClient /\ c \in writable
  /\ IF queue[c] = <<>>
     THEN writable' = writable \ {c} /\ UNCHANGED sending
     ELSE sending' = c /\ UNCHANGED writable
  /\ UNCHANGED <<conn, asked, store, live, queue, history>>

(* The first response, with cur moved past an item that is finished.       *)
Current(c) ==
  LET r == Head(queue[c])
  IN IF r.pos[r.cur] >= Full THEN [r EXCEPT !.cur = r.cur + 1] ELSE r

Finished(r) == r.cur > Len(r.pos)

(* What write is handed: item_length - item_pos bytes, from the start of   *)
(* the item.                                                               *)
Handed(r) == [i \in 1 .. Full - r.pos[r.cur] |-> InMemory(r, r.cur, i)]

(* item_pos after the write.                                               *)
Advanced(r, n) == [r EXCEPT !.pos = [r.pos EXCEPT ![r.cur] = r.pos[r.cur] + n]]

Write(c, n) ==
  /\ sending = c /\ queue[c] # <<>>
  /\ LET r == Current(c)
     IN /\ ~Finished(r)
        /\ n \in 1 .. Len(Handed(r))
        /\ short' = IF n < Len(Handed(r)) THEN short \cup {c} ELSE short
        /\ got' = [got EXCEPT ![c] = got[c] \o SubSeq(Handed(r), 1, n)]
        /\ queue' = [queue EXCEPT ![c] = <<Advanced(r, n)>> \o Tail(queue[c])]
  /\ UNCHANGED <<conn, asked, store, live, writable, sending, due, stale>>

(* EAGAIN: the handler returns and stays registered.                       *)
WouldBlock(c) ==
  /\ sending = c /\ queue[c] # <<>>
  /\ LET r == Current(c)
     IN /\ ~Finished(r)
        /\ queue' = [queue EXCEPT ![c] = <<r>> \o Tail(queue[c])]
  /\ sending' = NoClient
  /\ UNCHANGED <<conn, asked, store, live, writable, history>>

WriteFails(c) ==
  /\ sending = c /\ queue[c] # <<>>
  /\ ~Finished(Current(c))
  /\ Deleted(c)

DeleteHead(c) ==
  /\ sending = c /\ queue[c] # <<>>
  /\ Finished(Current(c))
  /\ queue' = [queue EXCEPT ![c] = Tail(queue[c])]
  /\ UNCHANGED <<conn, asked, store, live, writable, sending, history>>

SendEnd(c) ==
  /\ sending = c /\ queue[c] = <<>>
  /\ writable' = writable \ {c}
  /\ sending' = NoClient
  /\ UNCHANGED <<conn, asked, store, live, queue, history>>

Command(c) ==
  \/ \E k \in Keys : Set(c, k) \/ Get(c, k)
  \/ BadArguments(c)
  \/ Unknown(c)

Progress(c) == (\E n \in {Half, Full} : Write(c, n)) \/ DeleteHead(c) \/ SendEnd(c)

Next ==
  \E c \in Clients :
    \/ Accept(c) \/ Command(c) \/ Disconnect(c) \/ SendBegin(c) \/ Progress(c)
      \/ WouldBlock(c) \/ WriteFails(c)

Spec == Init /\ [][Next]_vars

(* The loop dispatches every writable client, and a peer that stays        *)
(* connected reads, so that write does not answer EAGAIN for ever.         *)
Fairness == \A c \in Clients : SF_vars(SendBegin(c)) /\ SF_vars(Progress(c))

FairSpec == Spec /\ Fairness

-----------------------------------------------------------------------------
(* Type invariant, and that the values that are allocated are those in the *)
(* dict (cmd.c:119-124).                                                   *)
TypeOK ==
  /\ live = {store[k] : k \in Keys} \ {NoValue}
  /\ conn \in [Clients -> {"new", "open", "closed"}]
  /\ asked \in [Clients -> 0 .. MaxRequests]
  /\ store \in [Keys -> Objects \cup {NoValue}]
  /\ writable \subseteq Clients
  /\ sending \in Clients \cup {NoClient}
  /\ \A c \in Clients : \A i \in DOMAIN queue[c] :
       /\ queue[c][i].cur \in 1 .. Len(queue[c][i].pos)
       /\ \A j \in DOMAIN queue[c][i].pos : queue[c][i].pos[j] \in 0 .. Full

(* tcp_server.c:366-416, cmd.c:155-163: a client gets the replies of its   *)
(* commands, in their order, each byte once and with the value its key had *)
(* when the command ran.                                                   *)
Intact(c) == IsPrefix(got[c], due[c])

(* That holds of clients that take each item in one write and are owed no  *)
(* value that is overwritten before it is sent.  The rest of an item that  *)
(* one write did not take is sent from the item's start (tcp_server.c:391). *)
RepliesIntact == \A c \in Clients \ (stale \cup short) : Intact(c)

(* It should hold whatever is overwritten (cmd.c:160).                     *)
ValuesIntact == \A c \in Clients \ short : Intact(c)

(* tcp_server.c:167-168, 226-227, 329-330, 372-376, 412: while a reply     *)
(* waits, the client is registered for AE_WRITABLE.                        *)
WaitingIsArmed == \A c \in Clients : queue[c] # <<>> => c \in writable

(* tcp_server.c:367-416: replies that wait are all sent, unless the client *)
(* disconnects.                                                            *)
Answered == \A c \in Clients : queue[c] # <<>> ~> queue[c] = <<>>
=============================================================================
