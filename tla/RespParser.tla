----------------------------- MODULE RespParser -----------------------------
(***************************************************************************)
(* How Z_my_work_mem/tcp_server.c takes commands out of a byte stream: the *)
(* receive loop recv_cmd_handle and the parser _check_cmd_complete2, which *)
(* work on a fixed buffer that is never cleared, while the stream arrives  *)
(* in pieces of any size.  A byte is a string of length one.               *)
(***************************************************************************)
EXTENDS Integers, Sequences, SequencesExt

CONSTANTS Requests,  \* the command sequences clients send: each command is
                     \* the sequence of the lengths of its arguments; bound:
                     \* numbers of two digits
          BufLen     \* CLIENT_RECV_CMD_LENGTH

ASSUME ParserAssumption ==
  /\ BufLen \in Nat \ {0}
  /\ \A r \in Requests : /\ r \in Seq(Seq(1 .. 99))
                         /\ \A i \in DOMAIN r : Len(r[i]) \in 0 .. 99

VARIABLES request,   \* the commands of this client
          at,        \* bytes of the stream that have been read
          buf,       \* recv_cmd, with what earlier reads left in it
          recv_pos,  \* recv_pos; total_len while the parser runs
          pre,       \* the parser's pre
          cmd,       \* cur_cmd_item, or NoCmd
          out,       \* the commands handed to ALL_cmd
          phase,     \* "read", "parse", "closed"
          cut        \* a read has ended inside a "*n" or "$n" line

parserVars == <<request, at, buf, recv_pos, pre, cmd, out, phase, cut>>

NUL == "0x00"
CR  == "\r"
LF  == "\n"

Numeral ==
  [n \in 0 .. 9 |-> <<"0", "1", "2", "3", "4", "5", "6", "7", "8", "9">>[n + 1]]

Digit == [c \in {Numeral[n] : n \in 0 .. 9} |-> CHOOSE n \in 0 .. 9 : Numeral[n] = c]

-----------------------------------------------------------------------------
(* What a client sends. *)
Number(n) ==
  IF n < 10 THEN <<Numeral[n]>> ELSE <<Numeral[n \div 10], Numeral[n % 10]>>

Line(mark, n) == <<mark>> \o Number(n) \o <<CR, LF>>

(* An argument is kept with its header, as the server stores it. *)
Argument(n) == Line("$", n) \o [i \in 1 .. n |-> "x"] \o <<CR, LF>>

Arguments(c) == [i \in DOMAIN c |-> Argument(c[i])]

Encode(c) == Line("*", Len(c)) \o FlattenSeq(Arguments(c))

StreamOf == [r \in Requests |-> FlattenSeq([i \in DOMAIN r |-> Encode(r[i])])]

Stream == StreamOf[request]

Expected == [i \in DOMAIN request |-> Arguments(request[i])]

-----------------------------------------------------------------------------
NoCmd == [args |-> 0, items |-> <<>>, length |-> 0, part |-> <<>>]

(* The item being received: its length is known and it is incomplete.      *)
InItem == cmd # NoCmd /\ cmd.length > Len(cmd.part)

ParserInit ==
  /\ request \in Requests
  /\ at = 0
  /\ buf = [i \in 0 .. BufLen - 1 |-> NUL]
  /\ recv_pos = 0 /\ pre = 0
  /\ cmd = NoCmd /\ out = <<>> /\ phase = "read" /\ cut = FALSE

Smaller(a, b) == IF a < b THEN a ELSE b

(* The positions inside a header line, where nobody expects a read to end. *)
InLine(str, p) ==
  \E i \in 1 .. p : str[i] \in {"*", "$"} /\ \A j \in i .. p : str[j] # LF

LinesOf == [r \in Requests |-> {p \in 1 .. Len(StreamOf[r]) : InLine(StreamOf[r], p)}]

(* What read(2) may return, given room for so many bytes. *)
Sizes(room) == 1 .. Smaller(room, Len(Stream) - at)

Reads(n) ==
  /\ at' = at + n
  /\ cut' = (cut \/ at' \in LinesOf[request])

Arrived(n) == SubSeq(Stream, at + 1, at + n)

(* The command with one more item complete. *)
WithItem(item) == [NoCmd EXCEPT !.args = cmd.args, !.items = Append(cmd.items, item)]

WrongItemDone(c) ==
  IF Len(c.items) > c.args
  THEN out' = Append(out, c.items) /\ cmd' = NoCmd
  ELSE cmd' = c /\ UNCHANGED out

(* Taken when the last item is complete: ALL_cmd runs the command.         *)
ItemDone(c) ==
  IF Len(c.items) >= c.args
  THEN out' = Append(out, c.items) /\ cmd' = NoCmd
  ELSE cmd' = c /\ UNCHANGED out

(* recv_cmd_handle, first branch: the rest of an item goes to its value.   *)
ReadItem(n) ==
  /\ phase = "read" /\ InItem
  /\ n \in Sizes(cmd.length - Len(cmd.part))
  /\ Reads(n)
  /\ LET part == cmd.part \o Arrived(n)
     IN IF Len(part) >= cmd.length
        THEN recv_pos' = 0 /\ ItemDone(WithItem(part))
        ELSE cmd' = [cmd EXCEPT !.part = part] /\ UNCHANGED <<recv_pos, out>>
  /\ UNCHANGED <<request, buf, pre, phase>>

(* Second branch: into the buffer, behind what is kept there.              *)
Stored(n) ==
  [i \in DOMAIN buf |-> IF i \in recv_pos .. recv_pos + n - 1
                        THEN Stream[at + 1 + i - recv_pos] ELSE buf[i]]

ReadBuffer(n) ==
  /\ phase = "read" /\ ~InItem
  /\ n \in Sizes(BufLen - recv_pos)
  /\ Reads(n)
  /\ buf' = Stored(n)
  /\ recv_pos' = recv_pos + n
  /\ pre' = 0
  /\ phase' = "parse"
  /\ UNCHANGED <<request, cmd, out>>

(* A read of no bytes returns 0, which passes for a disconnect.            *)
ReadNothing ==
  /\ phase = "read" /\ ~InItem /\ recv_pos = BufLen
  /\ phase' = "closed"
  /\ UNCHANGED <<request, at, buf, recv_pos, pre, cmd, out, cut>>

-----------------------------------------------------------------------------
(* strstr(from, "\r\n"): it stops at a NUL, not at the end of what was     *)
(* read.  BufLen stands for NULL.                                          *)
LineEnd(from) ==
  LET hits == {j \in from .. BufLen - 2 : /\ buf[j] = CR /\ buf[j + 1] = LF
                                          /\ \A i \in from .. j : buf[i] # NUL}
  IN IF hits = {} THEN BufLen ELSE CHOOSE j \in hits : \A k \in hits : j <= k

(* atoi of the bytes from .. to. *)
Atoi(from, to) ==
  LET digits == {i \in from .. to : \A j \in from .. i : buf[j] \in DOMAIN Digit}
      step[i \in from - 1 .. to] ==
        IF i = from - 1 THEN 0
        ELSE IF i \in digits THEN 10 * step[i - 1] + Digit[buf[i]] ELSE step[i - 1]
  IN step[to]

(* Back to the receive loop, with nothing kept in the buffer.              *)
Drop ==
  /\ recv_pos' = 0 /\ phase' = "read"
  /\ UNCHANGED <<buf, pre>>

(* Back to the receive loop with an incomplete line, moved to the front.   *)
MovedBuf(p) ==
  [i \in DOMAIN buf |-> IF i < recv_pos - p THEN buf[p + i] ELSE buf[i]]

KeepFrom(p) ==
  /\ buf' = MovedBuf(p)
  /\ recv_pos' = recv_pos - p
  /\ phase' = "read"
  /\ UNCHANGED pre

(* _free_client_cur_cmd: without a current command it does nothing.        *)
Reject ==
  /\ recv_pos' = IF cmd = NoCmd THEN recv_pos ELSE 0
  /\ cmd' = NoCmd
  /\ phase' = "read"
  /\ UNCHANGED <<pre, out>>

StarAt == {i \in pre .. recv_pos - 1 :
             buf[i] = "*" /\ \A j \in pre .. i - 1 : buf[j] # "*"}

(* The line that starts a command.  The CR stays overwritten by a NUL.     *)
ParseStar ==
  /\ phase = "parse" /\ cmd = NoCmd
  /\ IF StarAt = {} THEN Drop /\ UNCHANGED <<cmd, out>>
     ELSE \E star \in StarAt :
          LET end  == LineEnd(star)
              args == Atoi(star + 1, end - 1)
          IN IF end = BufLen
             THEN KeepFrom(star) /\ UNCHANGED <<cmd, out>>
             ELSE /\ buf' = [buf EXCEPT ![end] = NUL]
                  /\ IF args = 0 THEN Reject
                     ELSE /\ cmd' = [NoCmd EXCEPT !.args = args]
                          /\ pre' = end + 2
                          /\ UNCHANGED <<recv_pos, out, phase>>
  /\ UNCHANGED <<request, at, cut>>

WrongItemLength(from, end) == Atoi(from + 1, end - 1) + 1 + (end - from - 1) + 2

(* One argument: header, payload and the line end behind it.               *)
ItemLength(from, end) == Atoi(from + 1, end - 1) + 1 + (end - from - 1) + 2 + 2

(* Only part of it is in the buffer: the receive loop gets the rest. *)
BeginItem(num) ==
  /\ cmd' = [cmd EXCEPT !.length = num,
                        !.part = [i \in 1 .. recv_pos - pre |-> buf[pre + i - 1]]]
  /\ Drop
  /\ UNCHANGED out

TakeItem(num) ==
  /\ ItemDone(WithItem([i \in 1 .. num |-> buf[pre + i - 1]]))
  /\ pre' = pre + num
  /\ IF cmd' = NoCmd /\ pre' >= recv_pos
     THEN recv_pos' = 0 /\ phase' = "read"
     ELSE UNCHANGED <<recv_pos, phase>>
  /\ UNCHANGED buf

ParseItem ==
  /\ phase = "parse" /\ cmd # NoCmd
  /\ LET end == LineEnd(pre)
         num == ItemLength(pre, end)
     IN IF pre >= recv_pos THEN Drop /\ UNCHANGED <<cmd, out>>
        ELSE IF buf[pre] # "$" THEN Reject /\ UNCHANGED buf
        ELSE IF end = BufLen THEN KeepFrom(pre) /\ UNCHANGED <<cmd, out>>
        ELSE IF num <= 5 THEN Reject /\ UNCHANGED buf
        ELSE IF pre + num > recv_pos THEN BeginItem(num) ELSE TakeItem(num)
  /\ UNCHANGED <<request, at, cut>>

ParserNext ==
  \/ \E n \in Sizes(Len(Stream)) : ReadItem(n) \/ ReadBuffer(n)
  \/ ReadNothing
  \/ ParseStar
  \/ ParseItem

ParserSpec == ParserInit /\ [][ParserNext]_parserVars

-----------------------------------------------------------------------------
(* Type invariant, and that bytes are in one place at a time               *)
(* (tcp_server.c:303-361): while the rest of an item is read straight into *)
(* its value, no earlier byte waits in the buffer.                         *)
ParserTypeOK ==
  /\ InItem => phase = "closed" \/ (phase = "read" /\ recv_pos = 0)
  /\ request \in Requests
  /\ at \in 0 .. Len(Stream)
  /\ DOMAIN buf = 0 .. BufLen - 1
  /\ recv_pos \in 0 .. BufLen /\ pre \in 0 .. BufLen
  /\ cmd # NoCmd => Len(cmd.items) < cmd.args
  /\ Len(cmd.part) <= cmd.length
  /\ phase \in {"read", "parse", "closed"}

(* tcp_server.c:292-297: the commands executed are the commands sent, in   *)
(* their order and with their arguments, however the stream is cut into    *)
(* reads, and none is missing once the stream has been read.               *)
WellFormed == \A i \in DOMAIN request : request[i] # <<>>

CommandsAsSent ==
  WellFormed =>
    /\ IsPrefix(out, Expected)
    /\ phase = "read" /\ at = Len(Stream) => out = Expected

(* The same, as far as the code keeps it: while every header line arrives  *)
(* in one read, whatever happens to the arguments.  Nor does the buffer    *)
(* then fill with an unfinished line, which would end the connection       *)
(* (tcp_server.c:339-350).                                                 *)
WholeLinesAsSent == cut \/ (CommandsAsSent /\ (WellFormed => phase # "closed"))
=============================================================================
