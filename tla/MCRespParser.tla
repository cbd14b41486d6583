---------------------------- MODULE MCRespParser ----------------------------
(* Instances of RespParser for TLC. *)
EXTENDS RespParser

(* A command with an argument longer than the buffer, and one more; two  *)
(* short commands that can come in one read; and an empty command in front *)
(* of another, which the parser never gets past.                           *)
SomeRequests ==
  {<<<<2, 10>>, <<1>>>>, <<<<1>>, <<1, 1>>>>, <<<<>>, <<3>>>>}

(* The comment's "set name bojianbin". *)
OneRequest == {<<<<3, 4, 9>>>>}
=============================================================================
