--------------------------- MODULE MCAeFileEvents ---------------------------
(* Instances of AeFileEvents for TLC. *)
EXTENDS AeFileEvents

(* A socket whose peer hangs up is readable too. *)
Sockets == {{}, {"in"}, {"in", "out"}, {"in", "hup"}}
=============================================================================
