----------------------------- MODULE MCPrograms -----------------------------
(***************************************************************************)
(* Instances of the smaller parts of the repository for TLC: the lists of  *)
(* list.h, the signals of the event loop, the shared continuum, the        *)
(* upgrade client and the atom server.  They have nothing to do with each  *)
(* other: a behaviour is of one of them, the others stay as they start.    *)
(***************************************************************************)
EXTENDS ListWalks, AeSignals, Ketama, Upgrade, AtomServer

VARIABLE subject

vars == <<subject, listVars, hlistVars, signalVars, ketamaVars, upgradeVars, atomVars>>

Init ==
  /\ subject \in {"lists", "hlists", "signals", "ketama", "upgrade", "atom"}
  /\ ListInit /\ HlistInit /\ SignalInit /\ KetamaInit /\ UpgradeInit /\ AtomInit

ListsMove == subject = "lists" /\ ListNext
HlistsMove == subject = "hlists" /\ HlistNext
SignalsMove == subject = "signals" /\ SignalNext
KetamaMoves == subject = "ketama" /\ KetamaNext
UpgradeMoves == subject = "upgrade" /\ UpgradeNext
AtomMoves == subject = "atom" /\ AtomNext

Next ==
  /\ UNCHANGED subject
  /\ \/ ListsMove /\ UNCHANGED <<hlistVars, signalVars, ketamaVars, upgradeVars, atomVars>>
     \/ HlistsMove /\ UNCHANGED <<listVars, signalVars, ketamaVars, upgradeVars, atomVars>>
     \/ SignalsMove /\ UNCHANGED <<listVars, hlistVars, ketamaVars, upgradeVars, atomVars>>
     \/ KetamaMoves /\ UNCHANGED <<listVars, hlistVars, signalVars, upgradeVars, atomVars>>
     \/ UpgradeMoves /\ UNCHANGED <<listVars, hlistVars, signalVars, ketamaVars, atomVars>>
     \/ AtomMoves /\ UNCHANGED <<listVars, hlistVars, signalVars, ketamaVars, upgradeVars>>

(* The parts' own fairness; those that stay as they start have nothing to  *)
(* run.                                                                    *)
Spec == Init /\ [][Next]_vars /\ SignalFairness /\ KetamaFairness /\ UpgradeFairness

-----------------------------------------------------------------------------
(* A file without servers, one with two servers that share a point, and    *)
(* one with a single server.                                               *)
MCPoints == <<<<>>, <<2, 4, 4, 7>>, <<3>>>>
Continua == [v \in 0 .. MaxVersion |-> MCPoints[v + 1]]

(***************************************************************************)
(* A call of ketama_roll and a run of the upgrade tool come to an end, see *)
(* RollReturns and ToolEnds.                                               *)
(***************************************************************************)
CallsReturn == RollReturns /\ ToolEnds
=============================================================================
