--------------------------- MODULE MCSqlBuffering ---------------------------
(* Instances of SqlBuffering for TLC.                                      *)
EXTENDS SqlBuffering

AllFaults    == FaultKinds
DeadlockOnly == {"deadlock"}
=============================================================================
