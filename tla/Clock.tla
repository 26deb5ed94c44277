-------------------------------- MODULE Clock --------------------------------
(***************************************************************************)
(* The wall clock of the machine in seconds, as currentSecsSinceEpoch and  *)
(* system_clock read it.  It stands still between two readings, or moves   *)
(* on; the caches and the cool-down gates share it.                        *)
(***************************************************************************)
EXTENDS Naturals

CONSTANT MaxTime    \* bound: the last second of a behaviour

ASSUME ClockAssumption == MaxTime \in Nat \ {0}

VARIABLE now

\* Second 0 is the epoch: no program runs there.
Times == 1..MaxTime

Tick == now < MaxTime /\ now' = now + 1
=============================================================================
