-------------------------------- MODULE Power --------------------------------
(***************************************************************************)
(* The faults of the device: power that is lost, a write that fails.        *)
(***************************************************************************)
EXTENDS Integers

CONSTANT MaxFaults   \* bound: faults in a behaviour
VARIABLE faults      \* faults so far

Fault == faults < MaxFaults /\ faults' = faults + 1
=============================================================================
