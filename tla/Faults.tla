------------------------------- MODULE Faults -------------------------------
(***************************************************************************)
(* What goes wrong around a service: calls that fail and processes that    *)
(* restart, a bounded number of times in a behaviour.                      *)
(***************************************************************************)
EXTENDS Integers

CONSTANT MaxFaults  \* bound: failed calls and restarts in a behaviour

ASSUME FaultsAssumption == MaxFaults \in Nat

VARIABLE faults  \* failed calls and restarts so far

Fault == faults < MaxFaults /\ faults' = faults + 1
=============================================================================
