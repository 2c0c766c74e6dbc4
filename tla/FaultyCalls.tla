------------------------------- MODULE FaultyCalls -------------------------------
(***************************************************************************)
(* The ingestion worker's calls to its stores and services: each may fail, *)
(* or be applied and its answer be lost.  Failures are counted, so that a  *)
(* run can bound them.                                                     *)
(***************************************************************************)
EXTENDS Integers

CONSTANT MaxFaults  \* bound on failed calls, lost answers and runs that are cut off

ASSUME FaultsAssumption == MaxFaults \in Nat

VARIABLE faults

\* How a call ends: answered; applied, but the answer is lost; not applied.
Outcomes == {"answered", "lost", "failed"}

Fault(happens) ==
    IF happens THEN faults < MaxFaults /\ faults' = faults + 1 ELSE faults' = faults

Call(outcome) == Fault(outcome # "answered")
=============================================================================
