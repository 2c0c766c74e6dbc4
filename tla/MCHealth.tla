------------------------------ MODULE MCHealth ------------------------------
(***************************************************************************)
(* What is repeated at intervals or by hand until it succeeds, for TLC: a  *)
(* behaviour is one of the controller's health checks (FailoverController) *)
(* or of the backfill script beside the worker (SummaryBackfill).  The two *)
(* share no state.                                                         *)
(***************************************************************************)
EXTENDS MCFailover, MCBackfill

VARIABLE part

HealthInit ==
    /\ part \in {"health", "backfill"}
    /\ Init
    /\ BackfillInit

HealthNext ==
    /\ part' = part
    /\ \/ part = "health" /\ Next /\ UNCHANGED backfillState
       \/ part = "backfill" /\ BackfillNext /\ UNCHANGED vars

HealthSpec == HealthInit /\ [][HealthNext]_<<vars, backfillState, part>>
=============================================================================
