------------------------------ MODULE MCActions ------------------------------
(***************************************************************************)
(* Operators at work beside what runs by itself, for TLC: a behaviour is   *)
(* one of the controller (FailoverController) or of the live-origin check  *)
(* (LiveOrigin) with manual actions.  The two share no state.              *)
(***************************************************************************)
EXTENDS MCFailover, LiveOrigin

VARIABLE part

ActionsInit ==
    /\ part \in {"controller", "live_origin"}
    /\ Init
    /\ LiveInit
    /\ faults = 0

ActionsNext ==
    /\ part' = part
    /\ \/ part = "controller" /\ Next /\ UNCHANGED liveVars
       \/ part = "live_origin" /\ LiveNext /\ UNCHANGED vars

ActionsSpec == ActionsInit /\ [][ActionsNext]_<<vars, liveVars, part>>
=============================================================================
