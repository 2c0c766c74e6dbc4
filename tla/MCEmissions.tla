---------------------------- MODULE MCEmissions ----------------------------
(***************************************************************************)
(* What is decided again and again from a record of earlier decisions, for *)
(* TLC: a behaviour is one of the alerts, sent or left out as rate limited *)
(* (FailoverAlerts), or of the articles that refreshes choose for review   *)
(* (CandidateSelection).  The two share no state.                          *)
(***************************************************************************)
EXTENDS MCAlerts, MCSelection

VARIABLE part

\* The feeds and pages do not matter to the alerts.
EmissionInit ==
    /\ part \in {"alerts", "selection"}
    /\ Init
    /\ SelectionInit
    /\ part = "alerts" => feedList = 1 /\ pageOf = [u \in Urls |-> 1]

EmissionNext ==
    /\ part' = part
    /\ \/ part = "alerts" /\ Next /\ UNCHANGED selectionState
       \/ part = "selection" /\ SelectionNext /\ UNCHANGED vars

EmissionSpec ==
    /\ EmissionInit
    /\ [][EmissionNext]_<<vars, selectionState, part>>
    /\ part = "alerts" => EmissionFairness
=============================================================================
