------------------------------ MODULE MCBackfill ------------------------------
(***************************************************************************)
(* Two articles and two languages for TLC, both of which the worker waits  *)
(* for; the script is run with either one or both.                         *)
(***************************************************************************)
EXTENDS SummaryBackfill, TLC

CONSTANTS b1, b2, fr, ja

MCNewestFirst == b1 :> 1 @@ b2 :> 2
MCCodes == fr :> 1 @@ ja :> 2
MCLanguageChoices == {{fr}, {fr, ja}}
=============================================================================
