------------------------------- MODULE FeedHealth -------------------------------
(***************************************************************************)
(* The counters the worker keeps of one feed (worker/src/index.ts).  A run *)
(* fetches the feed and, near its end, reads the feed's row and writes it  *)
(* back with one fetch more.  Runs overlap when the run lock does not hold *)
(* them apart (RefreshRuns), the read and the write may fail, and a run    *)
(* may have no budget left for them (SubrequestBudget).  The counters of   *)
(* articles, images and decisions are kept in the same way as those of     *)
(* fetches.                                                                *)
(***************************************************************************)
EXTENDS FaultyCalls, FiniteSets, Sequences

CONSTANTS
    FeedRuns,   \* slots for runs of the feed's shard
    MaxFetches  \* bound on fetches of the feed

ASSUME FeedHealthAssumption == MaxFetches \in Nat

VARIABLES
    health,     \* the feed's row; without a row, all zeros
    healthPc,   \* the step each run comes to next
    fetchOk,    \* whether its fetch succeeded
    previous,   \* the row it has read
    fetched,    \* whether each fetch of the feed so far succeeded (history)
    disturbed   \* whether a run was not counted as it happened (history)

healthState == <<health, healthPc, fetchOk, previous, fetched, disturbed>>
healthVars == <<healthState, faults>>

NoHealth == [total |-> 0, success |-> 0, failure |-> 0, consecutive |-> 0]

HealthInit ==
    /\ health = NoHealth
    /\ healthPc = [r \in FeedRuns |-> "idle"]
    /\ fetchOk = [r \in FeedRuns |-> FALSE]
    /\ previous = [r \in FeedRuns |-> NoHealth]
    /\ fetched = <<>>
    /\ disturbed = FALSE

-----------------------------------------------------------------------------

\* Only a failure touches the failures in a row.
NeverResetBug(row, ok) ==
    [total       |-> row.total + 1,
     success     |-> row.success + (IF ok THEN 1 ELSE 0),
     failure     |-> row.failure + (IF ok THEN 0 ELSE 1),
     consecutive |-> row.consecutive + (IF ok THEN 0 ELSE 1)]

\* buildFeedHealthRows
Counted(row, ok) ==
    [total       |-> row.total + 1,
     success     |-> row.success + (IF ok THEN 1 ELSE 0),
     failure     |-> row.failure + (IF ok THEN 0 ELSE 1),
     consecutive |-> IF ok THEN 0 ELSE row.consecutive + 1]

OthersIdle(r) == \A q \in FeedRuns \ {r} : healthPc[q] = "idle"

EndFeedRun(r) ==
    /\ healthPc' = [healthPc EXCEPT ![r] = "idle"]
    /\ fetchOk' = [fetchOk EXCEPT ![r] = FALSE]
    /\ previous' = [previous EXCEPT ![r] = NoHealth]

\* fetchSingleFeed: an error status, a timeout and an exception are alike.
FetchFeed(r, ok) ==
    /\ healthPc[r] = "idle"
    /\ Len(fetched) < MaxFetches
    /\ fetched' = Append(fetched, ok)
    /\ fetchOk' = [fetchOk EXCEPT ![r] = ok]
    /\ healthPc' = [healthPc EXCEPT ![r] = "read"]
    /\ disturbed' = (disturbed \/ ~OthersIdle(r))
    /\ UNCHANGED <<health, previous, faults>>

\* A failed lookup is as no rows (getFeedHealthSnapshots).
ReadHealth(r, answered) ==
    /\ healthPc[r] = "read"
    /\ Fault(~answered)
    /\ previous' = [previous EXCEPT ![r] = IF answered THEN health ELSE NoHealth]
    /\ healthPc' = [healthPc EXCEPT ![r] = "save"]
    /\ disturbed' = (disturbed \/ ~answered)
    /\ UNCHANGED <<health, fetchOk, fetched>>

\* saveFeedHealthBatch, resolution=merge-duplicates
SaveHealth(r, outcome) ==
    /\ healthPc[r] = "save"
    /\ Call(outcome)
    /\ health' = IF outcome = "failed" THEN health ELSE Counted(previous[r], fetchOk[r])
    /\ disturbed' = (disturbed \/ outcome = "failed")
    /\ EndFeedRun(r)
    /\ UNCHANGED fetched

\* The budget does not reach for the two calls, or the run is cut off.
NotCounted(r) ==
    /\ healthPc[r] # "idle"
    /\ disturbed' = TRUE
    /\ EndFeedRun(r)
    /\ UNCHANGED <<health, fetched, faults>>

HealthNext ==
    \E r \in FeedRuns :
        \/ \E ok \in BOOLEAN : FetchFeed(r, ok)
        \/ \E answered \in BOOLEAN : ReadHealth(r, answered)
        \/ \E outcome \in Outcomes : SaveHealth(r, outcome)
        \/ NotCounted(r)

HealthSpec == HealthInit /\ faults = 0 /\ [][HealthNext]_healthVars

-----------------------------------------------------------------------------
(* Properties. *)

Successes == {i \in DOMAIN fetched : fetched[i]}

\* How many fetches there have been since the last success.
FailuresInARow == Cardinality({i \in DOMAIN fetched : \A j \in Successes : j < i})

\* However runs overlap, and whatever fails, the row never blames or praises the feed
\* for fetches there were not, and its counters fit together; while runs come one
\* after another and are saved, they are exact, the failures in a row included.
FeedHealthSound ==
    /\ health.total = health.success + health.failure
    /\ health.success <= Cardinality(Successes)
    /\ health.failure <= Len(fetched) - Cardinality(Successes)
    /\ health.consecutive <= health.failure
    /\ ~disturbed /\ (\A r \in FeedRuns : healthPc[r] = "idle") =>
           health.total = Len(fetched) /\ health.consecutive = FailuresInARow
=============================================================================
