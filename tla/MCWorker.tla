-------------------------------- MODULE MCWorker --------------------------------
(***************************************************************************)
(* The instance of the ingestion worker's modules for TLC.  They share     *)
(* nothing but the bound on faults, so one run checks them side by side:   *)
(* every behaviour is one of a single part.                                *)
(***************************************************************************)
EXTENDS ArticlePipeline, PublicFeed, SubrequestBudget, FeedHealth, ProviderCalls,
        DatabaseModes, IngestionScheduling, ManualRateLimit

CONSTANTS s1, s2, u1, fr, de, cache, r1, r2, w1, w2, c1, c2, q1, q2, q3

VARIABLE part

workerState == <<pipelineState, feedState, budgetVars, healthState, providerVars, dbState,
                 scheduleVars, rateState>>

workerVars == <<workerState, faults, part>>

MCInit ==
    /\ part \in {"pipeline", "feed", "budget", "health", "providers", "databases", "schedule",
                 "rate_limit"}
    /\ faults = 0
    /\ Init
    /\ FeedInit
    /\ BudgetInit
    /\ HealthInit
    /\ ProviderInit
    /\ DbInit
    /\ ScheduleInit
    /\ RateInit

\* What the step of one part leaves alone.
Apart(name) ==
    /\ part = name
    /\ part' = part
    /\ name # "pipeline" => UNCHANGED pipelineState
    /\ name # "feed" => UNCHANGED feedState
    /\ name # "budget" => UNCHANGED budgetVars
    /\ name # "health" => UNCHANGED healthState
    /\ name # "providers" => UNCHANGED providerVars
    /\ name # "databases" => UNCHANGED dbState
    /\ name # "schedule" => UNCHANGED scheduleVars
    /\ name # "rate_limit" => UNCHANGED rateState

\* The history of the feed's fetches is full.
HealthEnds ==
    /\ part = "health"
    /\ Len(fetched) = MaxFetches
    /\ \A r \in FeedRuns : healthPc[r] = "idle"
    /\ UNCHANGED workerVars

MCNext ==
    \/ Apart("pipeline") /\ Next
    \/ Apart("feed") /\ FeedNext
    \/ Apart("budget") /\ BudgetNext /\ UNCHANGED faults
    \/ Apart("health") /\ HealthNext
    \/ HealthEnds
    \/ Apart("providers") /\ ProviderNext /\ UNCHANGED faults
    \/ Apart("databases") /\ DbNext
    \/ Apart("schedule") /\ ScheduleNext /\ UNCHANGED faults
    \/ Apart("rate_limit") /\ RateNext

\* The fairness of FairSpec, with one of the interchangeable shards, and of
\* RateFairSpec, each in its part.
MCFairness ==
    /\ WF_vars(part = "pipeline" /\ RunStep(s1))
    /\ SF_vars(part = "pipeline" /\ Backlog(s1))
    /\ WF_rateVars(part = "rate_limit" /\ Tick)
    /\ \A r \in Requests : WF_rateVars(part = "rate_limit" /\ SendsExpire(r))

MCSpec == MCInit /\ [][MCNext]_workerVars /\ MCFairness
=============================================================================
