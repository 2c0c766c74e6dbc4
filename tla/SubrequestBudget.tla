---------------------------- MODULE SubrequestBudget ----------------------------
(***************************************************************************)
(* The subrequest budget of one refresh (worker/src/index.ts).  Cloudflare *)
(* limits how many calls an invocation may make.  What was called up to    *)
(* the saving of articles is estimated afterwards; from then on every      *)
(* phase names its cost and is left out when the budget, less a reserve,   *)
(* does not reach for it.  The records of the run itself may use up the    *)
(* reserve.  Articles are held for their translations (ArticlePipeline). A *)
(* refresh that backpressure stops makes its records without asking, and   *)
(* the phase that only notes that a snapshot waits is left out.            *)
(***************************************************************************)
EXTENDS Integers

CONSTANTS
    SoftLimit,          \* getWorkerSubrequestSoftLimit
    ConfiguredReserve,  \* getWorkerSubrequestReserve
    TaskCost,           \* getSummaryTranslationTaskSubrequestCost
    TaskBudget,         \* getSummaryTranslationTaskBudget
    Estimates           \* what a refresh may have used before its first phase

ASSUME BudgetAssumption ==
    /\ SoftLimit \in Nat \ {0}
    /\ ConfiguredReserve \in Nat \ {0}
    /\ TaskCost \in Nat \ {0}
    /\ TaskBudget \in Nat
    /\ Estimates \subseteq Nat

VARIABLES
    phase,      \* the phase the refresh comes to next
    used,       \* estimatedUsed
    deferred,   \* deferredPhases
    estimate,   \* what was used before the first phase (history)
    translated, \* whether there are new summaries
    published   \* whether articles were published

budgetVars == <<phase, used, deferred, estimate, translated, published>>

Reserve == IF ConfiguredReserve < SoftLimit THEN ConfiguredReserve ELSE SoftLimit - 1

SummaryPersistence == 3     \* SUMMARY_PERSISTENCE_SUBREQUEST_RESERVE
RecoveryLookup == 3         \* SUMMARY_TRANSLATION_RECOVERY_LOOKUP_SUBREQUESTS
SnapshotCosts == {2, 29}    \* getPublicFeedSnapshotRefreshSubrequestCost, without and with KV
FeedHealthCost == 2
KvRunStateCost == 2

BudgetInit ==
    /\ phase = "articles"
    /\ used = 0
    /\ deferred = {}
    /\ estimate = 0
    /\ translated = FALSE
    /\ published = FALSE

-----------------------------------------------------------------------------

\* The records of the run are held to the reserve too.
ReserveKeptBug(cost) == used + cost + Reserve <= SoftLimit

AffordableFromReserve(cost) == used + cost <= SoftLimit

\* trySpendSubrequestBudget: what costs nothing is never refused.
Affordable(cost) == cost = 0 \/ used + cost + Reserve <= SoftLimit

Spend(name, cost, affordable) ==
    /\ used' = IF affordable THEN used + cost ELSE used
    /\ deferred' = IF affordable THEN deferred ELSE deferred \cup {name}

\* Nothing is kept back for what follows a translation.
NothingKeptBug == SoftLimit - Reserve - used

AvailableForTasks == SoftLimit - Reserve - used - SummaryPersistence

\* getSummaryTranslationTaskBudgetForSubrequests
TasksWithin ==
    LET fit == (AvailableForTasks - RecoveryLookup) \div TaskCost IN
    IF TaskBudget = 0 \/ AvailableForTasks <= RecoveryLookup THEN 0
    ELSE IF fit < TaskBudget THEN fit ELSE TaskBudget

BuildCost(tasks) == IF tasks = 0 THEN 0 ELSE RecoveryLookup + tasks * TaskCost

\* recordEstimatedSubrequests, once the accepted articles are saved or not.
RecordEstimate(articleSaveOk) ==
    /\ phase = "articles"
    /\ \E n \in Estimates : estimate' = n /\ used' = n
    /\ phase' = IF articleSaveOk /\ TaskBudget > 0 THEN "translations" ELSE "reviews"
    /\ UNCHANGED <<deferred, translated, published>>

BuildSummaries ==
    LET affordable == TasksWithin > 0 /\ Affordable(BuildCost(TasksWithin)) IN
    /\ phase = "translations"
    /\ Spend("article_summary_translation_build", BuildCost(TasksWithin), affordable)
    /\ translated' \in IF affordable THEN BOOLEAN ELSE {FALSE}
    /\ phase' = IF translated' THEN "summaries" ELSE "reviews"
    /\ UNCHANGED <<estimate, published>>

\* saved: whether the save is made and succeeds.
SaveSummaryRows(saved) ==
    /\ phase = "summaries"
    /\ saved => Affordable(1)
    /\ Spend("article_summary_save", 1, Affordable(1))
    /\ phase' = IF saved THEN "lookup" ELSE "reviews"
    /\ UNCHANGED <<estimate, translated, published>>

\* found: whether there is an article to publish.
LookUpTranslated(found) ==
    /\ phase = "lookup"
    /\ found => Affordable(1)
    /\ Spend("article_summary_publish_lookup", 1, Affordable(1))
    /\ phase' = IF found THEN "publish" ELSE "reviews"
    /\ UNCHANGED <<estimate, translated, published>>

PublishBatch(done) ==
    /\ phase = "publish"
    /\ done => Affordable(1)
    /\ Spend("article_publish", 1, Affordable(1))
    /\ published' = done
    /\ phase' = IF done THEN "snapshot" ELSE "reviews"
    /\ UNCHANGED <<estimate, translated>>

RefreshSnapshot ==
    /\ phase = "snapshot"
    /\ \E cost \in SnapshotCosts :
          Spend("public_feed_snapshot_refresh", cost, Affordable(cost))
    /\ phase' = "reviews"
    /\ UNCHANGED <<estimate, translated, published>>

SaveReviewRows(rows, saved) ==
    LET cost == IF rows THEN 1 ELSE 0 IN
    /\ phase = "reviews"
    /\ saved => Affordable(cost)
    /\ Spend("article_review_save", cost, Affordable(cost))
    /\ phase' = IF saved THEN "kv_urls" ELSE "feed_health"
    /\ UNCHANGED <<estimate, translated, published>>

RememberUrls(some) ==
    LET cost == IF some THEN 1 ELSE 0 IN
    /\ phase = "kv_urls"
    /\ Spend("kv_processed_url_save", cost, Affordable(cost))
    /\ phase' = "feed_health"
    /\ UNCHANGED <<estimate, translated, published>>

SaveFeedHealthRows(feeds) ==
    LET cost == IF feeds THEN FeedHealthCost ELSE 0 IN
    /\ phase = "feed_health"
    /\ Spend("feed_health_save", cost, Affordable(cost))
    /\ phase' = "ai_usage"
    /\ UNCHANGED <<estimate, translated, published>>

SaveAiUsage ==
    /\ phase = "ai_usage"
    /\ Spend("ai_usage_save", 1, Affordable(1))
    /\ phase' = "worker_run"
    /\ UNCHANGED <<estimate, translated, published>>

SaveWorkerRun ==
    /\ phase = "worker_run"
    /\ Spend("worker_run_save", 1, AffordableFromReserve(1))
    /\ phase' = "kv_run_state"
    /\ UNCHANGED <<estimate, translated, published>>

\* written: KV is there and the state is not one that is skipped.
SaveKvRunState(written) ==
    LET cost == IF written THEN KvRunStateCost ELSE 0 IN
    /\ phase = "kv_run_state"
    /\ Spend("kv_run_state_save", cost, cost = 0 \/ AffordableFromReserve(cost))
    /\ phase' = "redis_stats"
    /\ UNCHANGED <<estimate, translated, published>>

SaveRedisStats(enabled) ==
    LET cost == IF enabled THEN 1 ELSE 0 IN
    /\ phase = "redis_stats"
    /\ Spend("redis_stats_save", cost, Affordable(cost))
    /\ phase' = "done"
    /\ UNCHANGED <<estimate, translated, published>>

\* Every refresh has a budget of its own.
NextRefresh ==
    /\ phase = "done"
    /\ phase' = "articles"
    /\ used' = 0
    /\ deferred' = {}
    /\ estimate' = 0
    /\ translated' = FALSE
    /\ published' = FALSE

BudgetNext ==
    \/ \E b \in BOOLEAN :
          \/ RecordEstimate(b)
          \/ SaveSummaryRows(b)
          \/ LookUpTranslated(b)
          \/ PublishBatch(b)
          \/ RememberUrls(b)
          \/ SaveFeedHealthRows(b)
          \/ SaveKvRunState(b)
          \/ SaveRedisStats(b)
    \/ \E rows, saved \in BOOLEAN : SaveReviewRows(rows, saved)
    \/ BuildSummaries
    \/ RefreshSnapshot
    \/ SaveAiUsage
    \/ SaveWorkerRun
    \/ NextRefresh

BudgetSpec == BudgetInit /\ [][BudgetNext]_budgetVars

-----------------------------------------------------------------------------
(* Properties. *)

\* Summaries that were paid for are saved, looked up and published by the run that
\* made them: whatever was used before, however much the tasks cost and whichever
\* of them failed, the budget reaches for all three.
TranslationsPersistable ==
    deferred \cap {"article_summary_save", "article_summary_publish_lookup",
                   "article_publish"} = {}

\* A refresh that came to its phases within its limit can leave its records, the row
\* in worker_runs and the run state in KV, whichever phases it went through.
RunIsRecorded ==
    Reserve >= 1 + KvRunStateCost /\ estimate <= SoftLimit - Reserve =>
        deferred \cap {"worker_run_save", "kv_run_state_save"} = {}

\* The phases never take a refresh over its limit, unless it came to them over it.
LimitKept == used <= SoftLimit \/ used = estimate
=============================================================================
