--------------------------- MODULE WorkerCallsProofs ---------------------------
(*****************************************************************************)
(* What a run may spend and whom it asks: what the subrequest budget of a    *)
(* refresh guarantees, for any limit, reserve, cost and number of            *)
(* translations and any earlier use, and that the providers are exhausted    *)
(* before an article is rejected, for any number of tasks and callers.       *)
(*****************************************************************************)
EXTENDS SubrequestBudget, ProviderCalls, TLAPS

-----------------------------------------------------------------------------
(* The subrequest budget. *)

Phases == {"articles", "translations", "summaries", "lookup", "publish", "snapshot", "reviews",
           "kv_urls", "feed_health", "ai_usage", "worker_run", "kv_run_state", "redis_stats",
           "done"}

BudgetTypes ==
    /\ phase \in Phases
    /\ used \in Nat
    /\ estimate \in Nat
    /\ phase = "articles" => deferred = {}

\* What the steps after a translation still need.
Due ==
    CASE phase = "summaries" -> 3
      [] phase = "lookup"    -> 2
      [] phase = "publish"   -> 1
      [] OTHER               -> 0

\* Between the translations and the publishing of what they made, the budget has kept
\* what is due.
KeptInv == Due > 0 => used + Due + Reserve <= SoftLimit

\* What a refresh that came within its limit has used up to its records: all but the
\* reserve, which its row in worker_runs is the first to touch.
WithinInv ==
    estimate <= SoftLimit - Reserve =>
        /\ phase \notin {"redis_stats", "done", "kv_run_state"} => used <= SoftLimit - Reserve
        /\ phase = "kv_run_state" => used <= SoftLimit - Reserve + 1

BudgetInv == BudgetTypes /\ KeptInv /\ TranslationsPersistable /\ WithinInv /\ RunIsRecorded
             /\ LimitKept

LEMMA ReserveBounds == Reserve \in Nat /\ SoftLimit - Reserve \in Nat \ {0}
BY BudgetAssumption DEF Reserve

\* As many tasks as are granted fit into what is left, with what is due after them.
LEMMA TasksFit ==
    ASSUME used \in Nat
    PROVE  /\ TasksWithin \in Int
           /\ BuildCost(TasksWithin) \in Int
           /\ TasksWithin > 0 => BuildCost(TasksWithin) \in Nat
           /\ TasksWithin > 0 => BuildCost(TasksWithin) <= AvailableForTasks
<1> USE BudgetAssumption, ReserveBounds
<1>1. AvailableForTasks \in Int
  BY DEF AvailableForTasks, SummaryPersistence
<1> DEFINE room == AvailableForTasks - RecoveryLookup
           fit == room \div TaskCost
<1>2. room \in Int
  BY <1>1 DEF RecoveryLookup
<1>3. fit \in Int /\ fit * TaskCost <= room
  <2>1. \A a \in Int, b \in Nat \ {0} : a \div b \in Int /\ (a \div b) * b <= a
    BY SMTT(30)
  <2> QED BY <1>2, <2>1
<1>4. TasksWithin \in Int /\ (TasksWithin > 0 => TasksWithin <= fit)
  BY <1>2, <1>3 DEF TasksWithin
<1>5. TasksWithin > 0 => TasksWithin * TaskCost <= fit * TaskCost
  <2>1. \A m, n \in Int, k \in Nat : m <= n => m * k <= n * k
    BY SMTT(30)
  <2> QED BY <1>3, <1>4, <2>1
<1>6. TasksWithin * TaskCost \in Int /\ (TasksWithin > 0 => TasksWithin * TaskCost > 0)
  <2>1. \A m \in Int, k \in Nat \ {0} : m * k \in Int /\ (m > 0 => m * k > 0)
    BY SMTT(30)
  <2> QED BY <1>4, <2>1
<1>7. TasksWithin > 0 => TasksWithin * TaskCost <= room
  <2>1. fit * TaskCost \in Int
    BY <1>3
  <2> QED BY <1>2, <1>3, <1>5, <1>6, <2>1
<1> QED BY <1>1, <1>2, <1>4, <1>6, <1>7 DEF BuildCost, RecoveryLookup

-----------------------------------------------------------------------------

LEMMA BudgetStart == ASSUME BudgetInit PROVE BudgetInv
<1> USE BudgetAssumption, ReserveBounds DEF BudgetInit
<1>1. BudgetTypes /\ KeptInv
  BY DEF BudgetTypes, Phases, KeptInv, Due
<1>2. TranslationsPersistable /\ RunIsRecorded
  BY DEF TranslationsPersistable, RunIsRecorded
<1>3. WithinInv /\ LimitKept
  BY DEF WithinInv, LimitKept
<1> QED BY <1>1, <1>2, <1>3 DEF BudgetInv

\* A phase that may be left out, and is none of those the properties speak of.
LEMMA OrdinaryPhase ==
    ASSUME BudgetInv, NEW name, NEW cost \in Nat, Spend(name, cost, Affordable(cost)),
           estimate' = estimate, phase' \in Phases \ {"articles", "kv_run_state"}, Due' = 0,
           phase \notin {"redis_stats", "done", "kv_run_state"},
           name \notin {"article_summary_save", "article_summary_publish_lookup",
                        "article_publish", "worker_run_save", "kv_run_state_save"}
    PROVE  BudgetInv'
<1> USE ReserveBounds, BudgetAssumption DEF BudgetInv, Spend
<1>1. Reserve' = Reserve
  BY DEF Reserve
<1>2. used' \in Nat /\ used' >= used /\ (used' = used \/ used' + Reserve <= SoftLimit)
  BY DEF BudgetTypes, Affordable
<1>3. BudgetTypes' /\ KeptInv'
  BY <1>1, <1>2 DEF BudgetTypes, KeptInv
<1>4. TranslationsPersistable' /\ RunIsRecorded'
  BY <1>1 DEF TranslationsPersistable, RunIsRecorded
<1>5. WithinInv' /\ LimitKept'
  BY <1>1, <1>2 DEF WithinInv, LimitKept, BudgetTypes
<1> QED BY <1>3, <1>4, <1>5

\* A phase between a translation and its publishing: what it costs is due.
LEMMA DuePhase ==
    ASSUME BudgetInv, NEW name, Spend(name, 1, Affordable(1)),
           estimate' = estimate, phase' \in Phases \ {"articles", "kv_run_state"},
           NEW now \in 1..3, Due = now, NEW then \in 0..2, Due' = then, then < now,
           phase \notin {"redis_stats", "done", "kv_run_state"}
    PROVE  BudgetInv' /\ deferred' = deferred
<1>1. Reserve' = Reserve /\ Reserve \in Nat /\ SoftLimit \in Nat
  BY ReserveBounds, BudgetAssumption DEF Reserve
<1>2. used \in Nat /\ estimate \in Nat /\ used + now + Reserve <= SoftLimit
  BY DEF BudgetInv, BudgetTypes, KeptInv
<1>3. Affordable(1)
  BY <1>1, <1>2 DEF Affordable
<1>4. used' = used + 1 /\ deferred' = deferred
  BY <1>3 DEF Spend
<1>5. used' \in Nat /\ used' + then + Reserve <= SoftLimit
  BY <1>1, <1>2, <1>4
<1>6. BudgetTypes' /\ KeptInv'
  BY <1>1, <1>2, <1>5 DEF BudgetTypes, KeptInv
<1>7. TranslationsPersistable' /\ RunIsRecorded'
  BY <1>1, <1>4 DEF BudgetInv, TranslationsPersistable, RunIsRecorded
<1>8. used' <= SoftLimit - Reserve
  <2>1. \A u, r, l \in Nat, e \in 0..2 : u + e + r <= l => u <= l - r
    OBVIOUS
  <2> QED BY <1>1, <1>5, <2>1
<1>9. WithinInv'
  BY <1>1, <1>8 DEF WithinInv
<1>10. used' <= SoftLimit
  <2>1. \A u, r, l \in Nat : u <= l - r => u <= l
    OBVIOUS
  <2> QED BY <1>1, <1>5, <1>8, <2>1
<1>11. LimitKept'
  BY <1>10 DEF LimitKept
<1> QED BY <1>4, <1>6, <1>7, <1>9, <1>11 DEF BudgetInv

LEMMA BudgetStep == ASSUME BudgetInv, [BudgetNext]_budgetVars PROVE BudgetInv'
<1> USE ReserveBounds, BudgetAssumption
<1>a. BudgetTypes /\ Reserve' = Reserve
  BY DEF BudgetInv, Reserve
<1>1. ASSUME NEW b \in BOOLEAN, RecordEstimate(b) PROVE BudgetInv'
  <2>1. used' = estimate' /\ estimate' \in Nat /\ deferred' = deferred
    BY <1>1 DEF RecordEstimate
  <2>2. phase' \in {"translations", "reviews"} /\ Due' = 0
    BY <1>1 DEF RecordEstimate, Due
  <2>3. deferred = {}
    BY <1>1 DEF RecordEstimate, BudgetInv, BudgetTypes
  <2> QED BY <1>1, <1>a, <2>1, <2>2, <2>3 DEF RecordEstimate, BudgetInv, BudgetTypes, Phases, KeptInv,
             TranslationsPersistable, WithinInv, RunIsRecorded, LimitKept
<1>2. ASSUME BuildSummaries PROVE BudgetInv'
  <2> DEFINE cost == BuildCost(TasksWithin)
             affordable == TasksWithin > 0 /\ Affordable(cost)
  <2>1. used \in Nat /\ phase = "translations" /\ estimate' = estimate
    BY <1>2, <1>a DEF BuildSummaries, BudgetTypes
  <2>2. phase' \in {"summaries", "reviews"}
    BY <1>2 DEF BuildSummaries
  <2>3. phase' = "summaries" => affordable
    BY <1>2 DEF BuildSummaries
  <2>4. used' = IF affordable THEN used + cost ELSE used
    BY <1>2 DEF BuildSummaries, Spend
  <2>5. deferred' = IF affordable THEN deferred
                    ELSE deferred \cup {"article_summary_translation_build"}
    BY <1>2 DEF BuildSummaries, Spend
  <2>6. used' \in Nat /\ (affordable => used' + 3 + Reserve <= SoftLimit)
    BY <2>1, <2>4, TasksFit DEF AvailableForTasks, SummaryPersistence
  <2>7. (phase' = "summaries" /\ Due' = 3) \/ (phase' = "reviews" /\ Due' = 0)
    BY <2>2 DEF Due
  <2>8. phase' = "summaries" => used' + 3 + Reserve <= SoftLimit
    BY <2>3, <2>6
  <2>11. BudgetTypes'
    BY <1>a, <2>1, <2>2, <2>6 DEF BudgetTypes, Phases
  <2>12. KeptInv'
    <3>1. CASE phase' = "summaries" /\ Due' = 3
      BY <1>a, <2>8, <3>1 DEF KeptInv
    <3>2. CASE phase' = "reviews" /\ Due' = 0
      BY <3>2 DEF KeptInv
    <3> QED BY <2>7, <3>1, <3>2
  <2>9. TranslationsPersistable' /\ RunIsRecorded'
    BY <1>a, <2>1, <2>5 DEF BudgetInv, TranslationsPersistable, RunIsRecorded
  <2>10. WithinInv' /\ LimitKept'
    BY <1>a, <2>1, <2>2, <2>4, <2>6 DEF BudgetInv, BudgetTypes, WithinInv, LimitKept
  <2> QED BY <2>9, <2>10, <2>11, <2>12 DEF BudgetInv
<1>3. ASSUME NEW saved \in BOOLEAN, SaveSummaryRows(saved) PROVE BudgetInv'
  <2>1. Due = 3 /\ phase' \in {"lookup", "reviews"} /\ Due' \in {2, 0}
    BY <1>3 DEF SaveSummaryRows, Due
  <2> QED BY <1>3, <1>a, <2>1, DuePhase DEF SaveSummaryRows, BudgetTypes, Phases
<1>4. ASSUME NEW found \in BOOLEAN, LookUpTranslated(found) PROVE BudgetInv'
  <2>1. Due = 2 /\ phase' \in {"publish", "reviews"} /\ Due' \in {1, 0}
    BY <1>4 DEF LookUpTranslated, Due
  <2> QED BY <1>4, <1>a, <2>1, DuePhase DEF LookUpTranslated, BudgetTypes, Phases
<1>5. ASSUME NEW done \in BOOLEAN, PublishBatch(done) PROVE BudgetInv'
  <2>1. Due = 1 /\ phase' \in {"snapshot", "reviews"} /\ Due' = 0
    BY <1>5 DEF PublishBatch, Due
  <2> QED BY <1>5, <1>a, <2>1, DuePhase DEF PublishBatch, BudgetTypes, Phases
<1>6. ASSUME RefreshSnapshot PROVE BudgetInv'
  <2>1. PICK cost \in SnapshotCosts :
               Spend("public_feed_snapshot_refresh", cost, Affordable(cost))
    BY <1>6 DEF RefreshSnapshot
  <2>2. cost \in Nat /\ phase' \in Phases /\ Due' = 0
    BY <1>6 DEF RefreshSnapshot, SnapshotCosts, Phases, Due
  <2> QED BY <1>6, <1>a, <2>1, <2>2, OrdinaryPhase DEF RefreshSnapshot, BudgetTypes
<1>7. ASSUME NEW rows \in BOOLEAN, NEW saved \in BOOLEAN, SaveReviewRows(rows, saved)
      PROVE  BudgetInv'
  <2>1. Due' = 0 /\ phase' \in {"kv_urls", "feed_health"}
    BY <1>7 DEF SaveReviewRows, Due
  <2> QED BY <1>7, <1>a, <2>1, OrdinaryPhase DEF SaveReviewRows, BudgetTypes, Phases
<1>8. ASSUME NEW some \in BOOLEAN, RememberUrls(some) PROVE BudgetInv'
  <2>1. Due' = 0
    BY <1>8 DEF RememberUrls, Due
  <2> QED BY <1>8, <1>a, <2>1, OrdinaryPhase DEF RememberUrls, BudgetTypes, Phases
<1>9. ASSUME NEW feeds \in BOOLEAN, SaveFeedHealthRows(feeds) PROVE BudgetInv'
  <2>1. Due' = 0
    BY <1>9 DEF SaveFeedHealthRows, Due
  <2> QED BY <1>9, <1>a, <2>1, OrdinaryPhase DEF SaveFeedHealthRows, FeedHealthCost, BudgetTypes, Phases
<1>10. ASSUME SaveAiUsage PROVE BudgetInv'
  <2>1. Due' = 0
    BY <1>10 DEF SaveAiUsage, Due
  <2> QED BY <1>10, <1>a, <2>1, OrdinaryPhase DEF SaveAiUsage, BudgetTypes, Phases
<1>11. ASSUME SaveWorkerRun PROVE BudgetInv'
  <2>1. /\ phase = "worker_run" /\ phase' = "kv_run_state" /\ estimate' = estimate
        /\ Due' = 0
    BY <1>11 DEF SaveWorkerRun, Due
  <2>2. /\ used' = IF used + 1 <= SoftLimit THEN used + 1 ELSE used
        /\ deferred' = IF used + 1 <= SoftLimit THEN deferred
                       ELSE deferred \cup {"worker_run_save"}
    BY <1>11 DEF SaveWorkerRun, Spend, AffordableFromReserve
  <2>3. BudgetTypes' /\ KeptInv' /\ TranslationsPersistable' /\ LimitKept'
    BY <1>a, <2>1, <2>2 DEF BudgetInv, BudgetTypes, Phases, KeptInv, TranslationsPersistable,
       LimitKept
  <2>4. WithinInv' /\ RunIsRecorded'
    BY <1>a, <2>1, <2>2 DEF BudgetInv, BudgetTypes, WithinInv, RunIsRecorded, KvRunStateCost
  <2> QED BY <2>3, <2>4 DEF BudgetInv
<1>12. ASSUME NEW written \in BOOLEAN, SaveKvRunState(written) PROVE BudgetInv'
  <2> DEFINE cost == IF written THEN KvRunStateCost ELSE 0
             affordable == cost = 0 \/ used + cost <= SoftLimit
  <2>1. /\ phase = "kv_run_state" /\ phase' = "redis_stats" /\ estimate' = estimate
        /\ Due' = 0
    BY <1>12 DEF SaveKvRunState, Due
  <2>2. /\ used' = IF affordable THEN used + cost ELSE used
        /\ deferred' = IF affordable THEN deferred ELSE deferred \cup {"kv_run_state_save"}
    BY <1>12 DEF SaveKvRunState, Spend, AffordableFromReserve
  <2>3. cost \in {0, 2}
    BY DEF KvRunStateCost
  <2>4. BudgetTypes' /\ KeptInv' /\ TranslationsPersistable' /\ LimitKept'
    BY <1>a, <2>1, <2>2, <2>3 DEF BudgetInv, BudgetTypes, Phases, KeptInv,
       TranslationsPersistable, LimitKept
  <2>5. WithinInv' /\ RunIsRecorded'
    BY <1>a, <2>1, <2>2, <2>3 DEF BudgetInv, BudgetTypes, WithinInv, RunIsRecorded, KvRunStateCost
  <2> QED BY <2>4, <2>5 DEF BudgetInv
<1>13. ASSUME NEW on \in BOOLEAN, SaveRedisStats(on) PROVE BudgetInv'
  <2> DEFINE cost == IF on THEN 1 ELSE 0
             affordable == cost = 0 \/ used + cost + Reserve <= SoftLimit
  <2>1. /\ phase' = "done" /\ estimate' = estimate /\ Due' = 0
    BY <1>13 DEF SaveRedisStats, Due
  <2>2. /\ used' = IF affordable THEN used + cost ELSE used
        /\ deferred' = IF affordable THEN deferred ELSE deferred \cup {"redis_stats_save"}
    BY <1>13 DEF SaveRedisStats, Spend, Affordable
  <2> QED BY <1>a, <2>1, <2>2 DEF BudgetInv, BudgetTypes, Phases, KeptInv,
             TranslationsPersistable, LimitKept, WithinInv, RunIsRecorded
<1>14. ASSUME NextRefresh PROVE BudgetInv'
  <2>1. phase' = "articles" /\ used' = 0 /\ estimate' = 0 /\ deferred' = {} /\ Due' = 0
    BY <1>14 DEF NextRefresh, Due
  <2>2. BudgetTypes' /\ KeptInv'
    BY <1>14, <2>1 DEF NextRefresh, BudgetTypes, Phases, KeptInv
  <2>3. TranslationsPersistable' /\ RunIsRecorded'
    BY <2>1 DEF TranslationsPersistable, RunIsRecorded
  <2>4. WithinInv' /\ LimitKept'
    BY <1>a, <2>1 DEF WithinInv, LimitKept
  <2> QED BY <2>2, <2>3, <2>4 DEF BudgetInv
<1>15. ASSUME UNCHANGED budgetVars PROVE BudgetInv'
  BY <1>15, <1>a DEF budgetVars, BudgetInv, BudgetTypes, KeptInv, Due,
     TranslationsPersistable, LimitKept, WithinInv, RunIsRecorded
<1> QED BY <1>1, <1>2, <1>3, <1>4, <1>5, <1>6, <1>7, <1>8, <1>9, <1>10, <1>11, <1>12, <1>13,
           <1>14, <1>15 DEF BudgetNext

LEMMA BudgetKept == BudgetSpec => []BudgetInv
BY BudgetStart, BudgetStep, PTL DEF BudgetSpec

\* Summaries a refresh has paid for can be saved, looked up and published by it: whatever
\* was used before and whatever a task costs, the budget never runs out in between
\* (refreshArticles, getSummaryTranslationTaskBudgetForSubrequests).
THEOREM TranslationsArePersistable == BudgetSpec => []TranslationsPersistable
<1>1. BudgetInv => TranslationsPersistable
  BY DEF BudgetInv
<1> QED BY <1>1, BudgetKept, PTL

\* A refresh that came to its phases within its limit leaves its records, if the reserve
\* is at least what they cost (trySpendReservedSubrequestBudget).
THEOREM RunsAreRecorded == BudgetSpec => []RunIsRecorded
<1>1. BudgetInv => RunIsRecorded
  BY DEF BudgetInv
<1> QED BY <1>1, BudgetKept, PTL

\* No phase takes a refresh over its limit (trySpendSubrequestBudget).
THEOREM LimitIsKept == BudgetSpec => []LimitKept
<1>1. BudgetInv => LimitKept
  BY DEF BudgetInv
<1> QED BY <1>1, BudgetKept, PTL

-----------------------------------------------------------------------------
(* The calls to the providers. *)

ProviderTypes ==
    /\ setting \in Settings
    /\ work \in {"idle", "review", "translation"}
    /\ nextTask \in 1..TaskCount + 1
    /\ caller \in [Callers -> [task : 0..TaskCount, provider : Providers, attempt : Nat]]
    /\ asked \in [TaskIds -> [Providers -> Nat]]
    /\ result \in [TaskIds -> Providers \cup {"nobody", "pending"}]

\* A task has been put to a provider so often, and to those before it in vain.
AskedSoFar(t, provider, n) ==
    /\ asked[t][provider] = n
    /\ provider = "local" => asked[t]["openai"] = 0
    /\ provider = "openai" => asked[t]["local"] = Fruitless("local")

Asking(w) ==
    /\ caller[w].task \in 1..nextTask - 1
    /\ result[caller[w].task] = "pending"
    /\ Callable(caller[w].provider) /\ InOrder(caller[w].provider)
    /\ caller[w].attempt \in 1..Attempts(caller[w].provider)
    /\ AskedSoFar(caller[w].task, caller[w].provider, caller[w].attempt - 1)

\* A task that was answered, or that nobody answered.
SettledWell(t) ==
    /\ result[t] = "nobody" =>
          \A p \in Providers : asked[t][p] = IF InOrder(p) THEN Fruitless(p) ELSE 0
    /\ result[t] \in Providers =>
          /\ Callable(result[t]) /\ InOrder(result[t])
          /\ \E n \in 1..Attempts(result[t]) : AskedSoFar(t, result[t], n)

Untouched(t) == result[t] = "pending" /\ \A p \in Providers : asked[t][p] = 0

CallersAsk == \A w \in Callers : caller[w] = Free \/ Asking(w)

CallersApart ==
    \A v, w \in Callers : v # w /\ caller[v] # Free => caller[v].task # caller[w].task

TasksInOrder ==
    \A t \in TaskIds :
        /\ t >= nextTask => Untouched(t)
        /\ t < nextTask => result[t] # "pending" \/ \E w \in Callers : caller[w].task = t
        /\ SettledWell(t)

ProviderInv ==
    /\ ProviderTypes
    /\ CallersAsk
    /\ CallersApart
    /\ TasksInOrder
    /\ work = "idle" => nextTask = 1

\* Which providers the order holds, which Before the other, and who may be called.
LEMMA Orders ==
    ASSUME setting \in Settings
    PROVE  /\ InOrder("local") <=> setting.local # "absent"
                                   \/ (setting.prefersLocal /\ ~setting.fallback)
           /\ InOrder("openai") <=> IF setting.local # "absent" THEN setting.fallback
                                    ELSE ~(setting.prefersLocal /\ ~setting.fallback)
           /\ Before("local") = {}
           /\ Before("openai") \subseteq {"local"}
<1>1. CASE ProviderOrder = <<"local", "openai">>
  <2>1. setting.local # "absent" /\ setting.fallback
    BY <1>1 DEF ProviderOrder
  <2>2. InOrder("local") /\ InOrder("openai")
    BY <1>1 DEF InOrder
  <2>3. Before("local") = {} /\ Before("openai") \subseteq {"local"}
    BY <1>1 DEF Before
  <2> QED BY <2>1, <2>2, <2>3
<1>2. CASE ProviderOrder = <<"local">>
  <2>1. \/ setting.local # "absent" /\ ~setting.fallback
        \/ setting.local = "absent" /\ setting.prefersLocal /\ ~setting.fallback
    BY <1>2 DEF ProviderOrder
  <2>2. InOrder("local") /\ ~InOrder("openai")
    BY <1>2 DEF InOrder
  <2>3. Before("local") = {} /\ Before("openai") \subseteq {"local"}
    BY <1>2 DEF Before
  <2> QED BY <2>1, <2>2, <2>3
<1>3. CASE ProviderOrder = <<"openai">>
  <2>1. setting.local = "absent" /\ ~(setting.prefersLocal /\ ~setting.fallback)
    BY <1>3 DEF ProviderOrder
  <2>2. ~InOrder("local") /\ InOrder("openai")
    BY <1>3 DEF InOrder
  <2>3. Before("local") = {} /\ Before("openai") \subseteq {"local"}
    BY <1>3 DEF Before
  <2> QED BY <2>1, <2>2, <2>3
<1> QED BY <1>1, <1>2, <1>3 DEF ProviderOrder

LEMMA OrderStays ==
    ASSUME setting' = setting, work' = work
    PROVE  \A p : /\ InOrder(p)' <=> InOrder(p)
                  /\ Callable(p)' <=> Callable(p)
                  /\ Attempts(p)' = Attempts(p)
                  /\ Fruitless(p)' = Fruitless(p)
BY DEF InOrder, ProviderOrder, Callable, Attempts, Fruitless

LEMMA ProviderStart == ASSUME ProviderInit PROVE ProviderInv
<1> USE ProviderAssumption DEF ProviderInit
<1>1. ProviderTypes
  <2>1. setting \in Settings
    BY DEF Settings, Keys
  <2>2. caller \in [Callers -> [task : 0..TaskCount, provider : Providers, attempt : Nat]]
    <3>1. Free \in [task : 0..TaskCount, provider : Providers, attempt : Nat]
      BY DEF Free, Providers
    <3> QED BY <3>1
  <2>3. asked \in [TaskIds -> [Providers -> Nat]]
    BY DEF NothingAsked
  <2>4. result \in [TaskIds -> Providers \cup {"nobody", "pending"}]
    OBVIOUS
  <2>5. nextTask \in 1..TaskCount + 1 /\ work \in {"idle", "review", "translation"}
    OBVIOUS
  <2> QED BY <2>1, <2>2, <2>3, <2>4, <2>5 DEF ProviderTypes
<1>2. CallersAsk /\ CallersApart
  BY DEF CallersAsk, CallersApart
<1>3. TasksInOrder
  BY DEF TasksInOrder, TaskIds, Untouched, NothingAsked, SettledWell, Providers
<1> QED BY <1>1, <1>2, <1>3 DEF ProviderInv

\* A step of one caller at its task.
LEMMA OneTask ==
    ASSUME ProviderInv, ProviderTypes', NEW w \in Callers, Asking(w), caller[w] # Free,
           NEW t, t = caller[w].task, UNCHANGED <<setting, work, nextTask>>,
           \A u \in TaskIds \ {t} : asked'[u] = asked[u] /\ result'[u] = result[u],
           \A v \in Callers \ {w} : caller'[v] = caller[v],
           \/ Asking(w)' /\ caller'[w].task = t
           \/ caller'[w] = Free /\ result'[t] # "pending" /\ SettledWell(t)'
    PROVE  ProviderInv'
<1> USE ProviderAssumption DEF ProviderInv, ProviderTypes
<1>1. t \in TaskIds /\ t < nextTask /\ result[t] = "pending"
  <2>1. t \in 1..nextTask - 1 /\ result[t] = "pending"
    <3> HIDE DEF ProviderInv, ProviderTypes
    <3> QED BY DEF Asking
  <2> QED BY <2>1 DEF TaskIds
<1>2. ASSUME NEW v \in Callers \ {w}, caller[v] # Free PROVE Asking(v)'
  <2>1. Asking(v) /\ caller[v].task # t
    BY <1>2 DEF CallersAsk, CallersApart
  <2>2. caller[v].task \in TaskIds \ {t} /\ caller'[v] = caller[v]
    BY <1>2, <2>1 DEF Asking, TaskIds
  <2> QED BY <2>1, <2>2, OrderStays DEF Asking, AskedSoFar
<1>3. CallersAsk'
  BY <1>2 DEF CallersAsk
<1>4. CallersApart'
  <2> SUFFICES ASSUME NEW v \in Callers, NEW u \in Callers, v # u, caller'[v] # Free
               PROVE  caller'[v].task # caller'[u].task
    BY DEF CallersApart
  <2>1. \A c \in Callers : caller'[c] # Free => caller[c] # Free /\ caller'[c].task = caller[c].task
    OBVIOUS
  <2>2. caller'[v].task # 0
    BY <2>1 DEF CallersAsk, Asking
  <2>3. CASE caller'[u] = Free
    BY <2>2, <2>3 DEF Free
  <2>4. CASE caller'[u] # Free
    BY <2>1, <2>4 DEF CallersApart
  <2> QED BY <2>3, <2>4
<1>5. ASSUME NEW u \in TaskIds \ {t}
      PROVE  (u >= nextTask => Untouched(u)') /\ SettledWell(u)'
             /\ (u < nextTask => result'[u] # "pending" \/ \E v \in Callers : caller'[v].task = u)
  <2>1. asked'[u] = asked[u] /\ result'[u] = result[u]
    OBVIOUS
  <2>2. u >= nextTask => Untouched(u)'
    BY <2>1 DEF TasksInOrder, Untouched
  <2>3. SettledWell(u)'
    BY <2>1, OrderStays DEF TasksInOrder, SettledWell, AskedSoFar
  <2>4. u < nextTask => result'[u] # "pending" \/ \E v \in Callers : caller'[v].task = u
    BY <2>1 DEF TasksInOrder
  <2> QED BY <2>2, <2>3, <2>4
<1>6. SettledWell(t)' /\ (result'[t] # "pending" \/ \E v \in Callers : caller'[v].task = t)
  BY DEF Asking, SettledWell, Providers
<1>7. ~(t >= nextTask)
  BY <1>1 DEF TaskIds
<1>8. TasksInOrder'
  BY <1>5, <1>6, <1>7 DEF TasksInOrder
<1> QED BY <1>3, <1>4, <1>8

LEMMA ProviderStep == ASSUME ProviderInv, [ProviderNext]_providerVars PROVE ProviderInv'
<1> USE ProviderAssumption DEF ProviderInv, ProviderTypes
<1>1. ASSUME NEW c \in Settings, NEW kind \in {"review", "translation"}, NEW complete,
             StartWork(c, kind, complete)
      PROVE  ProviderInv'
  <2>1. nextTask = 1 /\ UNCHANGED <<nextTask, caller, asked, result>>
        /\ setting' = c /\ work' = kind
    BY <1>1 DEF StartWork
  <2>2. \A w \in Callers : caller[w] = Free
    BY <2>1 DEF CallersAsk, Asking
  <2>3. \A t \in TaskIds : Untouched(t)
    BY <2>1 DEF TasksInOrder, TaskIds
  <2>4. TasksInOrder'
    <3> SUFFICES ASSUME NEW t \in TaskIds
                 PROVE  ~(t < nextTask') /\ Untouched(t)' /\ SettledWell(t)'
      BY DEF TasksInOrder
    <3>1. Untouched(t)' /\ ~(t < nextTask')
      BY <2>1, <2>3 DEF Untouched, TaskIds
    <3> QED BY <3>1 DEF Untouched, SettledWell, Providers
  <2> QED BY <2>1, <2>2, <2>4 DEF CallersAsk, CallersApart
<1>2. ASSUME NEW w \in Callers, TakeTask(w) PROVE ProviderInv'
  <2>1. /\ caller[w] = Free /\ nextTask \in TaskIds /\ nextTask' = nextTask + 1 /\ work # "idle"
        /\ UNCHANGED <<setting, work, asked>>
    BY <1>2 DEF TakeTask, TaskIds
  <2>2. Untouched(nextTask)
    BY <2>1 DEF TasksInOrder
  <2>3. ASSUME NEW v \in Callers, Asking(v) PROVE caller[v].task < nextTask /\ caller[v] # Free
    BY <2>3 DEF Asking, Free
  <2>4. FirstAsked \in Providers \cup {"nobody"}
    BY DEF FirstAsked, ElseOpenAi, Providers
  <2>5. CASE FirstAsked = "nobody"
    <3>1. result' = [result EXCEPT ![nextTask] = "nobody"] /\ caller' = caller
      BY <1>2, <2>5 DEF TakeTask
    <3>2. ProviderTypes'
      BY <2>1, <3>1 DEF TaskIds
    <3>3. \A v \in Callers : caller'[v] = Free \/ Asking(v)'
      BY <2>1, <2>3, <3>1, OrderStays DEF CallersAsk, Asking, AskedSoFar
    <3>4. \A p \in Providers : InOrder(p) => ~Callable(p)
      BY <2>5, Orders DEF FirstAsked, ElseOpenAi, Callable, Providers
    <3>5. PICK n : n = nextTask
      OBVIOUS
    <3>6. result'[n] = "nobody" /\ \A p \in Providers : asked'[n][p] = 0
      BY <2>1, <2>2, <3>1, <3>5 DEF Untouched
    <3>7. \A p \in Providers : 0 = IF InOrder(p) THEN Fruitless(p) ELSE 0
      BY <3>4 DEF Fruitless
    <3>8. SettledWell(n)'
      BY <2>1, <3>6, <3>7, OrderStays DEF SettledWell, Providers
    <3>9. TasksInOrder'
      <4> SUFFICES ASSUME NEW t \in TaskIds
                   PROVE  /\ t >= nextTask' => Untouched(t)'
                          /\ t < nextTask' => result'[t] # "pending"
                                              \/ \E v \in Callers : caller'[v].task = t
                          /\ SettledWell(t)'
        BY DEF TasksInOrder
      <4>1. CASE t = n
        BY <2>1, <3>5, <3>6, <3>8, <4>1 DEF TaskIds
      <4>2. CASE t # n
        <5>1. result'[t] = result[t] /\ asked'[t] = asked[t]
          BY <2>1, <3>1, <3>5, <4>2
        <5>2. SettledWell(t)'
          BY <2>1, <5>1, OrderStays DEF TasksInOrder, SettledWell, AskedSoFar
        <5>3. (t >= nextTask' => t >= nextTask) /\ (t < nextTask' => t < nextTask)
          BY <2>1, <3>5, <4>2 DEF TaskIds
        <5> QED BY <3>1, <5>1, <5>2, <5>3 DEF TasksInOrder, Untouched
      <4> QED BY <4>1, <4>2
    <3> QED BY <2>1, <3>1, <3>2, <3>3, <3>9 DEF CallersAsk, CallersApart
  <2>6. CASE FirstAsked # "nobody"
    <3>0. PICK p, taken : p = FirstAsked /\ taken = [task |-> nextTask, provider |-> p, attempt |-> 1]
      OBVIOUS
    <3>1. result' = result /\ caller' = [caller EXCEPT ![w] = taken]
      BY <3>0, <1>2, <2>6 DEF TakeTask
    <3>2. ProviderTypes'
      BY <3>0, <2>1, <2>4, <2>6, <3>1 DEF TaskIds
    <3>3. caller'[w] = taken /\ \A v \in Callers \ {w} : caller'[v] = caller[v]
      BY <3>0, <3>1
    <3>4. /\ Callable(p) /\ InOrder(p)
          /\ p = "openai" => Fruitless("local") = 0
      <4>1. setting.local \in {"absent", "unusable", "usable"}
        BY DEF Settings, Keys
      <4>2. CASE setting.local = "usable"
        <5>1. p = "local"
          BY <3>0, <4>2 DEF FirstAsked
        <5> QED BY <4>2, <5>1, Orders DEF Callable
      <4>3. CASE setting.local # "usable"
        <5>1. p = "openai" /\ setting.openai = "usable"
              /\ IF setting.local = "unusable" THEN setting.fallback
                 ELSE ~(setting.prefersLocal /\ ~setting.fallback)
          BY <2>6, <3>0, <4>1, <4>3 DEF FirstAsked, ElseOpenAi
        <5>2. InOrder("openai")
          BY <4>1, <4>3, <5>1, Orders
        <5> QED BY <4>3, <5>1, <5>2 DEF Callable, Fruitless
      <4> QED BY <4>2, <4>3
    <3>5. 1 \in 1..Attempts(p)
      BY DEF Attempts
    <3>6. AskedSoFar(nextTask, p, 0)
      BY <3>0, <2>2, <2>4, <2>6, <3>4 DEF AskedSoFar, Untouched, Providers
    <3>7. Asking(w)'
      BY <3>0, <2>1, <2>2, <3>1, <3>3, <3>4, <3>5, <3>6, OrderStays DEF Asking, AskedSoFar, Untouched
    <3>8. \A v \in Callers \ {w} : caller'[v] = Free \/ Asking(v)'
      BY <3>0, <2>1, <2>3, <3>1, <3>3, OrderStays DEF CallersAsk, Asking, AskedSoFar
    <3>9. CallersApart'
      BY <3>0, <2>1, <2>3, <3>3 DEF CallersAsk, CallersApart, Free
    <3>10. TasksInOrder'
      <4> SUFFICES ASSUME NEW t \in TaskIds
                   PROVE  /\ t >= nextTask' => Untouched(t)'
                          /\ t < nextTask' => result'[t] # "pending"
                                              \/ \E v \in Callers : caller'[v].task = t
                          /\ SettledWell(t)'
        BY DEF TasksInOrder
      <4>1. SettledWell(t)'
        BY <3>0, <2>1, <3>1, OrderStays DEF TasksInOrder, SettledWell, AskedSoFar
      <4>2. CASE t = nextTask
        BY <3>0, <2>1, <3>3, <4>1, <4>2
      <4>3. CASE t # nextTask
        <5>1. (t >= nextTask' => t >= nextTask) /\ (t < nextTask' => t < nextTask)
          BY <3>0, <2>1, <4>3 DEF TaskIds
        <5>2. caller[w].task # t
          BY <2>1 DEF Free, TaskIds
        <5>3. \A v \in Callers : caller[v].task = t => caller'[v].task = t
          BY <3>3, <5>2
        <5> QED BY <3>0, <2>1, <3>1, <4>1, <5>1, <5>3 DEF TasksInOrder, Untouched
      <4> QED BY <3>0, <4>2, <4>3
    <3> QED BY <3>0, <2>1, <3>2, <3>7, <3>8, <3>9, <3>10 DEF CallersAsk
  <2> QED BY <2>5, <2>6
<1>3. ASSUME NEW w \in Callers, Asked(w)
      PROVE  /\ Asking(w) /\ caller[w] # Free /\ UNCHANGED <<setting, work, nextTask>>
             /\ caller[w].task \in TaskIds
             /\ asked' \in [TaskIds -> [Providers -> Nat]]
             /\ \A u \in TaskIds \ {caller[w].task} : asked'[u] = asked[u]
             /\ \A p \in Providers : asked'[caller[w].task][p] =
                   asked[caller[w].task][p] + (IF p = caller[w].provider THEN 1 ELSE 0)
  <2>1. /\ caller[w] # Free /\ UNCHANGED <<setting, work, nextTask>>
        /\ asked' = [asked EXCEPT ![caller[w].task][caller[w].provider] = @ + 1]
    BY <1>3 DEF Asked
  <2>2. Asking(w)
    BY <2>1 DEF CallersAsk
  <2>3. caller[w].task \in TaskIds /\ caller[w].provider \in Providers
    BY <2>2 DEF Asking, TaskIds
  <2>4. /\ asked' \in [TaskIds -> [Providers -> Nat]]
        /\ \A u \in TaskIds \ {caller[w].task} : asked'[u] = asked[u]
    BY <2>1, <2>3
  <2>5. \A p \in Providers : asked'[caller[w].task][p] =
           asked[caller[w].task][p] + (IF p = caller[w].provider THEN 1 ELSE 0)
    BY <2>1, <2>3
  <2> QED BY <2>1, <2>2, <2>3, <2>4, <2>5
<1>4. ASSUME NEW w \in Callers, Answer(w) PROVE ProviderInv'
  <2>0. PICK t, p : t = caller[w].task /\ p = caller[w].provider
    OBVIOUS
  <2>1. Asked(w) /\ Settle(w, p)
    BY <2>0, <1>4 DEF Answer
  <2>2. Asking(w) /\ UNCHANGED <<setting, work, nextTask>> /\ t \in TaskIds
    BY <2>0, <1>3, <2>1
  <2>3. caller' = [caller EXCEPT ![w] = Free] /\ result' = [result EXCEPT ![t] = p]
    BY <2>0, <2>1 DEF Settle
  <2>4. p \in Providers /\ result'[t] = p
    BY <2>0, <2>2, <2>3
  <2>5. SettledWell(t)'
    <3>1. AskedSoFar(t, p, caller[w].attempt - 1) /\ caller[w].attempt \in 1..Attempts(p)
          /\ Callable(p) /\ InOrder(p)
      BY <2>0, <2>2 DEF Asking
    <3>2. /\ asked'[t][p] = caller[w].attempt
          /\ \A q \in Providers : q # p => asked'[t][q] = asked[t][q]
      BY <2>0, <1>3, <2>1, <2>4, <3>1 DEF AskedSoFar
    <3>3. /\ p = "local" => asked'[t]["openai"] = 0
          /\ p = "openai" => asked'[t]["local"] = Fruitless("local")
      BY <2>0, <3>1, <3>2 DEF AskedSoFar, Providers
    <3> QED BY <2>0, <2>2, <2>4, <3>1, <3>2, <3>3, OrderStays DEF SettledWell, AskedSoFar, Providers
  <2>6. ProviderTypes'
    <3>1. Free \in [task : 0..TaskCount, provider : Providers, attempt : Nat]
      BY DEF Free, Providers
    <3> QED BY <2>0, <1>3, <2>1, <2>2, <2>3, <2>4, <3>1
  <2>7. caller'[w] = Free /\ \A v \in Callers \ {w} : caller'[v] = caller[v]
    BY <2>0, <2>3
  <2>8. \A u \in TaskIds \ {t} : asked'[u] = asked[u] /\ result'[u] = result[u]
    BY <2>0, <1>3, <2>1, <2>3
  <2>9. result'[t] # "pending" /\ caller[w] # Free
    BY <2>0, <1>3, <2>1, <2>4 DEF Providers
  <2> QED BY <2>0, <2>2, <2>5, <2>6, <2>7, <2>8, <2>9, OneTask
<1>5. ASSUME NEW w \in Callers, AskAgain(w) PROVE ProviderInv'
  <2>0. PICK t, p : t = caller[w].task /\ p = caller[w].provider
    OBVIOUS
  <2>1. Asked(w) /\ ~LastTry(w) /\ result' = result
        /\ caller' = [caller EXCEPT ![w].attempt = @ + 1]
    BY <2>0, <1>5 DEF AskAgain
  <2>2. Asking(w) /\ UNCHANGED <<setting, work, nextTask>> /\ t \in TaskIds /\ caller[w] # Free
    BY <2>0, <1>3, <2>1
  <2>3. /\ caller'[w].task = t /\ caller'[w].provider = p
        /\ caller'[w].attempt = caller[w].attempt + 1
        /\ \A v \in Callers \ {w} : caller'[v] = caller[v]
    BY <2>0, <2>1
  <2>4. caller' \in [Callers -> [task : 0..TaskCount, provider : Providers, attempt : Nat]]
    BY <2>0, <2>1
  <2>5. ProviderTypes'
    BY <2>0, <1>3, <2>1, <2>2, <2>4
  <2>6. Asking(w)'
    <3>1. AskedSoFar(t, p, caller[w].attempt - 1) /\ caller[w].attempt \in 1..Attempts(p)
          /\ Callable(p) /\ InOrder(p)
      BY <2>0, <2>2 DEF Asking
    <3>2. /\ asked'[t][p] = caller[w].attempt
          /\ \A q \in Providers : q # p => asked'[t][q] = asked[t][q]
      BY <2>0, <1>3, <2>1, <3>1 DEF AskedSoFar
    <3>3. /\ p = "local" => asked'[t]["openai"] = 0
          /\ p = "openai" => asked'[t]["local"] = Fruitless("local")
      BY <2>0, <3>1, <3>2 DEF AskedSoFar, Providers
    <3>4. caller[w].attempt + 1 \in 1..Attempts(p) /\ caller[w].attempt + 1 - 1 = caller[w].attempt
      <4>1. caller[w].attempt # Attempts(p)
        BY <2>0, <2>1 DEF LastTry
      <4>2. Attempts(p) \in Nat
        BY DEF Attempts
      <4> QED BY <3>1, <4>1, <4>2
    <3> QED BY <2>0, <2>1, <2>2, <2>3, <3>1, <3>2, <3>3, <3>4, OrderStays DEF Asking, AskedSoFar
  <2>7. \A u \in TaskIds \ {t} : asked'[u] = asked[u] /\ result'[u] = result[u]
    BY <2>0, <1>3, <2>1
  <2> QED BY <2>0, <2>2, <2>3, <2>5, <2>6, <2>7, OneTask
<1>6. ASSUME NEW w \in Callers, FallBack(w) PROVE ProviderInv'
  <2>0. PICK t : t = caller[w].task
    OBVIOUS
  <2>1. Asked(w) /\ LastTry(w) /\ AskedNext(caller[w].provider) # "nobody" /\ result' = result
        /\ caller' = [caller EXCEPT ![w].provider = AskedNext(caller[w].provider),
                                    ![w].attempt = 1]
    BY <2>0, <1>6 DEF FallBack
  <2>2. Asking(w) /\ UNCHANGED <<setting, work, nextTask>> /\ t \in TaskIds /\ caller[w] # Free
    BY <2>0, <1>3, <2>1
  <2>3. /\ caller[w].provider = "local" /\ AskedNext(caller[w].provider) = "openai"
        /\ setting.fallback /\ setting.openai = "usable"
    BY <2>0, <2>1 DEF AskedNext, ElseOpenAi
  <2>4. /\ caller'[w].task = t /\ caller'[w].provider = "openai" /\ caller'[w].attempt = 1
        /\ \A v \in Callers \ {w} : caller'[v] = caller[v]
    BY <2>0, <2>1, <2>3
  <2>5. caller' \in [Callers -> [task : 0..TaskCount, provider : Providers, attempt : Nat]]
    <3> DEFINE turned == [caller[w] EXCEPT !.provider = "openai", !.attempt = 1]
    <3>1. turned \in [task : 0..TaskCount, provider : Providers, attempt : Nat]
      BY DEF Providers
    <3>2. caller' = [caller EXCEPT ![w] = turned]
      BY <2>1, <2>3
    <3> QED BY <3>1, <3>2
  <2>6. ProviderTypes'
    BY <2>0, <1>3, <2>1, <2>2, <2>5
  <2>7. Asking(w)'
    <3>1. /\ asked[t]["local"] = caller[w].attempt - 1 /\ asked[t]["openai"] = 0
          /\ Callable("local") /\ caller[w].attempt = Attempts("local")
      BY <2>0, <2>1, <2>2, <2>3 DEF Asking, AskedSoFar, LastTry
    <3>2. asked'[t]["local"] = Fruitless("local") /\ asked'[t]["openai"] = 0
      BY <2>0, <1>3, <2>1, <2>3, <3>1 DEF Fruitless, Attempts, Providers
    <3>3. Callable("openai") /\ InOrder("openai")
      BY <2>0, <2>3, <3>1, Orders DEF Callable
    <3>4. 1 \in 1..Attempts("openai")
      BY DEF Attempts
    <3>5. result'[t] = "pending" /\ t \in 1..nextTask - 1
      BY <2>0, <2>1, <2>2 DEF Asking
    <3> QED BY <2>0, <2>2, <2>4, <3>2, <3>3, <3>4, <3>5, OrderStays DEF Asking, AskedSoFar
  <2>8. \A u \in TaskIds \ {t} : asked'[u] = asked[u] /\ result'[u] = result[u]
    BY <2>0, <1>3, <2>1
  <2> QED BY <2>0, <2>2, <2>4, <2>6, <2>7, <2>8, OneTask
<1>7. ASSUME NEW w \in Callers, GiveUp(w) PROVE ProviderInv'
  <2>0. PICK t, p : t = caller[w].task /\ p = caller[w].provider
    OBVIOUS
  <2>1. Asked(w) /\ LastTry(w) /\ AskedNext(p) = "nobody" /\ Settle(w, "nobody")
    BY <2>0, <1>7 DEF GiveUp
  <2>2. Asking(w) /\ UNCHANGED <<setting, work, nextTask>> /\ t \in TaskIds /\ caller[w] # Free
    BY <2>0, <1>3, <2>1
  <2>3. caller' = [caller EXCEPT ![w] = Free] /\ result' = [result EXCEPT ![t] = "nobody"]
    BY <2>0, <2>1 DEF Settle
  <2>4. p \in Providers /\ result'[t] = "nobody"
    BY <2>0, <2>2, <2>3
  <2>5. SettledWell(t)'
    <3>1. AskedSoFar(t, p, caller[w].attempt - 1) /\ caller[w].attempt = Attempts(p)
          /\ Callable(p) /\ InOrder(p)
      BY <2>0, <2>1, <2>2 DEF Asking, LastTry
    <3>2. /\ asked'[t][p] = Attempts(p)
          /\ \A q \in Providers : q # p => asked'[t][q] = asked[t][q]
      BY <2>0, <1>3, <2>1, <2>4, <3>1 DEF AskedSoFar, Attempts
    <3>3. asked'[t][p] = IF InOrder(p) THEN Fruitless(p) ELSE 0
      BY <2>0, <3>1, <3>2 DEF Fruitless
    <3>4. CASE p = "local"
      <4>1. asked'[t]["openai"] = 0
        BY <2>0, <3>1, <3>2, <3>4 DEF AskedSoFar, Providers
      <4>2. ~(setting.fallback /\ setting.openai = "usable")
        BY <2>0, <2>1, <3>4 DEF AskedNext, ElseOpenAi
      <4>3. InOrder("openai") => ~Callable("openai")
        BY <2>0, <3>1, <3>4, <4>2, Orders DEF Callable
      <4> QED BY <2>0, <2>2, <2>4, <3>3, <3>4, <4>1, <4>3, OrderStays
              DEF SettledWell, Fruitless, Providers
    <3>5. CASE p = "openai"
      <4>1. asked'[t]["local"] = Fruitless("local")
        BY <2>0, <3>1, <3>2, <3>5 DEF AskedSoFar, Providers
      <4>2. ~InOrder("local") => Fruitless("local") = 0
        BY <2>0, Orders DEF Fruitless, Callable
      <4> QED BY <2>0, <2>2, <2>4, <3>3, <3>5, <4>1, <4>2, OrderStays DEF SettledWell, Providers
    <3> QED BY <2>0, <2>4, <3>4, <3>5 DEF Providers
  <2>6. ProviderTypes'
    <3>1. Free \in [task : 0..TaskCount, provider : Providers, attempt : Nat]
      BY DEF Free, Providers
    <3> QED BY <2>0, <1>3, <2>1, <2>2, <2>3, <3>1
  <2>7. caller'[w] = Free /\ \A v \in Callers \ {w} : caller'[v] = caller[v]
    BY <2>0, <2>3
  <2>8. \A u \in TaskIds \ {t} : asked'[u] = asked[u] /\ result'[u] = result[u]
    BY <2>0, <1>3, <2>1, <2>3
  <2>9. result'[t] # "pending"
    BY <2>0, <2>4
  <2> QED BY <2>0, <2>2, <2>5, <2>6, <2>7, <2>8, <2>9, OneTask
<1>8. ASSUME WorkDone PROVE ProviderInv'
  <2>1. /\ setting' = setting /\ caller' = caller /\ work' = "idle" /\ nextTask' = 1
        /\ asked' = NothingAsked /\ result' = [t \in TaskIds |-> "pending"]
        /\ \A w \in Callers : caller[w] = Free
    BY <1>8 DEF WorkDone
  <2>2. ProviderTypes'
    BY <2>1 DEF NothingAsked
  <2>3. CallersAsk' /\ CallersApart'
    BY <2>1 DEF CallersAsk, CallersApart
  <2>4. TasksInOrder'
    BY <2>1 DEF TasksInOrder, TaskIds, Untouched, NothingAsked, SettledWell, Providers
  <2> QED BY <2>1, <2>2, <2>3, <2>4
<1>9. CASE UNCHANGED providerVars
  <2>1. UNCHANGED <<setting, work, nextTask, caller, asked, result>>
    BY <1>9 DEF providerVars
  <2>2. CallersAsk' /\ CallersApart'
    BY <2>1, OrderStays DEF CallersAsk, CallersApart, Asking, AskedSoFar
  <2>3. TasksInOrder'
    BY <2>1, OrderStays DEF TasksInOrder, Untouched, SettledWell, AskedSoFar
  <2> QED BY <2>1, <2>2, <2>3
<1> QED BY <1>1, <1>2, <1>4, <1>5, <1>6, <1>7, <1>8, <1>9 DEF ProviderNext

\* However many callers work side by side, no task is asked for twice, and only when every
\* provider of the order the run reports was asked as often as it may be is an article
\* rejected or a summary left out for want of an answer (mapWithConcurrency,
\* reviewArticleWithFallback), for any number of tasks and callers.
THEOREM ProvidersAreExhausted == ProviderSpec => []ProvidersExhausted
<1>1. ProviderInit => ProviderInv
  BY ProviderStart
<1>2. ProviderInv /\ [ProviderNext]_providerVars => ProviderInv'
  BY ProviderStep
<1>3. ProviderInv => ProvidersExhausted
  <2> SUFFICES ASSUME ProviderInv, NEW t \in TaskIds
               PROVE  /\ \A p \in Providers : asked[t][p] <= IF InOrder(p) THEN Fruitless(p) ELSE 0
                      /\ result[t] = "nobody" =>
                             \A p \in Providers : InOrder(p) => asked[t][p] = Fruitless(p)
                      /\ result[t] \in Providers =>
                             /\ InOrder(result[t]) /\ asked[t][result[t]] > 0
                             /\ \A p \in Before(result[t]) : asked[t][p] = Fruitless(p)
                      /\ nextTask > TaskCount /\ (\A w \in Callers : caller[w] = Free) =>
                             result[t] # "pending"
    BY DEF ProvidersExhausted
  <2> USE ProviderAssumption DEF ProviderInv, ProviderTypes
  <2>1. SettledWell(t)
    BY DEF TasksInOrder
  <2>2. \A p \in Providers : /\ Fruitless(p) \in Nat
                             /\ Callable(p) => Fruitless(p) = Attempts(p)
    BY DEF Fruitless, Attempts
  <2>3. ~InOrder("local") => Fruitless("local") = 0
    BY Orders DEF Fruitless, Callable
  <2>4. ASSUME NEW p \in Providers, NEW n \in 0..Attempts(p), AskedSoFar(t, p, n),
               Callable(p), InOrder(p)
        PROVE  \A q \in Providers : asked[t][q] <= IF InOrder(q) THEN Fruitless(q) ELSE 0
    <3>1. asked[t][p] <= Fruitless(p)
      BY <2>2, <2>4 DEF AskedSoFar, Attempts
    <3>2. CASE p = "local"
      BY <2>2, <2>4, <3>1, <3>2 DEF AskedSoFar, Providers
    <3>3. CASE p = "openai"
      BY <2>2, <2>3, <2>4, <3>1, <3>3 DEF AskedSoFar, Providers
    <3> QED BY <3>2, <3>3 DEF Providers
  <2>5. \A p \in Providers : asked[t][p] <= IF InOrder(p) THEN Fruitless(p) ELSE 0
    <3>1. CASE result[t] = "nobody"
      BY <2>1, <2>2, <3>1 DEF SettledWell
    <3>2. CASE result[t] \in Providers
      <4>1. PICK n \in 1..Attempts(result[t]) : AskedSoFar(t, result[t], n)
        BY <2>1, <3>2 DEF SettledWell
      <4> QED BY <2>1, <2>4, <3>2, <4>1 DEF SettledWell
    <3>3. CASE result[t] = "pending"
      <4>1. CASE t >= nextTask
        BY <2>2, <4>1 DEF TasksInOrder, Untouched
      <4>2. CASE t < nextTask
        <5>1. PICK w \in Callers : caller[w].task = t
          BY <3>3, <4>2 DEF TasksInOrder
        <5>2. caller[w] # Free
          BY <5>1 DEF Free, TaskIds
        <5>3. Asking(w)
          BY <5>2 DEF CallersAsk
        <5>4. /\ caller[w].provider \in Providers
              /\ caller[w].attempt - 1 \in 0..Attempts(caller[w].provider)
          BY <5>3 DEF Asking, Attempts
        <5> QED BY <2>4, <5>1, <5>3, <5>4 DEF Asking
      <4> QED BY <4>1, <4>2 DEF TaskIds
    <3> QED BY <3>1, <3>2, <3>3
  <2>6. result[t] \in Providers =>
            /\ InOrder(result[t]) /\ asked[t][result[t]] > 0
            /\ \A p \in Before(result[t]) : asked[t][p] = Fruitless(p)
    BY <2>1, Orders DEF SettledWell, AskedSoFar, Attempts, Providers
  <2>7. nextTask > TaskCount /\ (\A w \in Callers : caller[w] = Free) => result[t] # "pending"
    BY DEF TasksInOrder, TaskIds, Free
  <2> QED BY <2>1, <2>5, <2>6, <2>7 DEF SettledWell
<1> QED BY <1>1, <1>2, <1>3, PTL DEF ProviderSpec
================================================================================
