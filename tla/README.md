# NutsNews worker: a TLA+ verification of the failover controller and the ingestion worker

This directory holds TLA+ models of the program in this repository, the TLC configurations that
check them on small instances, and theorems about them that the TLAPS proof system checks for every
value of the constants. Every definition is translated from the source; `PROJECT.json` maps each one
to its lines.

## 1. The system

NutsNews is a news site served from a VPS with Vercel as a stand-by. The repository holds the two
Cloudflare Workers behind it.

**The controller** (`controller/src`) watches the VPS and tells operators where DNS should point.
One Durable Object owns the failover state; the same Worker's cron trigger also drives the ingestion
shards.

**The ingestion worker** (`worker/src/index.ts`) runs once per shard: it fetches feeds, has articles
reviewed by a model, saves, translates and publishes them, refreshes the public snapshot and
invalidates caches. Runs of a shard exclude one another by a Redis lock.

**The local AI service** (`local-ai-service/server.mjs`) is a small HTTP server beside a model. It
keeps nothing between requests: each is checked, put to the model, and answered or aborted.

**The backfill script** (`scripts/backfill_article_summaries.mjs`) is run by an operator. It
translates and publishes what the worker has left behind, in the same tables and without the
worker's locks.

### 1.1 Inventory

| Component | State it keeps | Operations | Interacts with | What makes it correct |
|---|---|---|---|---|
| Failover status record (`failoverState.mjs`) | `failover.status`, `.history`, `.dnsHistory`, `.dnsActionKeys`, `.audit` in the object's storage | `recordFailoverHealthCheck`, `recordFailoverDnsReadback`, `recordFailoverLiveOriginReadiness`, `recordFailoverDnsAction`, `recordFailoverAuditEvent`, reads with freshness | called by the controller object and by manual actions, each in a transaction of its own | a check is counted once per interval; the failure count is the outage; a status is fresh only if it was checked recently |
| Controller object (`index.ts`) | the pending alarm; invocations in flight | `alarm`, `runHealthCheck` (alarm, cron watchdog, manual wake), `fetch` routes | VPS probe, live-origin probe, Cloudflare reads, alert delivery: all awaited, so other invocations interleave | the chain of alarms does not break; due checks are counted; a lock freezes the target |
| Manual actions and DNS writes (`failoverManualActions.mjs`, `failoverDnsReadback.mjs`) | DNS records at Cloudflare; idempotency keys; audit | lock, unlock, force DNS to VPS or Vercel: read, compare with what the dashboard showed, PATCH both records, verify, record, audit | Cloudflare API; status record | "done" means both records moved; a key is applied once; a lock holds until it is lifted |
| Alerts (`failoverAlerts.mjs`) | `failover.alerts.v1`: last delivery per fingerprint | `emitFailoverAlerts` | after every wake and action; webhook and log delivery are awaited between the read and the write of the map | at most one alert per fingerprint and window; nothing suppressed that was not sent |
| DNS decisions, live-origin readiness (`failoverWorkersLogs.mjs`, `failoverLiveOriginReadiness.mjs`) | `.dnsHistory`, the live-origin part of the status | decision functions, `deriveLiveOriginDnsState` | logged and recorded after each readback | the controller's own moves are not taken for drift |
| Ingestion scheduling (`ingestionScheduling.mjs`) | none of its own | `runIngestionSchedulingCycle`: wake the failover object, then have one shard refresh and translate | shard workers over HTTP | the failover wake does not depend on the switch or on a shard; every shard has its turn |
| Run lock, rate limit, review claims (`worker/src/index.ts`) | keys with a TTL in Redis | SET NX EX, compare-and-delete, compare-and-expire, INCR/EXPIRE | refresh and translate entry points | one run per shard; a lock is released by its holder only; a lost reply heals by expiry |
| Feed parsing, images, scoring | none | parse items, score, sort, cut, find an image in the item or its page, filter locally | feeds and article pages | an article is refused for want of an image only if it shows none; a turn is lost only to a review that counts |
| Refresh pipeline | articles, reviews, summaries in the database | look up known URLs, claim, review, save articles, reviews, feed health | database, review providers, KV | an accepted article is not lost by a failing save |
| Translation and publishing | summaries per language, publication status | build missing summaries, recover, publish what is fully translated | database, translation providers | nothing incomplete on the site; a complete article is published in the end |
| Backpressure and subrequest budget | counters of one run | `trySpendSubrequestBudget`, deferral of phases | every phase of a run | what was paid for can be saved; the run is recorded; the platform's limit is kept |
| Review and translation providers | the configuration | ask the local service, then OpenAI, each so often | local AI service, OpenAI | nothing is given up before every provider was asked |
| Local AI service (`server.mjs`) | none | `handleReview`, `handleTranslate` | worker, model | a well-formed request is put to the model |
| Feed health | `feed_health` rows | read at the end of a run, rewritten with one fetch more | database | no feed is blamed for failures it did not have |
| KV caches | processed-URL lists, feed snapshots, run state | read-modify-write | KV, per-isolate cache | a stale list only costs work |
| Public feed snapshot, cache invalidation | database snapshot, edge snapshot, caches | refresh, copy per language, invalidate with retries, serve | database, KV, site, Cloudflare purge | a snapshot is as new as it says; a lag is reported |
| Database provider modes | the deployed configuration | which store is read, written, compared; pause | Supabase, backend API | a cutover loses no write |
| Worker entry points | none | `fetch` routes, `scheduled` | all of the above | lock, limit and pause come before the run |
| Backfill script | a file of failed rows | scan pages, translate, save, publish | database, providers, the worker's runs | publishes nothing short of the worker's languages; repeated runs make headway |
| Status endpoint, analytics, feature flags, schema, operational scripts | - | see section 5 | | |

### 1.2 What is hard here

* **Interleaving at awaits.** A Durable Object runs one event at a time, but every `await` of
  external I/O lets another in. Its input gate keeps a stretch of storage operations undisturbed;
  nothing protects a value read before a `fetch` and used after it.
* **Several writers of one record.** Health checks, readbacks, live-origin records and operators'
  actions each rewrite the whole status from the copy they read, with the time their invocation was
  woken at.
* **One alarm, many setters**; it is consumed when its handler starts.
* **Crashes** between two transactions of one handler.
* **Cloudflare calls** that fail, that succeed and are answered by an error, and records that others
  edit.
* **Retries** that carry the same idempotency key.
* **Saves without a transaction.** A run of the worker saves articles, summaries, publications,
  reviews and counters by calls of their own. Each may fail, or be applied and answered by a
  timeout, and the run may be cut off between any two.
* **Runs side by side.** The shards' runs share tables, and runs of one shard overlap when one
  outlives its lock; the script holds no lock at all.
* **Stale reads.** KV answers with what a key held before, an isolate with what it remembers.
* **Budgets** that run out in the middle of a run, and what the later phases make of it.
* **Turns.** Cron triggers, page lookups, reviews, recovery: each gives a few their turn at a time,
  and somebody can be passed over for ever.
* **Cutovers** while runs are under way that go by the configuration they started with.

`PROJECT.json` lists each hazard at its line with the properties that cover it.

## 2. Modules

| Module | What it is |
|---|---|
| `FailoverState` | The status record and the operators that read and rewrite it. No variables. |
| `FailoverController` | The Durable Object: storage, alarm, DNS records, invocations and requests in flight. |
| `FailoverPromise` | The abstract controller: a desired target moved by spaced, counted checks and by operators. |
| `FailoverProperties`, `FailoverProofs` | Its properties and the refinement; the theorems and their proofs. |
| `FailoverAlerts`, `FailoverAlertsProofs` | The alerts of the controller: candidates, rate limit and the emission between its awaits. |
| `LiveOrigin`, `ActionsProofs` | What the controller makes of the deployments that answer, while records move and edges follow. |
| `IngestionScheduling` | Cron triggers, manual requests and the cycles they start. |
| `RefreshRuns`, `RefreshRunsProofs` | The ingestion worker's runs, the shard lock and the review claims in Redis. |
| `ManualRateLimit` | The rate limit of manual requests. |
| `ArticleImages` | The image of an item or a page. No variables. |
| `CandidateSelection` | From the feeds to the reviews: candidates, images, lookups, the local filter, limits. Its theorems are in `RefreshRunsProofs`. |
| `ArticlePromise` | The abstract article: absent, waiting, published, with summaries that are never taken back. |
| `ArticlePipeline`, `ArticlePipelineProofs` | The tables and the runs' calls, from the decision on an article to its publication. |
| `SummaryBackfill` | The backfill script beside `ArticlePromise`. Its theorems are in `ActionsProofs`. |
| `ProviderCalls`, `SubrequestBudget`, `WorkerCallsProofs` | Who is asked for a review or a translation, how often, by concurrent callers; the budget of one refresh over its phases. |
| `FeedHealth` | A feed's counters. |
| `PublicFeed`, `PublicFeedProofs` | The snapshot, its copies in KV, the caches and the readers. |
| `DatabaseModes` | Two databases, modes, pause and cutover. |
| `WorkerStateProofs` | The theorems of `IngestionScheduling`, `ManualRateLimit`, `FeedHealth` and `DatabaseModes`. |
| `FaultyCalls` | Calls that are answered, lost or failed, and their bound; used by the worker's modules. |
| `MCFailover`, `MCHealth`, `MCActions`, `MCAlerts`, `MCEmissions`, `MCRefreshRuns`, `MCSelection`, `MCBackfill`, `MCPipeline`, `MCWorker` | Instances for TLC. |

How they compose. `FailoverController` is built on `FailoverState` and implements `FailoverPromise`;
`LiveOrigin` takes the status operators from the same module. `ArticlePipeline` implements
`ArticlePromise`, and `SummaryBackfill` runs beside `ArticlePromise` in the worker's place: what the
script may meet of the worker is what every pipeline run was shown to do. `CandidateSelection` is
built on `ArticleImages`. The other modules of the worker each take one view of a run, and say in
their first comment which module has the rest: a run is held apart from others by `RefreshRuns`, its
candidates come from `CandidateSelection`, its answers from `ProviderCalls`, its saves are
`ArticlePipeline`'s and `FeedHealth`'s, what it leaves out for want of subrequests is
`SubrequestBudget`'s, and what it publishes reaches readers by `PublicFeed`. Where a view rests on
another, it leaves the other's result open: a pipeline run may have any part of its task limit to
spend, because the budget may have deferred any part; a refresh may decide anything on an article
that is not known.

Four instances for TLC check modules side by side that share nothing: `MCWorker`, `MCActions`,
`MCHealth` (the health checks and the backfill script) and `MCEmissions` (the alerts and the
selection) have a variable `part`, and every behaviour is one of a single part.

### 2.1 FailoverState

`Status` has one field for each field of `sanitizeFailoverStatus` that a decision reads. Left out:
latency, HTTP status, versions, the deployment that answered, live-origin details, `lastDnsChangeAt`
and its reason, `staleReason` (it only words the stale flag); `controllerState` is not stored but
derived where it is read (`DeriveControllerState`), since every record that changes its inputs
derives it anew. The six unreachable health results count alike and are one Boolean. The
configuration values are constants, `ConfigAssumption` is what `readPositiveInteger` guarantees.
Times are integers on one clock. `Prepend` is the `[row, ...log].slice(0, limit)` of all bounded
logs.

### 2.2 FailoverController

State: `status`, `stored` (whether anything was ever stored; a read before that yields the default),
`history`, `recentKeys`, `audit`, `alarm`, the two Cloudflare records `dns`, the health-check
invocations `run`, the manual requests `op`, the clock and a crash counter.

An action is the longest stretch of code the input gate keeps together.

| Code | Actions |
|---|---|
| `runHealthCheck` up to its first external await | `WakeStale`, `WakeNotDue`, `WakeDue` (in `RunHealthCheck`); woken by `AlarmFires` or `WatchdogWake` (cron and manual wakes take the same path) |
| the awaited stale alert | `AlertDelivered` |
| the two awaited Cloudflare reads, none without the bindings (`RecordsRead`) | `ReadDnsRecord`; the VPS answer is taken when all have answered |
| the three records and `setAlarm` | `FinishRun`; `CrashInRecords` when the object stops between them |
| `executeManualLock` | `ExecuteManualLock`, `CrashInLock` |
| `executeDnsAction` | `StartDnsAction`, `ReadForAction`, `StartPatches`, `PatchDnsRecord`, `StartVerification`, `GiveUp`, `RefuseUnconfigured`, `ExecuteDnsAction`, `CrashInAction` |
| a restart | `Crash`: memory is lost, an interrupted alarm handler may be run again |
| others editing DNS | `OutsideChange` |

`now` is read where the code reads `Date.now()`: `nowMs` at the wake, `checkedAt` at the start of
the probe, and the records use these saved values. A PATCH may be applied and still be answered by
an error; one applied after its caller gave up is an `OutsideChange`. After its records an
invocation's slot is free again although the handler still logs and alerts: that part changes none
of the state of this module.

Not in this module: `lastDnsChangeAt` and what depends on it (`FailoverAlerts` and `LiveOrigin` have
it), `dnsHistory`, which no decision reads, and the `/internal/failover/dns-action` route, which no
caller in the repository other than a test uses.

### 2.3 FailoverPromise

Four variables (desired target, failure count, last check, lock) and four steps. A counted check
comes at least one interval after the one before, moves the target to Vercel only when the count has
reached the threshold and no lock is on, and back when the VPS answers. The refinement mapping
(`Promise` in `FailoverProperties`) reads the four values off the stored status; wakes, probes,
alarms, refused counts, readbacks and crashes are stuttering steps.

### 2.4 FailoverAlerts

The same status, reduced to the fields alerts depend on and extended by the time and reason of the
last DNS change, the stale reason and whether the live origin answered from the wrong side
(`mismatch`). An alert is its fingerprint: moves are keyed by the time of the change, a drift by the
desired and the observed targets, a stale status by its reason.

| Code | Actions |
|---|---|
| `runHealthCheck`: read the status, emit if stale | `RunHealthCheck` |
| its three records, then `emitFailoverAlerts` | `RecordCheck` |
| `executeManualLock`, then `emitFailoverAlerts` | `ExecuteManualLock` |
| `executeDnsAction` up to Cloudflare; its record and emission | `StartDnsAction`, `ExecuteDnsAction` |
| in `emitFailoverAlerts`: the configuration is awaited; the map is read and marked | `ReadAlertState` |
| one awaited `deliverAlert` | `DeliverAlert` |
| `writeAlertState` | `WriteAlertState` |
| a restart | `Crash` |

`sentAt` is the stored map, `copy` the map each invocation read and marked, `delivered` (a history
variable) the newest delivery of each fingerprint. The order of the deliveries of one emission is
left open. What the probes answer, whether a check is due and whether a key is a duplicate are
`FailoverController`'s questions: here a check may find anything the lock leaves it, and an emission
follows any wake. A delivery counts when it is tried: the code does not look at the result.
`SentLimit` is the 100 of `writeAlertState`; entries of equal age are cut in any order.

### 2.5 RefreshRuns

State: per shard the lock (`holder`, `lockTtl`), per article the claim (`claimTtl`) and whether a
review is saved (`processed`), per run where it stands, what it has still to try (`pending`) and
what it has claimed. `lease`, `age`, `blind` and `late` are history: what is left of the lock as far
as the run was told, the time since its lookup, whether the lookup missed reviews, and which first
reviews were saved out of time. `Gone` holds what belongs to no run any more.

| Code | Actions |
|---|---|
| `acquireRedisWorkerRunLock` in `fetch` and `scheduled` | `AcquireRedisLock` |
| `refreshArticles` up to the backpressure decision, and its deferred branch | `LookUp` |
| `extendRedisWorkerRunLock`, in both modes | `ExtendRedisWorkerRunLock` |
| one turn of the loop of `claimArticlesForAiReviewWithRedis`; its end | `ClaimArticle`; `StartReviews` |
| the reviews and `saveArticleReviewsBatch` | `SaveReviews` |
| `translateSummaryBacklog` after the extension | `TranslateSummaryBacklog` |
| an exception; `releaseRedisLock` in the `finally` block | `Fail`; `ReleaseRedisLock` |
| a run the platform ends | `Crash` |

Each Redis call is answered, applied without an answer, or not applied; the last two are counted by
`MaxFaults`, as are failed lookups, counts and saves, exceptions and crashes. An expiry is a `Tick`;
how many ticks a run takes is left open. Left out: the daily counters, articles the local filters
reject (they are reviewed without a claim), the later retry of articles without a picture, and what
is done with a review (the pipeline's question). `DbArticleLimit` is compared with the reviewed
articles, all taken to be accepted. A Redis that evicts keys before they expire is not modelled.

### 2.6 LiveOrigin

The live-origin readiness check asks each hostname which deployment answers. State: the two records,
what the edges serve (`served`, with `behindSince`), the time of the last DNS change, the derived
state, one wake and the manual actions in flight.

| Code | Actions |
|---|---|
| a wake: the two Cloudflare reads and the two requests, in parallel, then the record | `StartWake`, `ReadRecords`, `CheckLiveOriginReadiness`, `RecordWake` |
| `executeManualLock`, which dates a change though nothing moved | `LockOrUnlock` |
| `executeDnsAction` | `StartMove`, `RefuseMove`, `DecideMove`, `WriteRecord`, `Verify`, `GiveUpMove`, `RecordMove` |
| Cloudflare's edges follow a record; time passes | `EdgesFollow`, `TimePasses` |

`EdgeDelay` and `ActionTime` bound what the outside and the API timeouts take; the property asks
that the propagation window covers them, and the instance takes it to be exactly their sum. The
action dates the change when it starts, and its writes may be as late as `ActionTime` after that.

### 2.7 IngestionScheduling

| Code | Actions |
|---|---|
| `scheduled` up to the wake call | `CronTrigger` |
| `fetch` with a shard and a mode | `ManualRequest` |
| `wakeFailoverStateOwner`, and the first call of the shard's worker | `Wake` |
| the answers of `runShard` | `ShardAnswered` |
| the platform ends a cycle; the controller is deployed with the switch turned | `CycleCutOff`, `TurnSwitch` |
| time | `Minute` |

`sinceWake` and `sinceRefresh` are history. A trigger and its wake call may be late by `MaxDelay`,
less than a period. A trigger that the platform drops before it asked its shard is left out: its
shard waits for its next turn. `ScheduleAssumption` asks that the interval is a multiple of the cron
period; with any other interval the index skips shards.

### 2.8 ManualRateLimit

One client's counter: `Incr` is the INCR and the decision it leads to, `Expire` the EXPIRE that only
the request that read 1 sends, `Crash` an invocation that ends in between, `Tick` the time to live.

### 2.9 ArticleImages and CandidateSelection

A document is what the extraction rules see of it: an item its elements and HTML blocks, a page its
meta tags, links, JSON-LD and tags, an image's URL its scheme, width hint and kind of words. A text
is what its score and the local filter count. The regular expressions that find these in the markup
are abstracted to what they find. The image a loop of the code would return first is the one at the
least usable place; `SelectionAssumption` says that feeds, pages and texts have these forms, that
there are finitely many articles, and that the order of their dates covers them.

| Code | Definitions |
|---|---|
| `isUsableImageUrl`, `firstValidImageUrl`, `extractBestUrlFromSrcset`, `extractImageFromHtml`, `extractArticlePageImageFromHtml`, `extractRssImageUrl` | the operators of the same names |
| `parseRss`, `uniqueArticlesByUrl`, `scoreArticleCandidate`, the sort and the cut | `ParseRss`, `UniqueArticlesByUrl`, `ScoreArticleCandidate`, `First`, `Candidates` |
| the lookup of known URLs, `hydrateMissingArticleImages`, `shouldSkipBeforeAi` | `SelectForReview` |
| `claimArticlesForAiReviewWithRedis`: the limit on reviews, articles claimed by others passed over | `ClaimArticlesForAiReview` |
| a refresh from the feeds to the saved reviews | `RefreshArticles` |
| the six hours of a refusal; articles grow older | `Hour`, `GetsOld` |

A refresh is one action here because what it does in between is private to it; the steps of several
runs interleave in `RefreshRuns` and `ArticlePipeline`. Open are which feeds, pages and
lookups answer, which articles others have claimed, and what becomes of the reviews:

* Lookups that fail, or reach back for fewer rows than there are, miss articles that were decided on
  (`missed`); these are chosen, and may be refused, like any other.
* The reviews are saved last, if the save succeeds and the budget still reaches for it (`saved`).
  Without it only accepted articles whose own row was saved are known to later refreshes (`final`).
* A rejection whose reason names a thumbnail or a missing image is taken for one without an image,
  whoever gave it, and lapses with the six hours: it is reviewed but not `final`.

`pageRead`, `waits` and `repeats` are history. `waits` counts, for each article, the refreshes that
had an image of it, found it unclaimed and did not review it; `repeats` the reviews that are made
again for one of the reasons above, and the decisions that a refusal after a missed lookup undoes.
`TurnsGoToOthersOnce` compares the two: a refresh makes as many reviews as it may while one waits,
so the turns an article has lost cannot be more than the decisions on other articles and the
repeats. While nothing is missed, unsaved or lapses, an article therefore waits for fewer refreshes
than there are articles. That the repeats come to an end is not claimed, because they need not (see
the remarks).

### 2.10 ArticlePromise and ArticlePipeline

`ArticlePromise` has three steps: a batch is accepted, summaries are added to articles that are
there, articles with every summary are published. Nothing is taken back.

`ArticlePipeline` has the tables (`review`, `status`, `newest`, `summaries`), each shard's KV list
(`remembered`) and each shard's run: the call it comes to next (`pc`) and its variables.

| Code | Actions |
|---|---|
| `refreshArticles` up to the reviews | `Refresh` |
| `translateSummaryBacklog` up to its recovery | `Backlog` |
| `saveAcceptedArticlesBatch` | `SaveArticles` |
| `loadSummaryTranslationRecoveryArticles`, `buildArticleSummaryTranslations` | `BuildTranslations` |
| `saveArticleSummariesBatch` | `SaveSummaries` |
| `getFullyTranslatedOriginalUrls` | `LookUpComplete` |
| `publishArticlesBatch` with the database's own readiness test | `PublishArticles` |
| `saveArticleReviewsBatch`, not made when its budget is gone | `SaveReviews` |
| `rememberProcessedUrlsInKv` | `Remember` |
| the platform, or an exception, ends the run | `CutOff` |

A call is answered, applied without an answer, or not applied (`Outcomes` of `FaultyCalls`). Up to
the reviews a run changes nothing but its claims, so the lookups and reviews are one step with the
decisions left open. `unsaved` and `unfinished` are history: what a run could not save, and what one
saved summaries of and could not publish. `Orders` leaves open in which order a batch's rows stand
by date. Articles are held for their translations, as every shard's configuration says.

### 2.11 SummaryBackfill

| Code | Actions |
|---|---|
| the settings and `loadFailedTranslationCache` | `StartScript` |
| `loadCandidateArticlesPage`, `loadExistingSummaries`, `buildTranslationTasks` | `ScanPage` |
| `translateArticle` with both providers, `saveSummary` | `TranslateNext` |
| `saveFailedTranslationCache` | `SaveFailedTranslations` |
| the lookup and the update of `publishFullyTranslatedArticles` | `LookUpReady`, `PublishReady` |
| the end, a failed lookup, an operator's interrupt | `EndScript` |
| the worker meanwhile | `WorkerRuns` |

All settings that change what the script does are chosen at each start: the languages
(`LANGUAGE_CODES`), the source, the scan, the retry and the force. The languages the worker waits
for (`SiteLanguages`) are a constant of their own, since the two configurations are separate, and
the script may be set to fewer; `narrowly` (history) has the articles such runs have published. The
update of `PublishReady` asks for nothing but URLs: whether what it publishes is complete rests on
the lookup before it, whose result the script carries as `readyUrls`, and on nobody ever taking a
summary back, which is what `ArticlePromise` says of the worker. `NewestFirst` and `Codes` give
articles and languages their places, and `Ordered` puts the articles of a page and its missing rows
in that order.

### 2.12 ProviderCalls

| Code | Actions |
|---|---|
| a run's configuration (`getRuntimeConfig`) and its tasks | `StartWork` |
| the next index of `mapWithConcurrency`, and who is asked first | `TakeTask` |
| one request and its answer; one that fails, with an attempt left, with another provider left, with neither | `Answer`; `AskAgain`, `FallBack`, `GiveUp` |
| `Promise.all` | `WorkDone` |

`ProviderOrder` is the order a run reports and estimates its subrequests by, `FirstAsked` and
`AskedNext` are what the calls really follow: three functions of the source that have to agree for
every configuration. The local service is the condition `LocalMayAnswer`: it refuses what lacks a
text, and otherwise its model may answer or not.

### 2.13 SubrequestBudget

One action per phase of a refresh, in their order: `RecordEstimate`, `BuildSummaries`,
`SaveSummaryRows`, `LookUpTranslated`, `PublishBatch`, `RefreshSnapshot`, `SaveReviewRows`,
`RememberUrls`, `SaveFeedHealthRows`, `SaveAiUsage`, `SaveWorkerRun`, `SaveKvRunState`,
`SaveRedisStats`. A phase is a call of `trySpendSubrequestBudget` and what follows from its answer;
`Spend` is that function. The numbers the code computes (the cost of a snapshot, the tasks that fit)
are computed here from the same constants.

### 2.14 FeedHealth

`FetchFeed`, `ReadHealth` (`getFeedHealthSnapshots`), `SaveHealth` (`buildFeedHealthRows` and
`saveFeedHealthBatch`), and `NotCounted` for a run whose budget or life ends before. `fetched` and
`disturbed` are history: all fetches of the feed, and whether some run was not counted as it
happened.

### 2.15 PublicFeed

Contents are told apart by their age, since every publication makes a new one.

| Code | Actions |
|---|---|
| publishing, and the phase's budget | `PublishArticlesInFeed` |
| the database's function that rebuilds its snapshot | `RefreshDatabaseSnapshot` |
| `fetchPublicFeedSnapshotRowsForEdge` for one language | `ReadSnapshotRows` |
| the comparison with the existing snapshot and the write | `WriteEdgeSnapshot` |
| one attempt at the invalidations that are left | `InvalidateCaches` |
| the run is cut off | `FeedCutOff` |
| `readPublicFeedEdgeSnapshotFromKv`, the articles and the status of the edge endpoints | the operators `SnapshotFound`, `Served` |

KV and an isolate's memory answer with anything the key ever held (`held`). With
`worker_public_feed_edge_snapshot_publish` off a refresh makes no copies and goes on to the caches;
it says ok, and counts no articles, as the code does. Failed invalidations are logged, and the
refresh says ok all the same. `report` (what the last refresh said, and which caches it logged a
warning for), `stale` and `overlapped` are history. `LagIsReported` says what such a report is
worth.

### 2.16 DatabaseModes

`StartDbRun` (pause, mode and confirmation), `ReadDb` (`compareShadowRead`), `WriteDb`
(`assertNoShadowWrite`), `EndDbRun`. `DeployConfiguration` and `CopyDb` are the operators' part of a
cutover, which the repository refers to and does not contain: that they do it in order is the guards
of these two actions, and an assumption of this module.

## 3. Runs

Bounds are the constants of each `.cfg`: `MaxTime`, `MaxClock` bound the clock, `MaxCrashes` the
crashes of the controller, `MaxFaults` the failed calls, lost answers and ended runs of the worker,
`MaxContents`, `MaxFetches`, `MaxWrites`, `MaxRepeats` and `Cycles` what would otherwise grow
without end.
Everything else is finite by itself.

| Run | Instance | Properties | What it shows |
|---|---|---|---|
| `health` | `part` health: two overlapping invocations, a lock request, one crash; interval 2, threshold 2, staleness 2, history of 3, time 0..6. `part` backfill: two articles, two languages, runs with one or both, both providers, two rows to a run, pages of one article or all two | `TypeOK`, `HistorySpaced`, `StreakMatchesHistory`, `FreshMeansRecentlyChecked`, `AlarmInTime`, `SustainedOutage`, `LockFreezesTarget`, `ImplementsPromise`; `EarlyOnlyIfNarrow`, `HeadwayIsMade` | Concurrent wakes count a check once; the count is the outage; the alarm is neither lost nor late. Beside the worker the script publishes nothing incomplete but by runs with fewer languages, and gets on |
| `actions` | `part` controller: one invocation with DNS readback, a DNS action, a lock request, interval 1, time 0..2. `part` live_origin: wakes, a move, locks, window 2 = edge delay 1 + action time 1, clock 0..3, one fault | `AgreedReadbackIsActive`, `HealthyIsHealthy`; `OwnMoveIsNoMismatch` | Operators at work beside what runs by itself: the record's parts agree, and the controller's moves are not taken for drift |
| `retry` | an action to Vercel, its retry under the same key, an action to the VPS, edits from outside, one crash; the dashboard showed the records untouched or half moved | `KeyAppliedOnce`, `DoneMeansMoved` | Retries, lost replies, half-applied writes and operators racing each other |
| `watchdog` | two invocations, a crash that may lose the alarm; runs end | `DueIsChecked`, `AlarmChainSuffices` | The object's own alarms suffice while nothing crashes; the cron wake gets a due check counted whatever happened to the alarm |
| `lost_lock` | a lock request beside a DNS action | `LockHeldUntilDisabled` (violated) | See the findings below |
| `alerts` | `part` alerts: a wake and an operator's failover or lock, a map of one entry, one crash, window 1, time 0..1; fairness of wakes and deliveries. `part` selection: three articles in two feeds, two candidates, one review and up to two lookups a refresh, three lists of feeds and two pages with images of every kind, a refusal that lasts one hour, one repeat | `SuppressedWasSent`, `FailoverAnnounced`; `NoThumbnailMeansNone`, `TurnsGoToOthersOnce` | Overlap, crash and eviction cost a duplicate, never a silent alert; a failover recorded just before a crash is announced later. A refusal for want of an image is right, and a waiting article loses its turns only to reviews that count or have to be made again |
| `alerts_race` | a wake and a lock request | `RateLimited` (violated) | See the findings below |
| `alerts_drift` | wakes that read unmanaged records | `DriftIsAlerted` (violated) | See the findings below |
| `runs_lock` | a refresh and a translation run of one shard, a refresh of another, one article in both feeds, two faults, a table that fills up; lock 2, claim 3, in time 1 | `OverlapMeansExpired`, `NoRepeatedReview` | The lock is exclusive while it lasts; the claims hold across shards, crashes and outlived locks |
| `runs_live` | two refreshes, two articles, one claim each, one fault; fairness | `EventuallyReviewed` | Nothing left behind blocks an article for good |
| `worker` | eight parts, listed below; one fault in each behaviour; fairness | 16 properties, listed below | What runs of all shards do to the tables, the feed, the counters and the databases when calls fail, overlap and are cut off |
| `pipeline_starved` | one shard, two articles, lookback 1, no faults; fairness | `PendingIsTranslated` (violated) | See the findings below |

The parts of `worker`:

| Part | Instance | Properties |
|---|---|---|
| pipeline | two shards, one article in two languages, two tasks to a run, lookback 2 | `PublishedIsTranslated`, `NoneForgotten`, `RememberedIsReviewed`, `AcceptedIsSaved`, `ImplementsPromise`, `PendingIsTranslated` |
| feed | two shards, two languages, one cache, two contents | `NamedRefreshIsContained`, `LagIsReported` |
| budget | the limit 50, reserve 8, task cost 2 and six tasks of the configuration; ten estimates from 0 to 60, with every value around the 42 where the phases begin to be deferred | `TranslationsPersistable`, `RunIsRecorded` |
| health | two overlapping runs, four fetches | `FeedHealthSound` |
| providers | two tasks, two callers, every configuration | `ProvidersExhausted` |
| databases | two shards, one write | `CutoverLosesNothing` |
| schedule | two shards, interval and cron period 2, delays of 1, two cycles at a time | `ScheduleKept` |
| rate_limit | three requests, limit 3, window 5 | `LimitHeld`, `FreedUnlessOrphaned` |

Some actions are enabled only in a part of these runs: `ReadDnsRecord` in `actions`, where
Cloudflare is configured, and translation runs in `runs_lock`.

Why the bounds are enough: the health run has room for three counted checks, so an outage can begin,
reach the threshold, end, and be followed by another check; two invocations suffice for every
pairwise race, and a third would only repeat the record of the second; a history of three rows is
shorter than the run, so rows are evicted. An interval of 2 leaves times at which a check is not
due; the probe may take any number of ticks. The actions and retry runs let the clock stand or move
little because none of their properties measures time. In `alerts` a mark is inside its window at
the time it was set and outside it one tick later, and the one entry of the map is evicted by every
other alert.

In `runs_lock` and `runs_live` the claim (3 ticks) outlasts two refreshes in time (1 tick each) and
the lock (1 or 2) is shorter than a slow refresh, as in the default configuration, where a claim
lasts 30 minutes, a lock 10, and the platform ends a scheduled invocation after 15. One claim per
refresh and two articles make a refresh leave work behind; one fault suffices for each thing that
can be left behind (a lock or a claim without an owner, a review without its save), and `runs_lock`
has two because a lost extension and a failed release may meet.

In the pipeline two languages are what it takes for two runs to complete an article between them,
and two shards for two runs at once; the articles of one run do not depend on each other except
through the two limits, which the theorems have for every value and `pipeline_starved` for two
articles. Four fetches let a success stand before, between and behind failures. One write is missed
or not missed. In the selection two candidates of three articles make the cut matter, one review and
two lookups make articles wait, and the hour and the ages change their order; with one repeat the
article waits for two refreshes, one for a decision and one for the repeat, so the bound is reached.
In the script's run two languages let a run lack one, and pages of one article let it scan on.

**Fairness.** `RunFairness` (controller): a delivered alert, an answered probe and a record in hand
are weakly fair, because every probe has an abort timeout and every alert delivery has one too. The
properties of `watchdog` name what else they rest on: `DueIsChecked` on the cron wake (the trigger
fires every five minutes, and the handler wakes the object in each cycle) and on nothing about
alarms, `AlarmChainSuffices` on the alarm (the platform delivers a pending alarm at least once) and
on nothing about cron, and it speaks of a controller that has not crashed: a crash between the last
record and `setAlarm` may end the chain. The clock is not fair: a property that depends on a check
being due says so. `alerts` assumes that wakes keep coming, as both of these provide, and that
deliveries end, as their 2.5 s abort timeout provides.

`FairSpec` of `RefreshRuns`: time passes, every step of a run that is under way is taken in the end,
and every shard keeps being asked for a refresh (the controller's cron trigger). Translation runs
are left out of `runs_live`: the controller sends one only after the refresh of the same cycle has
answered, so they do not compete for the lock with the scheduled refresh, and the model, which lets
them come at any time, would let them starve it.

`FairSpec` of `ArticlePipeline`: the calls of some one shard end (they have timeouts), and that
shard keeps coming to a backlog run. The latter is strong fairness, because a backlog run is
possible only between refreshes and the trigger comes back again and again, not continuously; the
other shards need not do anything. `RateFairSpec` of `ManualRateLimit`: time passes and an EXPIRE
that is to be sent ends. A client that keeps asking is not made to stop.

**Deadlock** is checked in every passing run but `retry`, which has only requests and ends when all
of them are answered, as `lost_lock` does. In `worker` the history of a feed's fetches fills up; its
part then stutters by `HealthEnds`.

### Finding: a DNS action lifts a lock taken meanwhile

`executeDnsAction` records `manualLock: currentStatus.manualLock`, read before four to six
Cloudflare calls. A lock request answered during the calls ("Automatic failback lock enabled. Health
checks will continue.") is switched off by the record, with no request to disable it; `lost_lock`
shows the shortest such behaviour.

### Finding: overlapping emissions deliver an alert twice

`emitFailoverAlerts` reads the map of what was sent, awaits every delivery and then writes the map
back. An invocation that starts during the deliveries reads the old map and delivers the same
fingerprints again, so "3600 seconds per alert fingerprint" (`docs/FAILOVER_ALERTS.md`) holds only
while emissions do not overlap (`alerts_race`). The error is on the safe side: `SuppressedWasSent`
holds and is proved.

### Finding: an unmanaged record raises no drift alert

`hasActualDnsDrift` leaves out records that point to neither target; `hasDnsDrift`, which labels the
status `dns_drift`, counts them. After somebody points a record elsewhere, the dashboard says drift
and no alert is sent (`alerts_drift`), though the document promises one when "desired DNS target and
observed Cloudflare DNS targets disagree".

### Finding: an article can wait for its translations for good

A comment of `worker/src/index.ts` says that old translation gaps are drained first, which "prevents
today's pending/untranslated articles from starving forever when the RSS lane keeps accepting new
articles on every run". The recovery that does so reads only the newest rows of the table, as many
as `SUMMARY_TRANSLATION_RECOVERY_LOOKBACK_LIMIT` says. An article that failed to be translated at
once and has that many newer rows in front of it is not seen by any later run (`pipeline_starved`;
nothing fails in it). With a lookback as long as the table `PendingIsTranslated` holds (`worker`),
though calls fail. The backfill script, which can read the whole table, is the way out.

### Remarks

Observations that no document contradicts, so they are no findings.

*The controller.*
* Overlapping DNS actions can set `lastDnsChangeAt` back, since each dates its change when it
  started. Lock actions rewrite it though nothing moved, so a lock hides a mismatch for one
  propagation window.
* With an interval that is not a multiple of the cron period the scheduler never asks some shards by
  itself. The configuration has 5 minutes for both.

*Locks and limits.*
* A run extends its lock once, before the expensive work, goes on when that fails, and never looks
  at it again. After the time to live the next run of the shard starts beside it, so "the same shard
  does not run twice at the same time" (`worker/UPSTASH_REDIS_WORKER_UPDATE_README.md`) holds only
  up to that time. What does hold is `OverlapMeansExpired`, and that the claims keep overlapping
  runs from paying twice (`NoRepeatedReview`).
* The rate limit's counter gets its time to live from the one request that read 1. If that EXPIRE is
  lost, or the answer of the INCR before it, no later request sends another and the client stays
  refused: `FreedUnlessOrphaned` says that this is the only way.
* A full queue does not drain: `runs_live` gives the queue room for all articles of the feeds. With
  `QueueLimit` below that a deferred refresh reviews nothing, so the next one finds the same queue;
  only articles that leave the feeds shorten it.

*Selection.*
* Candidates are cut to 300 before the reviewed ones are taken out, so reviewed articles with high
  scores can fill the list. `waits` counts candidates only.
* Page lookups go to the first articles in the order of the scores, and a failed lookup is a refusal
  for six hours, after which it is looked up again. So pages without an image can take the lookups
  of those behind them again and again; an article that is never looked up is refused, and no
  property excludes it: `TurnsGoToOthersOnce` is about refreshes that have an image of the article.
  With 18 reviews and 20 feeds the estimate leaves no lookups at all, and every article without an
  image in its item is then refused.
* Reviews that are not saved are made again by the next refresh, before others that wait, and paid
  for again. A full refresh with the default limits puts its save off (see below), so a shard that
  has always enough to review can stay with the same articles; accepted ones are spared, by their
  own row.
* A rejection whose reason happens to speak of a thumbnail, a usable image or no image lapses after
  six hours, also when the model gave it.
* The rules for enclosures, Media RSS elements and the like look at the address as it stands, the
  model at the resolved one: of a relative address the code may drop what the model keeps.
* Of a `srcset` only the best entry is tried; of two feeds with one URL the first feed's item
  counts, image or not.

*Saves.*
* Runs of the same shard do not overlap in `ArticlePipeline`; where they do because a lock was
  outlived, the claims keep them from reviewing the same articles.
* An article whose publication failed after its last summary was saved stays waiting: it lacks no
  summary, so recovery does not find it (`NoneForgotten` has it in `unfinished`). The backfill
  script publishes it, if it has anything to translate; without a task it ends before publishing.
* An accepting review is saved even when the save of its article failed; the article is then lost to
  later runs (`AcceptedIsSaved` has it in `unsaved`).
* The default estimate of a full refresh is 43, one more than the phases leave room for, so its
  reviews are not saved in that run (`TurnsGoToOthersOnce` counts them); a snapshot refresh, at 29
  with KV, practically never fits in a refresh and is left to the backlog run. A refresh that
  backpressure stops makes its records without asking the budget.
* What a run reports of the feed says less than it seems. Overlapping refreshes of the snapshot can
  write older rows over newer ones and both report success. With copies switched off the report is
  ok too, counts no articles, and leaves the copies in KV behind. Failed invalidations are only
  logged. A run that has nothing to publish reports ok by default, whatever the one before left
  behind. `LagIsReported` says what is left: without overlap, ok means that the snapshot has the
  newest articles, that the caches without a warning have dropped their pages and, if articles are
  counted, that all copies have them.
* The backlog run's number of published articles counts those it meant to publish, also when the
  call failed; the flag beside it tells.
* A failed lookup of feed health starts the counters from zero; feeds that share a source share its
  counts of articles.

*Providers and databases.*
* The timer of `fetchWithTimeout` ends with the headers: a body may take longer.
* Mode and pause are read once per invocation, so a pause has to wait for the runs under way
  (`Quiet` in `DatabaseModes`, which the operators have to see to).

*The script.*
* `PUBLISH_READY` is said to "publish translation_pending rows after all language rows exist". The
  script takes the languages of the run for all: `LANGUAGE_CODES`, of which "a comma-separated
  subset" may be given, while the worker waits for its own, `ENABLED_SUMMARY_LANGUAGES`. A run set
  to one language, with publishing on as it is by default, puts articles on the site that the worker
  holds back for the others. `EarlyOnlyIfNarrow` says that this is the only way: the time between
  the script's lookup and its update, which checks nothing, failed calls, ended runs and the
  worker's own runs do not publish an article too early.
* The offset of a page does not know what arrived in front of it, so a page may repeat articles.
* `RETRY_FAILED` replaces the file of failures by its own; `FORCE` redoes the newest batch each
  time; both are why `HeadwayIsMade` excludes them.

## 4. Proofs

Eight modules hold theorems, each with the proof of its inductive invariant, one lemma or step for
each action. They hold for every value of the constants that satisfies the module's named
assumptions; TLC evaluates these in every run that extends the module.

| Theorem | Statement |
|---|---|
| `FailoverProofs!TypeCorrectness` | `Spec => []TypeOK` |
| `FailoverProofs!ChecksSpaced` | `Spec => []HistorySpaced` |
| `FailoverProofs!StatusIsNewestRow` | `Spec => []StatusMatchesHistory` |
| `FailoverProofs!StreakIsOutage` | `Spec => []StreakMatchesHistory` |
| `FailoverProofs!OnlySustainedOutages` | `Spec => SustainedOutage` |
| `FailoverProofs!LockFreezes` | `Spec => LockFreezesTarget` |
| `FailoverProofs!PromiseImplemented` | `Spec => ImplementsPromise` |
| `FailoverProofs!FreshIsRecent` | `Spec => []FreshMeansRecentlyChecked` |
| `FailoverProofs!HealthyLabelIsTrue` | `Spec => []HealthyIsHealthy` |
| `FailoverProofs!AgreedReadbackCounts` | `Spec => []AgreedReadbackIsActive` |
| `FailoverProofs!AlarmsInTime` | `Spec => []AlarmInTime` |
| `FailoverProofs!DoneIsMoved` | `Spec => DoneMeansMoved` |
| `FailoverProofs!KeysAppliedOnce` | `Spec => []KeyAppliedOnce` |
| `FailoverAlertsProofs!AlertTypes` | `Spec => []TypeOK` |
| `FailoverAlertsProofs!NothingSuppressedUnsent` | `Spec => SuppressedWasSent` |
| `ActionsProofs!OwnMovesAreNoMismatch` | `LiveSpec => OwnMoveIsNoMismatch` |
| `ActionsProofs!OnlyNarrowRunsPublishEarly` | `BackfillSpec => []EarlyOnlyIfNarrow` |
| `ActionsProofs!RunsMakeHeadway` | `BackfillSpec => []HeadwayIsMade` |
| `RefreshRunsProofs!RunTypes` | `Spec => []TypeOK` |
| `RefreshRunsProofs!LockExclusive` | `Spec => []OverlapMeansExpired` |
| `RefreshRunsProofs!ReviewedOnce` | `Spec => []NoRepeatedReview` |
| `RefreshRunsProofs!RefusedHaveNoImage` | `SelectionSpec => []NoThumbnailMeansNone` |
| `RefreshRunsProofs!TurnsAreNotWasted` | `SelectionSpec => []TurnsGoToOthersOnce` |
| `ArticlePipelineProofs!PipelineTyped` | `Spec => []TypeOK` |
| `ArticlePipelineProofs!PublishedAreTranslated` | `Spec => []PublishedIsTranslated` |
| `ArticlePipelineProofs!NoArticleForgotten` | `Spec => []NoneForgotten` |
| `ArticlePipelineProofs!RememberedAreReviewed` | `Spec => []RememberedIsReviewed` |
| `ArticlePipelineProofs!AcceptedAreSaved` | `Spec => []AcceptedIsSaved` |
| `ArticlePipelineProofs!PipelineImplementsPromise` | `Spec => ImplementsPromise` |
| `PublicFeedProofs!SnapshotsKeepTheirClaim` | `FeedSpec => []NamedRefreshIsContained` |
| `PublicFeedProofs!LagsAreReported` | `FeedSpec => []LagIsReported` |
| `WorkerCallsProofs!TranslationsArePersistable` | `BudgetSpec => []TranslationsPersistable` |
| `WorkerCallsProofs!RunsAreRecorded` | `BudgetSpec => []RunIsRecorded` |
| `WorkerCallsProofs!LimitIsKept` | `BudgetSpec => []LimitKept` |
| `WorkerCallsProofs!ProvidersAreExhausted` | `ProviderSpec => []ProvidersExhausted` |
| `WorkerStateProofs!CutoversLoseNothing` | `DbSpec => []CutoverLosesNothing` |
| `WorkerStateProofs!RateTypesKept` | `RateSpec => []RateTypeOK` |
| `WorkerStateProofs!RateLimited` | `RateSpec => []LimitHeld` |
| `WorkerStateProofs!FeedHealthIsSound` | `HealthSpec => []FeedHealthSound` |
| `WorkerStateProofs!EveryShardHasItsTurn` | `ScheduleSpec => []ScheduleKept` |

Assumptions: `ConfigAssumption` (positive integers, as `readPositiveInteger` yields) and
`ControllerAssumption` (what a request is); TLC evaluates both in every run.

The inductive invariant is `IInv == TypeOK /\ CountInv /\ RunTimes /\ OpKinds`. `HistorySpaced`
alone is not inductive: that a new row is far enough from the newest one follows only from the due
test on the stored `nextCheckDueAt`, so the status must be tied to the newest row
(`StatusMatchesHistory`), and a count is refused against the time of the wake while the row carries
the time of the probe, so an invocation's two times must be ordered (`RunTimes`: woken no later than
probed, probed no later than now). The failure count needs its own tie to the rows
(`StreakMatchesHistory`), and the first count needs to know what an empty history means
(`NothingStored`, `NeverChecked`). `OpKinds` says that a request in flight is a DNS action, so that
`OperatorActed` tells who moved the target.

The step lemmas show that each record keeps `CountInv` and is a step of the promise
(`RecordsPromised`, `LockPromised`, `ActionPromised`) and that all other actions leave its variables
alone (`QuietStep`, `AuditOnlyStep`); `SustainedOutage` then follows from the streak and the spacing
of the rows of the state after the step.

`FreshMeansRecentlyChecked` and `HealthyIsHealthy` follow from `IInv` in every state.
`AgreedReadbackIsActive` is inductive beside it: `StepRecords` says what any step may have recorded,
and each of these records keeps `Agreed`. `AlarmInTime` needs `AlarmInv`, which adds that an idle
slot is nobody's alarm handler (`SlotsFree`), that alarms are only set once a status is stored
(`AlarmsStored`), and that an invocation which reports a stale status will not schedule a check
later than the next due one (`SeenInTime`). The last holds because due times only advance
(`DueAdvances`): a count is refused before the due time, and every other record leaves it alone.

`DoneMeansMoved` needs to know what an action has in hand between its calls: `ReadsHold` says that
while nobody has asked for the opposite, what it read of a record, or wrote to it, is still there
but for edits from outside. That nobody has asked for the opposite at the end means that nobody had
when it read (`StaysAlone`), since a request that has been made is not unmade. `KeyAppliedOnce` is
about places in the audit log, which move back with each row that is added: `KeyRemembered` says
that the key of an applied row is on the bounded list of keys still, no farther back than the
applied rows since, and the crashes, allow; `AppliedShift` and `AppliedFirst` count those rows after
a step. A crash between the record and the log costs the log a row, which the property allows for.

`ActionsProofs` has two parts. `LiveInv` says that a record the edges do not follow yet was changed
by an action that has still to record its change, or at most an action's time after the last change
that the status knows (`BehindKnown`); that the two records differ only while an action has still to
write, or to notice that another one wrote over it (`RecordsSettle`); and that a wake knows of a
change no older than the window or has seen nothing move (`WakeKnows`). The theorem is about all
behaviours; that nothing failed up to a step follows from the number of faults after it, which never
falls (`FaultsStay`). `BackfillInv` says that what the lookup of a run with all of the worker's
languages found complete is complete (`ReadyIsComplete`). `HeadwayInv` is about the counted runs:
what is open now was open at the start (`RunKnows`); until there is a task, an article with an open
row is ahead of the pages read, or another has settled the row; the tasks were open at the start;
and the first of them is settled, or among the failures to be written, when none are left
(`RunSettles`). An article that is ahead stays ahead because new articles only push it back
(`PlacesGrow`), and a page without a task is a full page in front of it (`PageIsNext`).

`FailoverAlertsProofs` proves `AlertTypes` (`Spec => []TypeOK`) and `NothingSuppressedUnsent` (`Spec
=> SuppressedWasSent`) from `ConfigAssumption` and `AlertAssumption`. What is on file proves nothing
by itself: entries are overwritten by older copies and evicted. The invariant `HonestMaps` says that
no map is ever ahead of the deliveries, the stored one for any fingerprint, a copy for any but those
its invocation is still to deliver, and those carry the time they will be delivered under; it is
kept because the newest delivery of a fingerprint never moves back (`Latest`) and because a copy is
stored only when nothing is left to deliver.

`RefreshRunsProofs` proves `RunTypes` (`Spec => []TypeOK`), `LockExclusive` (`Spec =>
[]OverlapMeansExpired`) and `ReviewedOnce` (`Spec => []NoRepeatedReview`) from `RunsAssumption`, for
any runs, shards, feeds, limits, times to live and number of faults. Its one assumption of substance
is `2 * SlowAfter < ReviewTtl`: a claim lasts more than twice as long as a refresh that counts as in
time.

* The lock: `LeaseInv` says that what a run was told is left of its lock is really there. It is what
  release and extension by value preserve, and two leases of one shard would name two holders.
* The claims: `NoRepeatedReview` needs to know that a claim outlives the refresh that took it
  (`ClaimsHeld`) and that what an in-time refresh saved behind another's back is still claimed when
  the other comes to it (`StaleClaimed`): at the save at most `SlowAfter` of the claim is gone, and
  the other's remaining time is shorter than the rest. `AgingInv` says whose age is counted.

The same module has the selection, with `SelectionInv == SelectionTypes /\ NoThumbnailMeansNone /\
TurnsGoToOthersOnce`, from `SelectionAssumption`. `PageIsTried` and `ItemIsTried` say that each
operator on images gives one if there is a usable one anywhere in its input. The turns are a sum
that every step keeps: `ReviewsAreFull` says that a refresh that leaves an unclaimed article over
reviews as many as it may, `RefusedHasNone` that whatever it takes was undecided or missed by the
lookup, and `TurnIsPaidFor` counts: each of its reviews is a new decision on another article or is
made again, and a decision that is undone is counted too (`LossIsCounted`). That a first article or
a least usable place exists comes from `MinimalSet` (a set of finite sets has a minimal member),
which takes the place of an induction where the library's induction theorems cannot be used.

`ArticlePipelineProofs` has `PipelineInv == TableTypes /\ LocalTypes /\ RunInv` and the four safety
properties, for any shards, articles, languages, limits and faults. None of the four is inductive:
what a run saves or publishes it decided on some calls earlier, by tables that other shards have
changed since. `RunInv` says that what a run holds is still backed by the tables: the articles it
carries are reviewed, its summaries belong to articles that are there, and its accepted articles
have their rows once it has tried to save them. This survives the other shards' steps because
nothing is ever taken out of these tables (`TableTypes` has the order of `newest`, one place for
each article). `NoneForgotten` says of every complete article that waits that some run is about to
look at it or a publication failed: of two runs that complete an article between them the later save
sees both. `PromiseStep` maps each step to one of `ArticlePromise` or to a stutter.

`PublicFeedProofs` has `FeedInv == FeedTypes /\ RefreshInv /\ PcTyped /\ HeldContain`. A snapshot in
KV carries a time and rows that were read separately, so the time must not be later than the rows:
`RefreshInv` orders the database's snapshot, the time a run has for it and the rows the run has
read, and `HeldContain` says it of everything KV ever held, which is what a stale read may answer
with. `LagsAreReported` has `LagInv`: nothing anywhere is newer than the site (`NothingNewer`);
while refreshes do not overlap one is under way at most (`OneUnderWay`), and each of its steps has
brought up to date what it has passed (`Undisturbed`), unless a call failed, which it reports. What
a refresh has yet to reach it has not spoken for: before the database's answer it has nothing
(`NothingYet`), and `FollowsLive` says step by step which copies and caches it may call done.

`WorkerCallsProofs` has `BudgetInv == BudgetTypes /\ KeptInv /\ TranslationsPersistable /\
WithinInv /\ RunIsRecorded /\ LimitKept`. `KeptInv` is the point: between the translations and the
publication of what they made, what these steps still need (`Due`) is kept back in addition to the
reserve. `TasksFit` shows it of the number of tasks the budget grants. `WithinInv` says that a
refresh whose estimate was within its limit comes to its records with the reserve untouched. For the
providers `ProviderInv` says of each caller whom it has asked how often, by its place in the order
of its configuration (`CallersAsk`), that no two callers hold one task (`CallersApart`) and that the
tasks that are taken are those below the next one (`TasksInOrder`); `Orders` shows of every
configuration that the order that is followed is the order that is reported.

`WorkerStateProofs` has one invariant for each of its modules.

`DbInv == DbTypes /\ RunsAgree /\ OpenInParity /\ RunsComplete /\ AllInformed`: while a run is
under way every shard is deployed with its primary; while a shard is let go on all primaries are the
same, and nothing is missing there. The pause, the end of all runs and the copy together let the
primary change without breaking these.

`RateInv == RateTypeOK /\ AdmittedInv`: no more were admitted than the counter says, and no more
than the limit.

`HealthInv` counts the fetches that have ended (`EveryFetchEnded`) and says that the row on file,
and every copy a run has in hand, has counted no more of them, of either outcome, than there were
besides the ones still to be saved (`RowsSound`: a copy will be extended by its run's own fetch),
and exactly as many while nothing disturbed the runs (`ExactUndisturbed`).

`ScheduleInv` says of every shard that it was asked since its window began, or that its trigger is
still waiting (`AskedInTime`); that a waiting trigger is of the shard whose window has just begun,
or was taken while the switch was off (`TriggersAreOfTheirShard`); and that it has its turn before
the next one is due (`TriggersSettle`). `Windows`, `FirstSlotIsItsTurn` and `MinutePasses` are the
arithmetic: every window begins with a trigger, which finds the shard the window is of.

Six theorems state no property of a run. `StatusIsNewestRow` is a part of `IInv` that readers may
want by itself; `AlertTypes`, `RunTypes`, `PipelineTyped` and `RateTypesKept` are type correctness
in modules whose runs check deeper properties; `LimitIsKept` says that no phase of a refresh takes
it over its limit, or past the estimate it came with where that was over the limit before.

### Only model-checked

* Liveness: `DueIsChecked`, `AlarmChainSuffices`, `FailoverAnnounced`, `EventuallyReviewed`,
  `PendingIsTranslated`, `FreedUnlessOrphaned`. Fairness and ENABLED are beyond the prover. Every
  other property of a passing run is a theorem.
* The disagreements of `lost_lock`, `alerts_race`, `alerts_drift` and `pipeline_starved`:
  counterexamples need no proof.

## 5. Not modelled

* *Status endpoint and request signatures.* A read-only answer, built from one read of the status
  and signed; there is no state behind it but the one `FailoverController` has, and its signature is
  cryptography.
* *Analytics, logging, notifications' wording.* Nothing reads them back.
* *Runtime feature flags.* A table of names and defaults.
* *Database schema.* Its unique keys (one row per article, one per article and language) are built
  into the types of `ArticlePipeline` and `SummaryBackfill`; indexes and policies change no
  behaviour modelled here.
* *Rows of the DNS history.* Every readback writes one, no decision reads them.
* *Prompts, text limits and the quality rules for translations.* A review or a translation is a
  decision of the model, left open; what the code makes of each is modelled.
* *Markup.* Which element a regular expression finds in a page is the input of `ArticleImages`, not
  its result.
* *Run state in KV* and the records of a refresh that backpressure stops: shown on a status page,
  read by no run.
* *Routing, methods and responses* of the workers, beyond the order of lock, limit, pause and run.
* *Operational scripts and workflows.* Deployments, smoke tests, offline regressions and one-off
  maintenance run outside the program. The backfill script is modelled because operators run it
  against the same tables.

## 6. What is left

1. `SubrequestBudget` and `ArticlePipeline` composed, so that the phases left out by the one are
   those the other leaves out; today the pipeline leaves that choice open, which allows more.
2. A Redis that evicts keys before they expire.
