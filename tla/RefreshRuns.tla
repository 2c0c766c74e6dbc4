------------------------------ MODULE RefreshRuns ------------------------------
(***************************************************************************)
(* The runs of the ingestion worker and what keeps them apart              *)
(* (worker/src/index.ts).  A run of a shard takes the shard's lock, a      *)
(* Redis key with a time to live.  A refresh looks up which articles of    *)
(* its feeds were reviewed before, extends the lock once, claims the       *)
(* articles it will review with one Redis key each, has them reviewed and  *)
(* saves the reviews; a translation run takes the same lock.  Claims are   *)
(* never given back: they expire.  Nothing stops a run whose lock has      *)
(* expired.                                                                *)
(*                                                                         *)
(* Times to live are counted down by Tick.  A Redis call may fail before   *)
(* it is applied, and its answer may be lost after; the worker takes both  *)
(* for a refusal.  An article is one that passes the local filters and is  *)
(* accepted when reviewed; the order in which a run tries them, by score,  *)
(* is left open.  Redis is configured; without it nothing is locked.       *)
(***************************************************************************)
EXTENDS Integers, FiniteSets

CONSTANTS
    Shards,
    Refreshers,     \* slots for refreshes, scheduled or manual
    Translators,    \* slots for translation runs
    Gone,           \* stands for every run that has ended: request ids are not reused
    ShardOf,        \* the shard of each run
    Articles,
    Feed,           \* the articles in the feeds of each shard
    LockTtl,        \* getUpstashRedisWorkerLockTtlSeconds
    ReviewTtl,      \* getUpstashRedisAiReviewLockTtlSeconds
    MaxReviews,     \* clampAiReviewLimit
    QueueLimit,     \* getIngestionBackpressureQueueLimit
    DbArticleLimit, \* getIngestionBackpressureDbArticleLimit
    SlowAfter,      \* a refresh is in time up to this long after its lookup
    MaxFaults       \* bound on failed calls, lost answers and crashes

Runs == Refreshers \cup Translators

\* Two refreshes that are in time do not outlast a claim.
ASSUME RunsAssumption ==
    /\ Refreshers \cap Translators = {}
    /\ Gone \notin Runs
    /\ ShardOf \in [Runs -> Shards]
    /\ Feed \in [Shards -> SUBSET Articles]
    /\ IsFiniteSet(Articles)
    /\ LockTtl \in Nat \ {0}
    /\ ReviewTtl \in Nat \ {0}
    /\ MaxReviews \in Nat \ {0}
    /\ QueueLimit \in Nat \ {0}
    /\ DbArticleLimit \in Nat \ {0}
    /\ SlowAfter \in Nat
    /\ 2 * SlowAfter < ReviewTtl
    /\ MaxFaults \in Nat

VARIABLES
    holder, lockTtl,    \* each shard's lock: whose value it has, time to live
    claimTtl,           \* each article's claim: time to live, 0 when there is none
    processed,          \* articles with a saved review
    pc,                 \* where each run stands
    pending,            \* articles a refresh has found unreviewed and not tried yet
    claimed,            \* articles a refresh has claimed
    lease,              \* what each run knows to be left of its lock (history)
    age,                \* time since a refresh's lookup (history)
    blind,              \* a refresh's lookup missed saved reviews (history)
    late,               \* articles whose first review was saved out of time (history)
    faults

redis == <<holder, lockTtl, claimTtl>>
work == <<pending, claimed, age, blind>>
vars == <<redis, processed, pc, work, lease, late, faults>>

Init ==
    /\ holder = [s \in Shards |-> Gone]
    /\ lockTtl = [s \in Shards |-> 0]
    /\ claimTtl = [u \in Articles |-> 0]
    /\ processed = {}
    /\ pc = [r \in Runs |-> "idle"]
    /\ pending = [r \in Runs |-> {}]
    /\ claimed = [r \in Runs |-> {}]
    /\ lease = [r \in Runs |-> 0]
    /\ age = [r \in Runs |-> 0]
    /\ blind = [r \in Runs |-> FALSE]
    /\ late = {}
    /\ faults = 0

-----------------------------------------------------------------------------
(* Redis calls. *)

\* How a call ends: answered; applied, but the answer is lost; not applied.
Outcomes == {"answered", "lost", "failed"}

Fault(happens) ==
    IF happens THEN faults < MaxFaults /\ faults' = faults + 1 ELSE faults' = faults

Call(outcome) == Fault(outcome # "answered")

Locked(s) == lockTtl[s] > 0

\* Release and extension do not compare the value.
HoldsAnyBug(r) == Locked(ShardOf[r])

\* The comparison the release and extension scripts make inside Redis.
HoldsLock(r) == Locked(ShardOf[r]) /\ holder[ShardOf[r]] = r

\* The claim is set without NX.
ClaimAnyBug(u) == TRUE

Unclaimed(u) == claimTtl[u] = 0

InTime(r) == age[r] <= SlowAfter

-----------------------------------------------------------------------------
(* A run. *)

\* The lock's value is the request's id.  Without an answer the run is skipped: a
\* key that was set then belongs to no run.  A run refused because the key is
\* there changes nothing.
AcquireRedisLock(r, outcome) ==
    LET s == ShardOf[r] IN
    /\ pc[r] = "idle"
    /\ ~Locked(s)
    /\ Call(outcome)
    /\ IF outcome = "failed" THEN UNCHANGED <<holder, lockTtl>>
       ELSE /\ lockTtl' = [lockTtl EXCEPT ![s] = LockTtl]
            /\ holder' = [holder EXCEPT ![s] = IF outcome = "answered" THEN r ELSE Gone]
    /\ IF outcome = "answered"
       THEN /\ pc' = [pc EXCEPT ![r] = IF r \in Refreshers THEN "lookup" ELSE "extend"]
            /\ lease' = [lease EXCEPT ![r] = LockTtl]
       ELSE UNCHANGED <<pc, lease>>
    /\ UNCHANGED <<claimTtl, processed, work, late>>

\* A queue at the limit is deferred too.
DeferredAtLimitBug(queued, articleCount) ==
    Cardinality(queued) >= QueueLimit \/ articleCount >= DbArticleLimit

\* Backpressure: too many articles wait, or the table is full.
Deferred(queued, articleCount) ==
    Cardinality(queued) > QueueLimit \/ articleCount >= DbArticleLimit

\* What the lookup leaves of a shard's feeds.
Queued(s, known) == Feed[s] \ known

\* A failed lookup counts as having found less; a failed count is not compared.
\* A deferred refresh does nothing more.
LookUp(r, known, articleCount) ==
    LET queued == Queued(ShardOf[r], known)
        missed == known # processed \cap Feed[ShardOf[r]]
        deferred == Deferred(queued, articleCount) IN
    /\ pc[r] = "lookup"
    /\ Fault(missed \/ articleCount # Cardinality(processed))
    /\ pc' = [pc EXCEPT ![r] = IF deferred THEN "release" ELSE "extend"]
    /\ pending' = [pending EXCEPT ![r] = IF deferred THEN {} ELSE queued]
    /\ age' = [age EXCEPT ![r] = 0]
    /\ blind' = [blind EXCEPT ![r] = missed]
    /\ UNCHANGED <<redis, processed, claimed, lease, late>>

\* The run goes on whether or not the lock was still its own.
ExtendRedisWorkerRunLock(r, outcome) ==
    LET s == ShardOf[r] IN
    /\ pc[r] = "extend"
    /\ Call(outcome)
    /\ IF HoldsLock(r) /\ outcome # "failed"
       THEN lockTtl' = [lockTtl EXCEPT ![s] = LockTtl]
       ELSE UNCHANGED lockTtl
    /\ IF HoldsLock(r) /\ outcome = "answered"
       THEN lease' = [lease EXCEPT ![r] = LockTtl]
       ELSE UNCHANGED lease
    /\ pc' = [pc EXCEPT ![r] = IF r \in Refreshers THEN "claim" ELSE "translate"]
    /\ UNCHANGED <<holder, claimTtl, processed, work, late>>

ClaimsLeft(r) == Cardinality(claimed[r]) < MaxReviews

\* An article whose claim is refused, or not answered, is skipped.
ClaimArticle(r, u, outcome) ==
    /\ pc[r] = "claim"
    /\ u \in pending[r]
    /\ ClaimsLeft(r)
    /\ Call(outcome)
    /\ pending' = [pending EXCEPT ![r] = @ \ {u}]
    /\ IF Unclaimed(u) /\ outcome # "failed"
       THEN claimTtl' = [claimTtl EXCEPT ![u] = ReviewTtl]
       ELSE UNCHANGED claimTtl
    /\ IF Unclaimed(u) /\ outcome = "answered"
       THEN claimed' = [claimed EXCEPT ![r] = @ \cup {u}]
       ELSE UNCHANGED claimed
    /\ UNCHANGED <<holder, lockTtl, processed, pc, age, blind, lease, late>>

StartReviews(r) ==
    /\ pc[r] = "claim"
    /\ pending[r] = {} \/ ~ClaimsLeft(r)
    /\ pc' = [pc EXCEPT ![r] = "review"]
    /\ pending' = [pending EXCEPT ![r] = {}]
    /\ UNCHANGED <<redis, processed, claimed, age, blind, lease, late, faults>>

Finish(r) ==
    /\ pc' = [pc EXCEPT ![r] = "release"]
    /\ pending' = [pending EXCEPT ![r] = {}]
    /\ claimed' = [claimed EXCEPT ![r] = {}]
    /\ UNCHANGED <<redis, age, blind, lease>>

\* The reviews are saved in one batch after everything else; a failed save, or
\* one the subrequest budget does not allow, is only reported.
SaveReviews(r, saved) ==
    /\ pc[r] = "review"
    /\ Fault(~saved)
    /\ processed' = IF saved THEN processed \cup claimed[r] ELSE processed
    /\ late' = IF saved /\ ~InTime(r) THEN late \cup (claimed[r] \ processed) ELSE late
    /\ Finish(r)

TranslateSummaryBacklog(r) ==
    /\ pc[r] = "translate"
    /\ Finish(r)
    /\ UNCHANGED <<processed, late, faults>>

\* An exception ends the run through the finally block.
Fail(r) ==
    /\ pc[r] \notin {"idle", "release"}
    /\ Fault(TRUE)
    /\ Finish(r)
    /\ UNCHANGED <<processed, late>>

\* What is left of an ended run is nobody's.
End(r) ==
    /\ pc' = [pc EXCEPT ![r] = "idle"]
    /\ pending' = [pending EXCEPT ![r] = {}]
    /\ claimed' = [claimed EXCEPT ![r] = {}]
    /\ lease' = [lease EXCEPT ![r] = 0]
    /\ age' = [age EXCEPT ![r] = 0]
    /\ blind' = [blind EXCEPT ![r] = FALSE]
    /\ holder' = [holder EXCEPT ![ShardOf[r]] = IF @ = r THEN Gone ELSE @]
    /\ UNCHANGED <<claimTtl, processed, late>>

\* Compare and delete; a lost answer makes no difference.
ReleaseRedisLock(r, outcome) ==
    /\ pc[r] = "release"
    /\ Call(outcome)
    /\ IF HoldsLock(r) /\ outcome # "failed"
       THEN lockTtl' = [lockTtl EXCEPT ![ShardOf[r]] = 0]
       ELSE UNCHANGED lockTtl
    /\ End(r)

\* The platform ends the invocation: the finally block does not run.
Crash(r) ==
    /\ pc[r] # "idle"
    /\ Fault(TRUE)
    /\ End(r)
    /\ UNCHANGED lockTtl

-----------------------------------------------------------------------------

CountDown(ttl) == IF ttl > 0 THEN ttl - 1 ELSE ttl

\* Ages above SlowAfter are all alike.
Tick ==
    /\ lockTtl' = [s \in Shards |-> CountDown(lockTtl[s])]
    /\ holder' = [s \in Shards |-> IF lockTtl[s] = 1 THEN Gone ELSE holder[s]]
    /\ claimTtl' = [u \in Articles |-> CountDown(claimTtl[u])]
    /\ lease' = [r \in Runs |-> CountDown(lease[r])]
    /\ age' = [r \in Runs |-> IF pc[r] \in {"extend", "claim", "review"} /\ InTime(r)
                              THEN age[r] + 1 ELSE age[r]]
    /\ UNCHANGED <<processed, pc, pending, claimed, blind, late, faults>>

RunStep(r) ==
    \/ \E known \in SUBSET (processed \cap Feed[ShardOf[r]]),
          articleCount \in {0, Cardinality(processed)} : LookUp(r, known, articleCount)
    \/ \E outcome \in Outcomes : ExtendRedisWorkerRunLock(r, outcome)
    \/ \E u \in Articles, outcome \in Outcomes : ClaimArticle(r, u, outcome)
    \/ StartReviews(r)
    \/ \E saved \in BOOLEAN : SaveReviews(r, saved)
    \/ \E outcome \in Outcomes : ReleaseRedisLock(r, outcome)

StartRun(r) == \E outcome \in Outcomes : AcquireRedisLock(r, outcome)

Next ==
    \/ \E r \in Runs : StartRun(r) \/ RunStep(r) \/ Fail(r) \/ Crash(r)
    \/ \E r \in Translators : TranslateSummaryBacklog(r)
    \/ Tick

Spec == Init /\ [][Next]_vars

\* Time passes, every awaited call ends, and the controller's cron trigger keeps
\* asking every shard for a refresh.
FairSpec ==
    /\ Spec
    /\ WF_vars(Tick)
    /\ \A r \in Runs : WF_vars(RunStep(r))
    /\ \A r \in Translators : WF_vars(TranslateSummaryBacklog(r))
    /\ \A r \in Refreshers : WF_vars(StartRun(r))

-----------------------------------------------------------------------------
(* Properties. *)

PCs == {"idle", "lookup", "extend", "claim", "review", "translate", "release"}

TypeOK ==
    /\ holder \in [Shards -> Runs \cup {Gone}]
    /\ lockTtl \in [Shards -> 0..LockTtl]
    /\ claimTtl \in [Articles -> 0..ReviewTtl]
    /\ processed \in SUBSET Articles
    /\ pc \in [Runs -> PCs]
    /\ pending \in [Runs -> SUBSET Articles]
    /\ claimed \in [Runs -> SUBSET Articles]
    /\ \A r \in Runs : Cardinality(claimed[r]) <= MaxReviews
    /\ lease \in [Runs -> 0..LockTtl]
    /\ age \in [Runs -> 0..SlowAfter + 1]
    /\ blind \in [Runs -> BOOLEAN]
    /\ late \in SUBSET processed
    /\ faults \in 0..MaxFaults

\* Two runs of one shard are only ever under way together when one of them has
\* outlived the lock it knows of: a release, an extension or a lost answer never
\* hands the lock to a second run while the first may rely on it.
OverlapMeansExpired ==
    \A r, q \in Runs :
        r # q /\ ShardOf[r] = ShardOf[q] => lease[r] = 0 \/ lease[q] = 0

\* While refreshes are in time, no article is reviewed twice, in whatever shards
\* its feeds are: not by two refreshes at once, and not again by a refresh whose
\* lookup was answered after an in-time review of it was saved.
NoRepeatedReview ==
    \A r \in Runs : InTime(r) =>
        /\ ~blind[r] => claimed[r] \cap (processed \ late) = {}
        /\ \A q \in Runs \ {r} : InTime(q) => claimed[r] \cap claimed[q] = {}

\* Every article is reviewed in the end, though runs crash, answers are lost
\* and saves fail: no claim, lock or deferral keeps it out for ever.
EventuallyReviewed ==
    \A u \in UNION {Feed[ShardOf[r]] : r \in Refreshers} : <>(u \in processed)
=============================================================================
