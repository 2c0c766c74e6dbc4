--------------------------- MODULE RefreshRunsProofs ---------------------------
(***************************************************************************)
(* The safety of the shard lock and of the review claims, for any runs,    *)
(* shards, feeds, times to live and number of faults; and of what a        *)
(* refresh reviews and refuses, for any feeds, pages and limits: whatever  *)
(* image an item or a page shows is found, and the turns an article loses  *)
(* are lost to reviews of others, each made once.                          *)
(***************************************************************************)
EXTENDS RefreshRuns, CandidateSelection, FiniteSetTheorems, SequenceTheorems, TLAPS

\* What a run knows to be left of its lock is at most what there is.
LeaseInv ==
    \A r \in Runs : lease[r] > 0 =>
        /\ holder[ShardOf[r]] = r
        /\ lockTtl[ShardOf[r]] >= lease[r]

\* Only a refresh whose age is counted has anything pending or claimed.
AgingInv ==
    \A r \in Runs :
        /\ pending[r] # {} \/ claimed[r] # {} =>
               r \in Refreshers /\ pc[r] \in {"extend", "claim", "review"}
        /\ pc[r] = "lookup" => r \in Refreshers

\* A claim outlives the refresh that took it, as long as that is in time.
ClaimsHeld ==
    \A r \in Runs : \A u \in claimed[r] :
        InTime(r) => claimTtl[u] >= ReviewTtl - age[r]

\* What an in-time refresh reviewed behind another's back is still claimed when
\* the other comes to try it.
StaleClaimed ==
    \A r \in Runs : \A u \in pending[r] :
        InTime(r) /\ ~blind[r] /\ u \in processed \ late
            => claimTtl[u] >= ReviewTtl - SlowAfter - age[r]

ClaimInv == AgingInv /\ ClaimsHeld /\ StaleClaimed /\ NoRepeatedReview

LEMMA FaultBounded ==
    ASSUME NEW happens \in BOOLEAN, faults \in 0..MaxFaults, MaxFaults \in Nat, Fault(happens)
    PROVE  faults' \in 0..MaxFaults
BY DEF Fault

-----------------------------------------------------------------------------
(* Type correctness. *)

LEMMA TypeInit == ASSUME Init PROVE TypeOK
<1>1. \A r \in Runs : Cardinality(claimed[r]) <= MaxReviews
  BY RunsAssumption, FS_EmptySet DEF Init
<1> QED BY <1>1, RunsAssumption DEF Init, TypeOK, PCs

LEMMA EndTypes ==
    ASSUME TypeOK, NEW r \in Runs, End(r), lockTtl' \in [Shards -> 0..LockTtl],
           faults' \in 0..MaxFaults
    PROVE  TypeOK'
<1>1. \A q \in Runs : Cardinality(claimed'[q]) <= MaxReviews
  BY RunsAssumption, FS_EmptySet DEF End, TypeOK
<1>2. holder' \in [Shards -> Runs \cup {Gone}]
  BY RunsAssumption DEF End, TypeOK
<1>3. /\ pc' \in [Runs -> PCs]
      /\ lease' \in [Runs -> 0..LockTtl]
      /\ age' \in [Runs -> 0..SlowAfter + 1]
  BY RunsAssumption DEF End, TypeOK, PCs
<1> QED BY <1>1, <1>2, <1>3 DEF End, TypeOK

LEMMA FinishTypes ==
    ASSUME TypeOK, NEW r \in Runs, Finish(r), processed' \in SUBSET Articles,
           late' \in SUBSET processed', faults' \in 0..MaxFaults
    PROVE  TypeOK'
<1>1. \A q \in Runs : Cardinality(claimed'[q]) <= MaxReviews
  BY RunsAssumption, FS_EmptySet DEF Finish, TypeOK
<1> QED BY <1>1, RunsAssumption DEF Finish, TypeOK, PCs, redis

LEMMA TypeStep == ASSUME TypeOK, [Next]_vars PROVE TypeOK'
<1> USE RunsAssumption
<1>1. ASSUME NEW r \in Runs, NEW outcome \in Outcomes, AcquireRedisLock(r, outcome)
      PROVE  TypeOK'
  <2>1. faults' \in 0..MaxFaults
    BY <1>1, FaultBounded DEF AcquireRedisLock, Call, TypeOK
  <2>2. /\ holder' \in [Shards -> Runs \cup {Gone}]
        /\ lockTtl' \in [Shards -> 0..LockTtl]
        /\ pc' \in [Runs -> PCs]
        /\ lease' \in [Runs -> 0..LockTtl]
    BY SMTT(30), <1>1 DEF AcquireRedisLock, TypeOK, PCs
  <2> QED BY <1>1, <2>1, <2>2 DEF AcquireRedisLock, TypeOK, work
<1>2. ASSUME NEW r \in Runs, NEW known \in SUBSET (processed \cap Feed[ShardOf[r]]),
             NEW articleCount, LookUp(r, known, articleCount)
      PROVE  TypeOK'
  <2>1. faults' \in 0..MaxFaults
    BY <1>2, FaultBounded DEF LookUp, TypeOK
  <2> QED BY <1>2, <2>1 DEF LookUp, Queued, TypeOK, PCs, redis
<1>3. ASSUME NEW r \in Runs, NEW outcome \in Outcomes, ExtendRedisWorkerRunLock(r, outcome)
      PROVE  TypeOK'
  <2>1. faults' \in 0..MaxFaults
    BY <1>3, FaultBounded DEF ExtendRedisWorkerRunLock, Call, TypeOK
  <2> QED BY <1>3, <2>1 DEF ExtendRedisWorkerRunLock, TypeOK, PCs, work
<1>4. ASSUME NEW r \in Runs, NEW u \in Articles, NEW outcome \in Outcomes,
             ClaimArticle(r, u, outcome)
      PROVE  TypeOK'
  <2>1. faults' \in 0..MaxFaults
    BY <1>4, FaultBounded DEF ClaimArticle, Call, TypeOK
  <2>2. claimed' \in [Runs -> SUBSET Articles] /\ claimTtl' \in [Articles -> 0..ReviewTtl]
    <3>1. /\ claimed \in [Runs -> SUBSET Articles]
          /\ claimTtl \in [Articles -> 0..ReviewTtl]
          /\ ReviewTtl \in 0..ReviewTtl
      BY RunsAssumption DEF TypeOK
    <3>2. /\ claimed' = [claimed EXCEPT ![r] = @ \cup {u}] \/ claimed' = claimed
          /\ claimTtl' = [claimTtl EXCEPT ![u] = ReviewTtl] \/ claimTtl' = claimTtl
      BY <1>4 DEF ClaimArticle
    <3> QED BY <3>1, <3>2
  <2>3. ASSUME NEW q \in Runs PROVE Cardinality(claimed'[q]) <= MaxReviews
    <3>1. CASE claimed'[q] = claimed[q]
      BY <3>1 DEF TypeOK
    <3>2. CASE claimed'[q] # claimed[q]
      <4>1. claimed'[q] = claimed[q] \cup {u} /\ Cardinality(claimed[q]) < MaxReviews
        BY <1>4, <3>2 DEF ClaimArticle, ClaimsLeft, TypeOK
      <4>2. IsFiniteSet(claimed[q])
        BY FS_Subset DEF TypeOK
      <4>3. Cardinality(claimed[q]) \in Nat
        BY <4>2, FS_CardinalityType
      <4>4. \/ Cardinality(claimed[q] \cup {u}) = Cardinality(claimed[q])
            \/ Cardinality(claimed[q] \cup {u}) = Cardinality(claimed[q]) + 1
        BY <4>2, FS_AddElement
      <4> QED BY <4>1, <4>3, <4>4
    <3> QED BY <3>1, <3>2
  <2> QED BY <1>4, <2>1, <2>2, <2>3 DEF ClaimArticle, TypeOK
<1>5. ASSUME NEW r \in Runs, StartReviews(r) PROVE TypeOK'
  BY <1>5 DEF StartReviews, TypeOK, PCs, redis
<1>6. ASSUME NEW r \in Runs, NEW saved \in BOOLEAN, SaveReviews(r, saved) PROVE TypeOK'
  <2>1. faults' \in 0..MaxFaults
    BY <1>6, FaultBounded DEF SaveReviews, TypeOK
  <2>2. processed' \in SUBSET Articles /\ late' \in SUBSET processed'
    BY <1>6 DEF SaveReviews, TypeOK
  <2> QED BY <1>6, <2>1, <2>2, FinishTypes DEF SaveReviews
<1>7. ASSUME NEW r \in Runs, TranslateSummaryBacklog(r) PROVE TypeOK'
  BY <1>7, FinishTypes DEF TranslateSummaryBacklog, TypeOK
<1>8. ASSUME NEW r \in Runs, NEW outcome \in Outcomes, ReleaseRedisLock(r, outcome)
      PROVE  TypeOK'
  <2>1. faults' \in 0..MaxFaults
    BY <1>8, FaultBounded DEF ReleaseRedisLock, Call, TypeOK
  <2>2. lockTtl' \in [Shards -> 0..LockTtl]
    BY <1>8 DEF ReleaseRedisLock, TypeOK
  <2> QED BY <1>8, <2>1, <2>2, EndTypes DEF ReleaseRedisLock
<1>9. ASSUME NEW r \in Runs, Fail(r) PROVE TypeOK'
  <2>1. faults' \in 0..MaxFaults
    BY <1>9, FaultBounded DEF Fail, TypeOK
  <2> QED BY <1>9, <2>1, FinishTypes DEF Fail, TypeOK
<1>10. ASSUME NEW r \in Runs, Crash(r) PROVE TypeOK'
  <2>1. faults' \in 0..MaxFaults
    BY <1>10, FaultBounded DEF Crash, TypeOK
  <2> QED BY <1>10, <2>1, EndTypes DEF Crash, TypeOK
<1>11. CASE Tick
  <2>1. lockTtl' \in [Shards -> 0..LockTtl] /\ claimTtl' \in [Articles -> 0..ReviewTtl]
    BY <1>11 DEF Tick, TypeOK, CountDown
  <2>2. lease' \in [Runs -> 0..LockTtl] /\ age' \in [Runs -> 0..SlowAfter + 1]
    BY <1>11 DEF Tick, TypeOK, CountDown, InTime
  <2>3. holder' \in [Shards -> Runs \cup {Gone}]
    BY <1>11 DEF Tick, TypeOK
  <2> QED BY <1>11, <2>1, <2>2, <2>3 DEF Tick, TypeOK
<1>12. CASE UNCHANGED vars
  BY <1>12 DEF vars, redis, work, TypeOK
<1> QED
  BY <1>1, <1>2, <1>3, <1>4, <1>5, <1>6, <1>7, <1>8, <1>9, <1>10, <1>11, <1>12
     DEF Next, StartRun, RunStep, Runs

\* Every state is well formed: no claim beyond a refresh's limit, no key beyond
\* its time to live.
THEOREM RunTypes == Spec => []TypeOK
<1>1. Init => TypeOK
  BY TypeInit
<1>2. TypeOK /\ [Next]_vars => TypeOK'
  BY TypeStep
<1> QED BY <1>1, <1>2, PTL DEF Spec

-----------------------------------------------------------------------------
(* The shard lock. *)

LEMMA QuietLease ==
    ASSUME LeaseInv, UNCHANGED <<holder, lockTtl, lease>>
    PROVE  LeaseInv'
BY DEF LeaseInv

LEMMA LeaseStep == ASSUME TypeOK, LeaseInv, [Next]_vars PROVE LeaseInv'
<1> USE RunsAssumption
<1>1. ASSUME NEW r \in Runs, NEW outcome \in Outcomes, AcquireRedisLock(r, outcome)
      PROVE  LeaseInv'
  <2>1. CASE outcome = "failed"
    BY <1>1, <2>1, QuietLease DEF AcquireRedisLock
  <2>2. CASE outcome # "failed"
    <3> SUFFICES ASSUME NEW q \in Runs, lease'[q] > 0
                 PROVE  holder'[ShardOf[q]] = q /\ lockTtl'[ShardOf[q]] >= lease'[q]
      BY DEF LeaseInv
    <3>1. \A p \in Runs : ShardOf[p] = ShardOf[r] => lease[p] = 0
      BY <1>1 DEF AcquireRedisLock, Locked, LeaseInv, TypeOK
    <3>2. CASE ShardOf[q] = ShardOf[r]
      <4>1. q = r /\ outcome = "answered" /\ lease'[q] = LockTtl
        BY <1>1, <3>1, <3>2 DEF AcquireRedisLock, TypeOK
      <4> QED BY <1>1, <4>1 DEF AcquireRedisLock, TypeOK
    <3>3. CASE ShardOf[q] # ShardOf[r]
      <4>1. lease'[q] = lease[q]
        BY <1>1, <3>3 DEF AcquireRedisLock, TypeOK
      <4> QED BY <1>1, <2>2, <3>3, <4>1 DEF AcquireRedisLock, LeaseInv, TypeOK
    <3> QED BY <3>2, <3>3
  <2> QED BY <2>1, <2>2
<1>2. ASSUME NEW r \in Runs, NEW known, NEW articleCount, LookUp(r, known, articleCount)
      PROVE  LeaseInv'
  BY <1>2, QuietLease DEF LookUp, redis
<1>3. ASSUME NEW r \in Runs, NEW outcome \in Outcomes, ExtendRedisWorkerRunLock(r, outcome)
      PROVE  LeaseInv'
  <2>1. CASE ~(HoldsLock(r) /\ outcome # "failed")
    BY <1>3, <2>1, QuietLease DEF ExtendRedisWorkerRunLock
  <2>2. CASE HoldsLock(r) /\ outcome # "failed"
    <3> SUFFICES ASSUME NEW q \in Runs, lease'[q] > 0
                 PROVE  holder'[ShardOf[q]] = q /\ lockTtl'[ShardOf[q]] >= lease'[q]
      BY DEF LeaseInv
    <3>1. lease'[q] \in 0..LockTtl
      BY <1>3 DEF ExtendRedisWorkerRunLock, TypeOK
    <3>2. CASE ShardOf[q] = ShardOf[r]
      <4>1. q = r
        BY <1>3, <2>2, <3>2 DEF ExtendRedisWorkerRunLock, HoldsLock, LeaseInv, TypeOK
      <4> QED BY <1>3, <2>2, <3>1, <4>1 DEF ExtendRedisWorkerRunLock, HoldsLock, TypeOK
    <3>3. CASE ShardOf[q] # ShardOf[r]
      <4>1. lease'[q] = lease[q]
        BY <1>3, <3>3 DEF ExtendRedisWorkerRunLock, TypeOK
      <4> QED BY <1>3, <2>2, <3>3, <4>1 DEF ExtendRedisWorkerRunLock, LeaseInv, TypeOK
    <3> QED BY <3>2, <3>3
  <2> QED BY <2>1, <2>2
<1>4. ASSUME NEW r \in Runs, NEW u \in Articles, NEW outcome \in Outcomes,
             ClaimArticle(r, u, outcome)
      PROVE  LeaseInv'
  BY <1>4, QuietLease DEF ClaimArticle
<1>5. ASSUME NEW r \in Runs, StartReviews(r) PROVE LeaseInv'
  BY <1>5, QuietLease DEF StartReviews, redis
<1>6. ASSUME NEW r \in Runs, NEW saved \in BOOLEAN, SaveReviews(r, saved) PROVE LeaseInv'
  BY <1>6, QuietLease DEF SaveReviews, Finish, redis
<1>7. ASSUME NEW r \in Runs, TranslateSummaryBacklog(r) PROVE LeaseInv'
  BY <1>7, QuietLease DEF TranslateSummaryBacklog, Finish, redis
<1>8. ASSUME NEW r \in Runs, Fail(r) PROVE LeaseInv'
  BY <1>8, QuietLease DEF Fail, Finish, redis
<1>9. ASSUME NEW r \in Runs, End(r),
             \/ UNCHANGED lockTtl
             \/ HoldsLock(r) /\ lockTtl' = [lockTtl EXCEPT ![ShardOf[r]] = 0]
      PROVE  LeaseInv'
  <2> SUFFICES ASSUME NEW q \in Runs, lease'[q] > 0
               PROVE  holder'[ShardOf[q]] = q /\ lockTtl'[ShardOf[q]] >= lease'[q]
    BY DEF LeaseInv
  <2>1. q # r /\ lease'[q] = lease[q]
    BY <1>9 DEF End, TypeOK
  <2>2. holder[ShardOf[q]] = q /\ lockTtl[ShardOf[q]] >= lease[q]
    BY <2>1 DEF LeaseInv
  <2>3. holder'[ShardOf[q]] = q
    BY <1>9, <2>1, <2>2 DEF End, TypeOK
  <2>4. lockTtl'[ShardOf[q]] = lockTtl[ShardOf[q]]
    BY <1>9, <2>1, <2>2 DEF HoldsLock, TypeOK
  <2> QED BY <2>1, <2>2, <2>3, <2>4
<1>10. ASSUME NEW r \in Runs, NEW outcome \in Outcomes, ReleaseRedisLock(r, outcome)
       PROVE  LeaseInv'
  BY <1>9, <1>10 DEF ReleaseRedisLock
<1>11. ASSUME NEW r \in Runs, Crash(r) PROVE LeaseInv'
  BY <1>9, <1>11 DEF Crash
<1>12. CASE Tick
  <2> SUFFICES ASSUME NEW q \in Runs, lease'[q] > 0
               PROVE  holder'[ShardOf[q]] = q /\ lockTtl'[ShardOf[q]] >= lease'[q]
    BY DEF LeaseInv
  <2>1. lease'[q] = lease[q] - 1 /\ lease[q] > 1
    BY <1>12 DEF Tick, CountDown, TypeOK
  <2>2. holder[ShardOf[q]] = q /\ lockTtl[ShardOf[q]] >= lease[q]
    BY <2>1 DEF LeaseInv, TypeOK
  <2>3. lockTtl'[ShardOf[q]] = lockTtl[ShardOf[q]] - 1
    BY <1>12, <2>1, <2>2 DEF Tick, CountDown, TypeOK
  <2>4. holder'[ShardOf[q]] = q
    BY <1>12, <2>1, <2>2 DEF Tick, TypeOK
  <2> QED BY <2>1, <2>2, <2>3, <2>4 DEF TypeOK
<1>13. CASE UNCHANGED vars
  BY <1>13, QuietLease DEF vars, redis
<1> QED
  BY <1>1, <1>2, <1>3, <1>4, <1>5, <1>6, <1>7, <1>8, <1>10, <1>11, <1>12, <1>13
     DEF Next, StartRun, RunStep, Runs

\* No two runs of a shard may rely on its lock at once, however releases,
\* extensions, expiries and lost answers fall.
THEOREM LockExclusive == Spec => []OverlapMeansExpired
<1>1. Init => TypeOK /\ LeaseInv
  BY TypeInit DEF Init, LeaseInv
<1>2. TypeOK /\ LeaseInv /\ [Next]_vars => TypeOK' /\ LeaseInv'
  BY TypeStep, LeaseStep
<1>3. TypeOK /\ LeaseInv => OverlapMeansExpired
  BY RunsAssumption DEF TypeOK, LeaseInv, OverlapMeansExpired
<1> QED BY <1>1, <1>2, <1>3, PTL DEF Spec

-----------------------------------------------------------------------------
(* The claims. *)

\* A claim is at least as long as any in-time refresh of another run still needs.
LEMMA InTimeBounds ==
    ASSUME TypeOK, NEW r \in Runs, NEW q \in Runs, InTime(r)
    PROVE  /\ ReviewTtl - age[r] >= ReviewTtl - SlowAfter - age[q]
           /\ ReviewTtl - age[r] > 0
           /\ ReviewTtl - SlowAfter - age[r] > 0
BY RunsAssumption DEF InTime, TypeOK

LEMMA QuietClaims ==
    ASSUME ClaimInv, UNCHANGED <<claimTtl, processed, pc, work, late>>
    PROVE  ClaimInv'
BY DEF ClaimInv, AgingInv, ClaimsHeld, StaleClaimed, NoRepeatedReview, InTime, work

\* A run that ends, or comes to its end, gives up what it had.
LEMMA DropClaims ==
    ASSUME TypeOK, ClaimInv, NEW r \in Runs, UNCHANGED <<claimTtl, processed, late>>,
           pending' = [pending EXCEPT ![r] = {}],
           claimed' = [claimed EXCEPT ![r] = {}],
           pc'[r] # "lookup",
           \A q \in Runs \ {r} : pc'[q] = pc[q] /\ age'[q] = age[q] /\ blind'[q] = blind[q]
    PROVE  ClaimInv'
<1>1. \A q \in Runs \ {r} : /\ pending'[q] = pending[q] /\ claimed'[q] = claimed[q]
                            /\ InTime(q)' <=> InTime(q)
  BY DEF TypeOK, InTime
<1>2. pending'[r] = {} /\ claimed'[r] = {}
  BY DEF TypeOK
<1>3. AgingInv'
  BY <1>1, <1>2 DEF ClaimInv, AgingInv
<1>4. ClaimsHeld'
  BY <1>1, <1>2 DEF ClaimInv, ClaimsHeld
<1>5. StaleClaimed'
  BY <1>1, <1>2 DEF ClaimInv, StaleClaimed
<1>6. NoRepeatedReview'
  BY <1>1, <1>2 DEF ClaimInv, NoRepeatedReview
<1> QED BY <1>3, <1>4, <1>5, <1>6 DEF ClaimInv

\* Looking up starts the clock of the refresh over.
LEMMA LookUpClaims ==
    ASSUME TypeOK, ClaimInv, NEW r \in Runs, NEW known \in SUBSET processed,
           NEW articleCount, LookUp(r, known, articleCount)
    PROVE  ClaimInv'
<1>1. \A q \in Runs \ {r} : /\ pending'[q] = pending[q] /\ pc'[q] = pc[q]
                            /\ blind'[q] = blind[q] /\ age'[q] = age[q]
                            /\ InTime(q)' <=> InTime(q)
  BY DEF LookUp, TypeOK, InTime
<1>2. claimed[r] = {} /\ r \in Refreshers
  BY DEF LookUp, ClaimInv, AgingInv, TypeOK
<1>3. ~blind'[r] => pending'[r] \cap processed = {}
  BY RunsAssumption DEF LookUp, Queued, TypeOK
<1>4. UNCHANGED <<claimTtl, claimed, processed, late>>
  BY DEF LookUp, redis
<1>5. AgingInv'
  BY <1>1, <1>2, <1>4 DEF LookUp, ClaimInv, AgingInv, TypeOK
<1>6. ClaimsHeld'
  BY <1>1, <1>2, <1>4 DEF ClaimInv, ClaimsHeld
<1>7. StaleClaimed'
  BY <1>1, <1>3, <1>4 DEF ClaimInv, StaleClaimed
<1>8. NoRepeatedReview'
  BY <1>1, <1>2, <1>4 DEF ClaimInv, NoRepeatedReview
<1> QED BY <1>5, <1>6, <1>7, <1>8 DEF ClaimInv

\* What r can claim, no in-time refresh has claimed, or has saved since r's lookup.
LEMMA ClaimClaims ==
    ASSUME TypeOK, ClaimInv, NEW r \in Runs, NEW u \in Articles, NEW outcome \in Outcomes,
           ClaimArticle(r, u, outcome)
    PROVE  ClaimInv'
<1>1. /\ UNCHANGED <<processed, late, age, blind, pc>>
      /\ \A q \in Runs : InTime(q)' <=> InTime(q)
      /\ \A q \in Runs : pending'[q] \subseteq pending[q]
  BY DEF ClaimArticle, TypeOK, InTime
<1>2. \A v \in Articles : claimTtl'[v] = claimTtl[v] \/ (v = u /\ claimTtl'[v] = ReviewTtl)
  BY DEF ClaimArticle, TypeOK
<1>3. \A v \in Articles : /\ claimTtl[v] \in Int /\ claimTtl'[v] \in Int
                         /\ claimTtl'[v] >= claimTtl[v]
  BY <1>2, RunsAssumption DEF TypeOK
<1>4. \A q \in Runs \ {r} : claimed'[q] = claimed[q]
  BY DEF ClaimArticle, TypeOK
<1>5. \/ claimed'[r] = claimed[r]
      \/ claimed'[r] = claimed[r] \cup {u} /\ claimTtl[u] = 0 /\ claimTtl'[u] = ReviewTtl
  BY DEF ClaimArticle, Unclaimed, TypeOK
<1>6. AgingInv'
  BY <1>1, <1>4 DEF ClaimInv, AgingInv, ClaimArticle
<1>7. ClaimsHeld'
  <2> SUFFICES ASSUME NEW q \in Runs, NEW v \in claimed'[q], InTime(q)
               PROVE  claimTtl'[v] >= ReviewTtl - age[q]
    BY <1>1 DEF ClaimsHeld
  <2>1. CASE v \in claimed[q]
    <3>1. v \in Articles /\ age[q] \in Int
      BY <2>1 DEF TypeOK
    <3>2. claimTtl[v] >= ReviewTtl - age[q]
      BY <2>1 DEF ClaimInv, ClaimsHeld
    <3> QED BY <1>3, <3>1, <3>2, RunsAssumption
  <2>2. CASE v \notin claimed[q]
    <3>1. claimTtl'[v] = ReviewTtl
      BY <1>4, <1>5, <2>2
    <3> QED BY <3>1, RunsAssumption DEF TypeOK
  <2> QED BY <2>1, <2>2
<1>8. StaleClaimed'
  <2> SUFFICES ASSUME NEW q \in Runs, NEW v \in pending[q], InTime(q), ~blind[q],
                      v \in processed \ late
               PROVE  claimTtl'[v] >= ReviewTtl - SlowAfter - age[q]
    BY <1>1 DEF StaleClaimed
  <2>1. claimTtl[v] >= ReviewTtl - SlowAfter - age[q]
    BY DEF ClaimInv, StaleClaimed
  <2>2. v \in Articles /\ age[q] \in Int
    BY DEF TypeOK
  <2> QED BY <1>3, <2>1, <2>2, RunsAssumption
<1>9. ASSUME claimTtl[u] = 0
      PROVE  /\ \A q \in Runs : InTime(q) => u \notin claimed[q]
             /\ InTime(r) /\ ~blind[r] => u \notin processed \ late
  <2>1. ASSUME NEW q \in Runs, InTime(q), u \in claimed[q] PROVE FALSE
    <3>1. claimTtl[u] >= ReviewTtl - age[q]
      BY <2>1 DEF ClaimInv, ClaimsHeld
    <3>2. ReviewTtl - age[q] > 0
      BY <2>1, InTimeBounds
    <3> QED BY <1>9, <3>1, <3>2, RunsAssumption DEF TypeOK
  <2>2. ASSUME InTime(r), ~blind[r], u \in processed \ late PROVE FALSE
    <3>1. claimTtl[u] >= ReviewTtl - SlowAfter - age[r]
      BY <2>2 DEF ClaimInv, StaleClaimed, ClaimArticle
    <3>2. ReviewTtl - SlowAfter - age[r] > 0
      BY <2>2, InTimeBounds
    <3> QED BY <1>9, <3>1, <3>2, RunsAssumption DEF TypeOK
  <2> QED BY <2>1, <2>2
<1>10. NoRepeatedReview'
  <2>1. CASE claimed'[r] = claimed[r]
    BY <1>1, <1>4, <2>1 DEF ClaimInv, NoRepeatedReview
  <2>2. CASE claimed'[r] = claimed[r] \cup {u} /\ claimTtl[u] = 0
    <3> SUFFICES ASSUME NEW p \in Runs, InTime(p)
                 PROVE  /\ ~blind[p] => claimed'[p] \cap (processed \ late) = {}
                        /\ \A q \in Runs \ {p} :
                              InTime(q) => claimed'[p] \cap claimed'[q] = {}
      BY <1>1 DEF NoRepeatedReview
    <3>1. ~blind[p] => claimed'[p] \cap (processed \ late) = {}
      BY <1>4, <1>9, <2>2 DEF ClaimInv, NoRepeatedReview
    <3>2. ASSUME NEW q \in Runs \ {p}, InTime(q)
          PROVE  claimed'[p] \cap claimed'[q] = {}
      <4>1. claimed[p] \cap claimed[q] = {}
        BY <3>2 DEF ClaimInv, NoRepeatedReview
      <4>2. u \notin claimed[p] /\ u \notin claimed[q]
        BY <1>9, <2>2, <3>2
      <4> QED BY <1>4, <2>2, <4>1, <4>2
    <3> QED BY <3>1, <3>2
  <2> QED BY <1>5, <2>1, <2>2
<1> QED BY <1>6, <1>7, <1>8, <1>10 DEF ClaimInv

\* A review saved in time leaves a claim long enough for every refresh that
\* looked up before the save.
LEMMA SaveClaims ==
    ASSUME TypeOK, ClaimInv, NEW r \in Runs, NEW saved \in BOOLEAN, SaveReviews(r, saved)
    PROVE  ClaimInv'
<1>1. /\ UNCHANGED <<claimTtl, age, blind>>
      /\ \A q \in Runs : InTime(q)' <=> InTime(q)
      /\ \A q \in Runs \ {r} : /\ pc'[q] = pc[q]
                               /\ pending'[q] = pending[q] /\ claimed'[q] = claimed[q]
  BY DEF SaveReviews, Finish, redis, InTime, TypeOK
<1>2. pending'[r] = {} /\ claimed'[r] = {} /\ pc'[r] = "release"
  BY DEF SaveReviews, Finish, TypeOK
<1>3. ASSUME NEW v \in processed' \ late'
      PROVE  v \in processed \ late \/ (v \in claimed[r] /\ InTime(r))
  BY <1>3 DEF SaveReviews
<1>4. AgingInv'
  BY <1>1, <1>2 DEF ClaimInv, AgingInv
<1>5. ClaimsHeld'
  BY <1>1, <1>2 DEF ClaimInv, ClaimsHeld
<1>6. StaleClaimed'
  <2> SUFFICES ASSUME NEW q \in Runs \ {r}, NEW v \in pending[q], InTime(q), ~blind[q],
                      v \in processed' \ late'
               PROVE  claimTtl[v] >= ReviewTtl - SlowAfter - age[q]
    BY <1>1, <1>2 DEF StaleClaimed
  <2>1. CASE v \in processed \ late
    BY <2>1 DEF ClaimInv, StaleClaimed
  <2>2. CASE v \in claimed[r] /\ InTime(r)
    <3>1. claimTtl[v] >= ReviewTtl - age[r]
      BY <2>2 DEF ClaimInv, ClaimsHeld
    <3>2. ReviewTtl - age[r] >= ReviewTtl - SlowAfter - age[q]
      BY <2>2, InTimeBounds
    <3>3. claimTtl[v] \in Int /\ age[r] \in Int /\ age[q] \in Int
      BY DEF TypeOK
    <3> QED BY <3>1, <3>2, <3>3, RunsAssumption
  <2> QED BY <1>3, <2>1, <2>2
<1>7. NoRepeatedReview'
  <2> SUFFICES ASSUME NEW p \in Runs, InTime(p)
               PROVE  /\ ~blind[p] => claimed'[p] \cap (processed' \ late') = {}
                      /\ \A q \in Runs \ {p} :
                            InTime(q) => claimed'[p] \cap claimed'[q] = {}
    BY <1>1 DEF NoRepeatedReview
  <2>1. CASE p = r
    BY <1>2, <2>1
  <2>2. CASE p # r
    BY <1>1, <1>2, <1>3, <2>2 DEF ClaimInv, NoRepeatedReview
  <2> QED BY <2>1, <2>2
<1> QED BY <1>4, <1>5, <1>6, <1>7 DEF ClaimInv

\* A tick shortens a claim by as much as it ages the refresh.
LEMMA TickClaims == ASSUME TypeOK, ClaimInv, Tick PROVE ClaimInv'
<1>1. UNCHANGED <<processed, late, pc, pending, claimed, blind>>
  BY DEF Tick
<1>2. ASSUME NEW q \in Runs, NEW v \in Articles, pending[q] # {} \/ claimed[q] # {}, InTime(q)'
      PROVE  /\ InTime(q) /\ age'[q] = age[q] + 1 /\ age[q] \in Int
             /\ claimTtl[v] \in Int /\ claimTtl'[v] \in Int /\ claimTtl'[v] >= claimTtl[v] - 1
  <2>1. pc[q] \in {"extend", "claim", "review"}
    BY <1>2 DEF ClaimInv, AgingInv
  <2>2. age[q] \in Int /\ SlowAfter \in Int
    BY RunsAssumption DEF TypeOK
  <2>3. InTime(q) /\ age'[q] = age[q] + 1
    BY <1>2, <2>1, <2>2 DEF Tick, InTime
  <2>4. /\ claimTtl[v] \in Int /\ claimTtl'[v] \in Int
        /\ claimTtl'[v] >= claimTtl[v] - 1
    BY RunsAssumption DEF Tick, CountDown, TypeOK
  <2> QED BY <2>2, <2>3, <2>4
<1>3. \A q \in Runs : InTime(q)' => InTime(q)
  BY RunsAssumption DEF Tick, InTime, TypeOK
<1>4. AgingInv'
  BY <1>1 DEF ClaimInv, AgingInv
<1>5. ClaimsHeld'
  <2> SUFFICES ASSUME NEW q \in Runs, NEW v \in claimed[q], InTime(q)'
               PROVE  claimTtl'[v] >= ReviewTtl - age'[q]
    BY <1>1 DEF ClaimsHeld
  <2>1. v \in Articles
    BY DEF TypeOK
  <2>2. claimTtl[v] >= ReviewTtl - age[q]
    BY <1>3 DEF ClaimInv, ClaimsHeld
  <2> QED BY <1>2, <2>1, <2>2, RunsAssumption
<1>6. StaleClaimed'
  <2> SUFFICES ASSUME NEW q \in Runs, NEW v \in pending[q], InTime(q)', ~blind[q],
                      v \in processed \ late
               PROVE  claimTtl'[v] >= ReviewTtl - SlowAfter - age'[q]
    BY <1>1 DEF StaleClaimed
  <2>1. v \in Articles
    BY DEF TypeOK
  <2>2. claimTtl[v] >= ReviewTtl - SlowAfter - age[q]
    BY <1>3 DEF ClaimInv, StaleClaimed
  <2> QED BY <1>2, <2>1, <2>2, RunsAssumption
<1>7. NoRepeatedReview'
  BY <1>1, <1>3 DEF ClaimInv, NoRepeatedReview
<1> QED BY <1>4, <1>5, <1>6, <1>7 DEF ClaimInv

LEMMA ClaimStep == ASSUME TypeOK, ClaimInv, [Next]_vars PROVE ClaimInv'
<1>1. ASSUME NEW r \in Runs, pc'[r] \in PCs,
             pc'[r] = "lookup" => r \in Refreshers,
             r \in Refreshers /\ pc[r] \in {"extend", "claim"} =>
                 pc'[r] \in {"extend", "claim", "review"},
             pc[r] \in {"idle", "extend", "claim"},
             pending'[r] \subseteq pending[r],
             \A q \in Runs \ {r} : pc'[q] = pc[q] /\ pending'[q] = pending[q],
             UNCHANGED <<claimTtl, processed, claimed, age, blind, late>>
      PROVE  ClaimInv'
  <2>1. AgingInv'
    BY <1>1 DEF ClaimInv, AgingInv
  <2>2. ClaimsHeld' /\ StaleClaimed' /\ NoRepeatedReview'
    BY <1>1 DEF ClaimInv, ClaimsHeld, StaleClaimed, NoRepeatedReview, InTime
  <2> QED BY <2>1, <2>2 DEF ClaimInv
<1>2. ASSUME NEW r \in Runs, NEW outcome \in Outcomes, AcquireRedisLock(r, outcome)
      PROVE  ClaimInv'
  BY <1>1, <1>2 DEF AcquireRedisLock, work, TypeOK, PCs
<1>3. ASSUME NEW r \in Runs, NEW known \in SUBSET (processed \cap Feed[ShardOf[r]]),
             NEW articleCount, LookUp(r, known, articleCount)
      PROVE  ClaimInv'
  BY <1>3, LookUpClaims
<1>4. ASSUME NEW r \in Runs, NEW outcome \in Outcomes, ExtendRedisWorkerRunLock(r, outcome)
      PROVE  ClaimInv'
  BY <1>1, <1>4 DEF ExtendRedisWorkerRunLock, work, TypeOK, PCs
<1>5. ASSUME NEW r \in Runs, NEW u \in Articles, NEW outcome \in Outcomes,
             ClaimArticle(r, u, outcome)
      PROVE  ClaimInv'
  BY <1>5, ClaimClaims
<1>6. ASSUME NEW r \in Runs, StartReviews(r) PROVE ClaimInv'
  BY <1>1, <1>6 DEF StartReviews, redis, TypeOK, PCs
<1>7. ASSUME NEW r \in Runs, NEW saved \in BOOLEAN, SaveReviews(r, saved) PROVE ClaimInv'
  BY <1>7, SaveClaims
<1>8. ASSUME NEW r \in Runs, Finish(r), UNCHANGED <<processed, late>> PROVE ClaimInv'
  BY <1>8, DropClaims DEF Finish, redis, TypeOK
<1>9. ASSUME NEW r \in Runs, TranslateSummaryBacklog(r) \/ Fail(r) PROVE ClaimInv'
  BY <1>8, <1>9 DEF TranslateSummaryBacklog, Fail
<1>10. ASSUME NEW r \in Runs, End(r) PROVE ClaimInv'
  BY <1>10, DropClaims DEF End, TypeOK
<1>11. ASSUME NEW r \in Runs, NEW outcome \in Outcomes,
              ReleaseRedisLock(r, outcome) \/ Crash(r)
       PROVE  ClaimInv'
  BY <1>10, <1>11 DEF ReleaseRedisLock, Crash
<1>12. CASE Tick
  BY <1>12, TickClaims
<1>13. CASE UNCHANGED vars
  BY <1>13, QuietClaims DEF vars, redis
<1> QED
  BY <1>2, <1>3, <1>4, <1>5, <1>6, <1>7, <1>9, <1>11, <1>12, <1>13
     DEF Next, StartRun, RunStep, Runs, Outcomes

\* While refreshes are in time, the claims keep every article from being reviewed
\* twice, within a shard whose lock was outlived and across shards.
THEOREM ReviewedOnce == Spec => []NoRepeatedReview
<1>1. Init => TypeOK /\ ClaimInv
  <2> SUFFICES ASSUME Init PROVE ClaimInv
    BY TypeInit
  <2> QED BY DEF Init, ClaimInv, AgingInv, ClaimsHeld, StaleClaimed, NoRepeatedReview
<1>2. TypeOK /\ ClaimInv /\ [Next]_vars => TypeOK' /\ ClaimInv'
  BY TypeStep, ClaimStep
<1>3. ClaimInv => NoRepeatedReview
  BY DEF ClaimInv
<1> QED BY <1>1, <1>2, <1>3, PTL DEF Spec

-----------------------------------------------------------------------------
(* Least elements: the library's facts about well-founded sets that take no operator. *)

LEMMA MinimalSet ==
    ASSUME NEW S, IsFiniteSet(S), NEW T \in SUBSET SUBSET S, T # {}
    PROVE  \E x \in T : \A y \in T : y \subseteq x => y = x
<1>1. IsWellFoundedOn(StrictSubsetOrdering(S), SUBSET S)
  BY FS_StrictSubsetOrderingWellFounded, FS_FiniteSubsetsOfFinite
<1>2. \E x \in T : \A y \in T : ~(<<y, x>> \in StrictSubsetOrdering(S))
  BY <1>1, WFMin
<1> QED BY <1>2 DEF StrictSubsetOrdering

LEMMA LeastNumber ==
    ASSUME NEW S \in SUBSET Nat, S # {}
    PROVE  Min(S) \in S
<1> PICK n \in S : TRUE
  OBVIOUS
<1> DEFINE upTo == 0..n
           T == {0..k : k \in {j \in S : j <= n}}
<1>1. IsFiniteSet(upTo)
  BY FS_Interval
<1>2. T \in SUBSET SUBSET upTo /\ upTo \in T
  OBVIOUS
<1>3. PICK x \in T : \A y \in T : y \subseteq x => y = x
  <2> HIDE DEF upTo, T
  <2>1. T # {}
    BY <1>2
  <2> QED BY <1>1, <1>2, <2>1, MinimalSet, SMT
<1>4. PICK m \in S : x = 0..m /\ m <= n
  BY <1>3
<1>5. ASSUME NEW k \in S, ~(m <= k) PROVE FALSE
  <2>1. 0..k \in T /\ 0..k \subseteq x
    BY <1>4, <1>5
  <2>2. m \notin 0..k /\ m \in 0..m
    BY <1>5
  <2> QED BY <1>3, <1>4, <2>1, <2>2
<1>6. m \in S /\ \A k \in S : m =< k
  BY <1>5
<1> QED BY <1>6 DEF Min

-----------------------------------------------------------------------------
(* Images: what a document shows is found. *)

LEMMA UsableIsAnImage == ASSUME NEW image, IsUsableImageUrl(image) PROVE image # NoImage
BY DEF IsUsableImageUrl, Normalizable, NoImage

LEMMA FirstValidIsFound ==
    ASSUME NEW images, DOMAIN images \subseteq Nat
    PROVE  /\ FirstValidImageUrl(images) = NoImage
              \/ IsUsableImageUrl(FirstValidImageUrl(images))
           /\ (\E i \in DOMAIN images : IsUsableImageUrl(images[i]))
              => IsUsableImageUrl(FirstValidImageUrl(images))
<1> DEFINE usable == {i \in DOMAIN images : IsUsableImageUrl(images[i])}
<1>1. usable # {} => Min(usable) \in usable
  BY LeastNumber
<1>2. FirstValidImageUrl(images) = IF usable = {} THEN NoImage ELSE images[Min(usable)]
  BY DEF FirstValidImageUrl
<1> QED BY <1>1, <1>2

Holds(s, t) == \A i \in DOMAIN t : \E k \in DOMAIN s : s[k] = t[i]

LEMMA Joined ==
    ASSUME NEW S, NEW s \in Seq(S), NEW t \in Seq(S)
    PROVE  s \o t \in Seq(S) /\ Holds(s \o t, s) /\ Holds(s \o t, t)
<1>1. s \o t \in Seq(S)
  BY ConcatProperties
<1>2. \A i \in DOMAIN s : i \in DOMAIN (s \o t) /\ (s \o t)[i] = s[i]
  OBVIOUS
<1>3. \A i \in DOMAIN t : Len(s) + i \in DOMAIN (s \o t) /\ (s \o t)[Len(s) + i] = t[i]
  OBVIOUS
<1>4. Holds(s \o t, s)
  BY <1>2 DEF Holds
<1>5. Holds(s \o t, t)
  BY <1>3 DEF Holds
<1> QED BY <1>1, <1>4, <1>5

LEMMA Elements ==
    ASSUME NEW S, NEW s \in Seq(S), NEW i \in DOMAIN s
    PROVE  s[i] \in S /\ i \in Nat
OBVIOUS

LEMMA BestOfSrcset ==
    ASSUME NEW srcset \in Seq([image : Images, score : Nat]), NEW best \in DOMAIN srcset,
           \A other \in DOMAIN srcset \ {best} : srcset[other].score < srcset[best].score
    PROVE  ExtractBestUrlFromSrcset(srcset) = <<srcset[best].image>>
<1> DEFINE isBest(i) == \A j \in DOMAIN srcset :
                            \/ srcset[j].score < srcset[i].score
                            \/ srcset[j].score = srcset[i].score /\ i <= j
<1>1. \A i \in DOMAIN srcset : srcset[i].score \in Nat /\ i \in Nat
  <2> TAKE i \in DOMAIN srcset
  <2> DEFINE R == [image : Images, score : Nat]
  <2>1. srcset \in Seq(R)
    OBVIOUS
  <2>2. srcset[i] \in R /\ i \in Nat
    <3> HIDE DEF R
    <3> QED BY <2>1, Elements
  <2> QED BY <2>2
<1>2. isBest(best)
  BY <1>1
<1>3. \A i \in DOMAIN srcset : isBest(i) => i = best
  BY <1>1
<1>4. (CHOOSE i \in DOMAIN srcset : isBest(i)) = best
  BY <1>2, <1>3
<1> QED BY <1>4 DEF ExtractBestUrlFromSrcset

\* A tag shows an image if an attribute does, or the best of its srcset.
TagShows(tag) == TagsShow(<<tag>>)

LEMMA TagIsTried ==
    ASSUME NEW tag \in Tags
    PROVE  /\ DOMAIN OfTag(tag) \subseteq Nat
           /\ \A i \in DOMAIN tag.attributes :
                 \E k \in DOMAIN OfTag(tag) : OfTag(tag)[k] = tag.attributes[i]
           /\ \A best \in DOMAIN tag.srcset :
                 (\A other \in DOMAIN tag.srcset \ {best} :
                     tag.srcset[other].score < tag.srcset[best].score)
                 => \E k \in DOMAIN OfTag(tag) : OfTag(tag)[k] = tag.srcset[best].image
<1> DEFINE front == IF tag.srcset = <<>> THEN <<>> ELSE ExtractBestUrlFromSrcset(tag.srcset)
<1>1. tag.srcset \in Seq([image : Images, score : Nat]) /\ tag.attributes \in Seq(Images)
  BY DEF Tags
<1>3. PICK S : front \in Seq(S)
  <2>1. front = <<>> \/ \E x : front = <<x>>
    BY DEF ExtractBestUrlFromSrcset
  <2>2. <<>> \in Seq(Images) /\ \A x : <<x>> \in Seq({x})
    OBVIOUS
  <2> QED BY <2>1, <2>2
<1>4. OfTag(tag) = front \o tag.attributes
  BY DEF OfTag
<1>5. \A best \in DOMAIN tag.srcset :
         (\A other \in DOMAIN tag.srcset \ {best} :
             tag.srcset[other].score < tag.srcset[best].score)
         => front = <<tag.srcset[best].image>>
  <2> TAKE best \in DOMAIN tag.srcset
  <2>1. tag.srcset # <<>>
    BY <1>1
  <2> QED BY <1>1, <2>1, BestOfSrcset
<1> HIDE DEF front
<1>6. front \in Seq(S \cup Images) /\ tag.attributes \in Seq(S \cup Images)
  BY <1>1, <1>3
<1>7. /\ OfTag(tag) \in Seq(S \cup Images)
      /\ Holds(OfTag(tag), front) /\ Holds(OfTag(tag), tag.attributes)
  BY <1>4, <1>6, Joined
<1>8. ASSUME NEW x, front = <<x>> PROVE \E k \in DOMAIN OfTag(tag) : OfTag(tag)[k] = x
  <2>1. 1 \in DOMAIN front /\ front[1] = x
    BY <1>8
  <2> QED BY <1>7, <2>1 DEF Holds
<1>9. DOMAIN OfTag(tag) \subseteq Nat
  BY <1>7
<1> QED BY <1>5, <1>7, <1>8, <1>9 DEF Holds

LEMMA HtmlIsTried ==
    ASSUME NEW tags \in Seq(Tags)
    PROVE  /\ ExtractImageFromHtml(tags) = NoImage
              \/ IsUsableImageUrl(ExtractImageFromHtml(tags))
           /\ TagsShow(tags) => IsUsableImageUrl(ExtractImageFromHtml(tags))
<1> DEFINE each == [i \in DOMAIN tags |-> FirstValidImageUrl(OfTag(tags[i]))]
<1>1. DOMAIN each \subseteq Nat /\ ExtractImageFromHtml(tags) = FirstValidImageUrl(each)
  BY DEF ExtractImageFromHtml
<1>2. ASSUME TagsShow(tags) PROVE \E i \in DOMAIN each : IsUsableImageUrl(each[i])
  <2>1. PICK i \in DOMAIN tags :
            \/ Shown(tags[i].attributes)
            \/ \E best \in DOMAIN tags[i].srcset :
                  /\ IsUsableImageUrl(tags[i].srcset[best].image)
                  /\ \A other \in DOMAIN tags[i].srcset \ {best} :
                        tags[i].srcset[other].score < tags[i].srcset[best].score
    BY <1>2 DEF TagsShow
  <2>2. tags[i] \in Tags
    OBVIOUS
  <2>3. \E k \in DOMAIN OfTag(tags[i]) : IsUsableImageUrl(OfTag(tags[i])[k])
    BY <2>1, <2>2, TagIsTried DEF Shown
  <2>4. IsUsableImageUrl(FirstValidImageUrl(OfTag(tags[i])))
    BY <2>2, <2>3, TagIsTried, FirstValidIsFound
  <2> QED BY <2>4
<1> HIDE DEF each
<1> QED BY <1>1, <1>2, FirstValidIsFound

\* What a page shows, its lookup finds.
LEMMA PageIsTried ==
    ASSUME NEW p \in DOMAIN Pages, PageShows(Pages[p])
    PROVE  IsUsableImageUrl(PageImages[p])
<1> DEFINE shown == Pages[p]
           linked == LinkImages(shown.links)
           all == shown.meta \o linked \o shown.jsonLd
           metadata == FirstValidImageUrl(all)
<1>1. /\ shown.meta \in Seq(Images) /\ shown.jsonLd \in Seq(Images)
      /\ shown.links \in Seq([as : STRING, image : Images]) /\ shown.tags \in Seq(Tags)
  BY SelectionAssumption
<1> DEFINE Any == Images \cup {NoImage}
<1>2. linked \in Seq(Any)
  <2> DEFINE R == [as : STRING, image : Images]
             links == shown.links
  <2>1. \A i \in DOMAIN links : links[i] \in R
    <3>1. links \in Seq(R)
      BY <1>1
    <3> HIDE DEF R, links
    <3> QED BY <3>1, Elements
  <2>2. DOMAIN shown.links = 1..Len(shown.links) /\ Len(shown.links) \in Nat
    BY <1>1
  <2>3. linked = [i \in 1..Len(shown.links) |->
                    IF shown.links[i].as \in {"image", ""} THEN shown.links[i].image ELSE NoImage]
    BY <2>2 DEF LinkImages
  <2>4. linked \in [1..Len(shown.links) -> Any]
    BY <2>1, <2>2, <2>3
  <2> QED BY <2>2, <2>4, IsASeq
<1>3. PageImages[p] = IF metadata # NoImage THEN metadata ELSE ExtractImageFromHtml(shown.tags)
  BY DEF PageImages, ExtractArticlePageImageFromHtml
<1>4. shown.meta \in Seq(Any) /\ shown.jsonLd \in Seq(Any)
  BY <1>1
<1>5. /\ all \in Seq(Any)
      /\ Holds(all, shown.meta) /\ Holds(all, linked) /\ Holds(all, shown.jsonLd)
  <2> DEFINE front == shown.meta \o linked
  <2> HIDE DEF linked, shown, Any
  <2>1. front \in Seq(Any) /\ Holds(front, shown.meta) /\ Holds(front, linked)
    BY <1>2, <1>4, Joined
  <2>2. all = front \o shown.jsonLd
    OBVIOUS
  <2> HIDE DEF front, all
  <2>3. all \in Seq(Any) /\ Holds(all, front) /\ Holds(all, shown.jsonLd)
    BY <1>4, <2>1, <2>2, Joined
  <2> QED BY <2>1, <2>3 DEF Holds
<1>6. DOMAIN all \subseteq Nat
  <2> HIDE DEF all
  <2> QED BY <1>5
<1>7. CASE TagsShow(shown.tags)
  <2>1. IsUsableImageUrl(ExtractImageFromHtml(shown.tags))
    BY <1>1, <1>7, HtmlIsTried
  <2>2. metadata = NoImage \/ IsUsableImageUrl(metadata)
    BY <1>6, FirstValidIsFound
  <2> QED BY <1>3, <2>1, <2>2
<1>8. CASE \E k \in DOMAIN all : IsUsableImageUrl(all[k])
  <2>1. IsUsableImageUrl(metadata)
    BY <1>6, <1>8, FirstValidIsFound
  <2> QED BY <1>3, <2>1, UsableIsAnImage
<1>9. Shown(shown.meta) \/ Shown(shown.jsonLd) => \E k \in DOMAIN all : IsUsableImageUrl(all[k])
  BY <1>5 DEF Shown, Holds
<1>10. (\E i \in DOMAIN shown.links :
           shown.links[i].as \in {"image", ""} /\ IsUsableImageUrl(shown.links[i].image))
       => \E k \in DOMAIN all : IsUsableImageUrl(all[k])
  <2> SUFFICES ASSUME NEW i \in DOMAIN shown.links, shown.links[i].as \in {"image", ""},
                      IsUsableImageUrl(shown.links[i].image)
               PROVE  \E k \in DOMAIN all : IsUsableImageUrl(all[k])
    OBVIOUS
  <2>1. i \in DOMAIN linked /\ linked[i] = shown.links[i].image
    BY DEF LinkImages
  <2> QED BY <1>5, <2>1 DEF Holds
<1> QED BY <1>7, <1>8, <1>9, <1>10 DEF PageShows

\* What an item shows, its extraction finds.
LEMMA ItemIsTried ==
    ASSUME NEW item \in Items, ItemShows(item)
    PROVE  IsUsableImageUrl(ExtractRssImageUrl(item))
<1> DEFINE direct == FirstValidImageUrl(DirectImages(item.elements))
           embedded == [i \in DOMAIN item.blocks |-> ExtractImageFromHtml(item.blocks[i])]
<1>1. /\ item.elements \in Seq([element : STRING, declared : BOOLEAN, image : Images])
      /\ item.blocks \in Seq(Seq(Tags))
  BY DEF Items
<1>2. ExtractRssImageUrl(item) = IF direct # NoImage THEN direct ELSE FirstValidImageUrl(embedded)
  BY DEF ExtractRssImageUrl
<1>3. DOMAIN DirectImages(item.elements) = DOMAIN item.elements
  BY DEF DirectImages
<1>4. direct = NoImage \/ IsUsableImageUrl(direct)
  BY <1>1, <1>3, FirstValidIsFound
<1>5. ASSUME NEW i \in DOMAIN item.elements, IsUsableImageUrl(item.elements[i].image)
      PROVE  IsUsableImageUrl(ExtractRssImageUrl(item))
  <2>1. DirectImages(item.elements)[i] = item.elements[i].image
    BY <1>5 DEF DirectImages, IsUsableImageUrl
  <2>2. IsUsableImageUrl(direct)
    BY <1>1, <1>3, <1>5, <2>1, FirstValidIsFound
  <2> QED BY <1>2, <2>2, UsableIsAnImage
<1>6. ASSUME NEW i \in DOMAIN item.blocks, TagsShow(item.blocks[i])
      PROVE  IsUsableImageUrl(ExtractRssImageUrl(item))
  <2>1. item.blocks[i] \in Seq(Tags)
    BY <1>1
  <2>2. IsUsableImageUrl(embedded[i]) /\ i \in DOMAIN embedded /\ DOMAIN embedded \subseteq Nat
    BY <1>1, <1>6, <2>1, HtmlIsTried
  <2>3. IsUsableImageUrl(FirstValidImageUrl(embedded))
    <3> HIDE DEF embedded
    <3> QED BY <2>2, FirstValidIsFound
  <2> QED BY <1>2, <1>4, <2>3
<1> QED BY <1>5, <1>6 DEF ItemShows

-----------------------------------------------------------------------------
(* Candidates: each is of an item of the feeds, and each URL has one. *)

ArticleOf(item) ==
    [url |-> item.url, text |-> item.text, imageUrl |-> ExtractRssImageUrl(item)]

SelectionTypes ==
    /\ feedList \in DOMAIN FeedLists
    /\ pageOf \in [Urls -> DOMAIN Pages]
    /\ recency \in [Urls -> 0..3]
    /\ verdict \in [Urls -> {"none", "decided", "no_thumbnail"}]
    /\ retryIn \in [Urls -> Nat]
    /\ pageRead \in [Urls -> BOOLEAN]
    /\ waits \in [Urls -> Nat]
    /\ repeats \in Nat

\* The items of the shard's feeds.
Offered == {item \in Items :
              \E f \in DOMAIN FeedLists[feedList] : \E i \in DOMAIN FeedLists[feedList][f] :
                 item = FeedLists[feedList][f][i]}

LEMMA LeastOfTwo ==
    ASSUME NEW a \in Int, NEW b \in Int
    PROVE  /\ Min({a, b}) \in {a, b} /\ Min({a, b}) <= a /\ Min({a, b}) <= b
           /\ Max({a, b}) \in {a, b}
<1>1. \E x \in {a, b} : \A y \in {a, b} : x =< y
  OBVIOUS
<1>2. \E x \in {a, b} : \A y \in {a, b} : x >= y
  OBVIOUS
<1> QED BY <1>1, <1>2 DEF Min, Max

LEMMA FeedsAreOffered ==
    ASSUME SelectionTypes, NEW f \in DOMAIN feeds
    PROVE  /\ f \in Int /\ DOMAIN feeds[f] \subseteq Int
           /\ \A i \in DOMAIN feeds[f] : \E item \in Offered : feeds[f][i] = ArticleOf(item)
<1> DEFINE list == FeedLists[feedList]
           taken(g) == 1..Min({MaxItemsPerFeed, Len(list[g])})
<1>1. list \in Seq(Seq(Items))
  BY SelectionAssumption DEF SelectionTypes
<1>2. feeds = [g \in DOMAIN list |-> [i \in taken(g) |-> ArticleOf(list[g][i])]]
  BY DEF feeds, ParseRss, ArticleOf, SelectionTypes
<1> HIDE DEF list
<1>3. f \in DOMAIN list /\ f \in Nat
  <2>1. f \in DOMAIN list
    BY <1>2
  <2> QED BY <1>1, <2>1
<1>4. list[f] \in Seq(Items)
  BY <1>1, <1>3, Elements
<1>5. Len(list[f]) \in Nat /\ DOMAIN list[f] = 1..Len(list[f])
  BY <1>4
<1>6. taken(f) \subseteq DOMAIN list[f] /\ taken(f) \subseteq Int
  <2> DEFINE most == Min({MaxItemsPerFeed, Len(list[f])})
  <2>1. MaxItemsPerFeed \in Int /\ Len(list[f]) \in Int
    BY <1>5, SelectionAssumption
  <2>2. most \in {MaxItemsPerFeed, Len(list[f])} /\ most <= Len(list[f])
    BY <2>1, LeastOfTwo
  <2> HIDE DEF most
  <2>3. 1..most \subseteq 1..Len(list[f]) /\ 1..most \subseteq Int
    BY <1>5, <2>1, <2>2
  <2> QED BY <1>5, <2>3 DEF most
<1>7. feeds[f] = [i \in taken(f) |-> ArticleOf(list[f][i])]
  BY <1>2, <1>3
<1>8. \A i \in taken(f) : list[f][i] \in Offered
  <2> TAKE i \in taken(f)
  <2>1. i \in DOMAIN list[f]
    BY <1>6
  <2>2. list[f][i] \in Items
    BY <1>4, <2>1, Elements
  <2> QED BY <1>3, <2>1, <2>2 DEF Offered, list
<1>9. DOMAIN feeds[f] = taken(f)
  BY <1>7
<1>10. \A i \in DOMAIN feeds[f] : \E item \in Offered : feeds[f][i] = ArticleOf(item)
  BY <1>7, <1>8, <1>9
<1>11. DOMAIN feeds[f] \subseteq Int
  BY <1>6, <1>9
<1> QED BY <1>3, <1>10, <1>11

LEMMA ArticlesOfFeeds ==
    ASSUME SelectionTypes, NEW failedFeeds
    PROVE  /\ \A a \in FetchRssArticles(failedFeeds) : \E item \in Offered : a = ArticleOf(item)
           /\ \A a, b \in FetchRssArticles(failedFeeds) : a.url = b.url => a = b
           /\ IsFiniteSet(FetchRssArticles(failedFeeds))
<1> DEFINE places == UNION {{f} \X DOMAIN feeds[f] : f \in DOMAIN feeds \ failedFeeds}
           url(p) == feeds[p[1]][p[2]].url
           earlier(p, q) == p[1] < q[1] \/ (p[1] = q[1] /\ p[2] < q[2])
           kept == {q \in places : \A p \in places : earlier(p, q) => url(p) # url(q)}
           articles == {feeds[p[1]][p[2]] : p \in kept}
<1>1. FetchRssArticles(failedFeeds) = articles
  BY DEF FetchRssArticles, UniqueArticlesByUrl
<1>2. \A p \in places :
         /\ p[1] \in DOMAIN feeds /\ p[1] \in Int
         /\ p[2] \in DOMAIN feeds[p[1]] /\ p[2] \in Int
         /\ p = <<p[1], p[2]>>
  <2> TAKE p \in places
  <2>1. PICK f \in DOMAIN feeds \ failedFeeds : p \in {f} \X DOMAIN feeds[f]
    OBVIOUS
  <2>2. p[1] = f /\ p[2] \in DOMAIN feeds[f] /\ p = <<p[1], p[2]>>
    BY <2>1
  <2> QED BY <2>2, FeedsAreOffered
<1> HIDE DEF places
<1>3. ASSUME NEW p \in kept, NEW q \in kept, url(p) = url(q) PROVE p = q
  <2>1. ~earlier(p, q) /\ ~earlier(q, p)
    BY <1>3
  <2>2. p \in places /\ q \in places
    OBVIOUS
  <2>3. p[1] = q[1] /\ p[2] = q[2]
    BY <1>2, <2>1, <2>2
  <2> QED BY <1>2, <2>2, <2>3
<1>4. \A a \in articles : \E item \in Offered : a = ArticleOf(item)
  <2>1. \A p \in kept : \E item \in Offered : feeds[p[1]][p[2]] = ArticleOf(item)
    BY <1>2, FeedsAreOffered
  <2> QED BY <2>1
<1>5. \A a, b \in articles : a.url = b.url => a = b
  BY <1>3
<1>6. IsFiniteSet(articles)
  <2> DEFINE f == [a \in articles |-> a.url]
  <2>1. \A a \in articles : a.url \in Urls
    BY <1>4 DEF ArticleOf, Offered, Items
  <2> HIDE DEF articles
  <2>2. f \in Injection(articles, Urls)
    BY <1>5, <2>1 DEF Injection, IsInjective
  <2> QED BY <2>2, FS_Injection, SelectionAssumption
<1> QED BY <1>1, <1>4, <1>5, <1>6

\* Of the first n articles there are n, unless they are all.
LEMMA FirstAreFull ==
    ASSUME SelectionTypes, NEW articles, IsFiniteSet(articles),
           \A a \in articles : \E item \in Items : a = ArticleOf(item),
           NEW n \in Nat, articles \ First(n, articles) # {}
    PROVE  Cardinality(First(n, articles)) >= n
<1> DEFINE score(a) == ScoreArticleCandidate(a)
           before(a, b) ==
               LET difference == ScoreArticleCandidate(a) - ScoreArticleCandidate(b)
               IN difference > 0 \/ (difference = 0 /\ PublishedAt(a) > PublishedAt(b))
           ahead(a) == {b \in articles : before(b, a)}
<1>1. First(n, articles) = {a \in articles : Cardinality(ahead(a)) < n}
  BY DEF First
<1>2. \A a \in articles : score(a) \in Int /\ PublishedAt(a) \in Int
  <2> TAKE a \in articles
  <2>1. PICK item \in Items : a = ArticleOf(item)
    OBVIOUS
  <2>2. a.url \in Urls /\ a.text \in Texts
    BY <2>1 DEF ArticleOf, Items
  <2>3. PublishedAt(a) \in DOMAIN PublishedOrder
    BY <2>2, SelectionAssumption DEF PublishedAt
  <2>4. PublishedAt(a) \in Int
    BY <2>3, SelectionAssumption, Elements
  <2>5. recency[a.url] \in 0..3
    BY <2>2 DEF SelectionTypes
  <2>6. recency[a.url] > 0 => RecencyScore[recency[a.url]] \in Int
    BY <2>5 DEF RecencyScore
  <2>7. a.text.scored.positives \in Nat /\ a.text.scored.negatives \in Nat
    BY <2>2 DEF Texts, ScoredWords
  <2>8. score(a) \in Int
    BY <2>5, <2>6, <2>7 DEF ScoreArticleCandidate
  <2> QED BY <2>4, <2>8
<1>3. First(n, articles) \in SUBSET articles
  BY DEF First
<1>4. IsFiniteSet(First(n, articles)) /\ Cardinality(First(n, articles)) \in Nat
  BY <1>3, FS_Subset, FS_CardinalityType
<1> DEFINE rest == articles \ First(n, articles)
           T == {ahead(a) : a \in rest}
<1>5. T \in SUBSET SUBSET articles /\ T # {}
  <2>1. \A a \in rest : ahead(a) \in SUBSET articles
    OBVIOUS
  <2> HIDE DEF ahead, rest
  <2>2. rest # {}
    BY DEF rest
  <2> QED BY <2>1, <2>2
<1>6. PICK x \in T : \A y \in T : y \subseteq x => y = x
  <2> HIDE DEF T
  <2> QED BY <1>5, MinimalSet, SMT
<1>7. PICK a \in rest : x = ahead(a)
  BY <1>6
\* Those ahead of the foremost of the rest are among the first.
<1>8. ASSUME NEW b \in ahead(a) PROVE b \in First(n, articles)
  <2> SUFFICES ASSUME b \in rest PROVE FALSE
    BY <1>8
  <2>1. b \in articles /\ before(b, a) /\ a \in articles
    BY <1>8
  <2>2. \A c \in articles : before(c, b) => before(c, a)
    BY <1>2, <2>1
  <2>3. ~before(b, b)
    BY <1>2, <2>1
  <2>4. ahead(b) \subseteq ahead(a) /\ b \notin ahead(b) /\ ahead(b) \in T
    BY <2>1, <2>2, <2>3
  <2> QED BY <1>6, <1>7, <1>8, <2>4
<1>9. ahead(a) \in SUBSET First(n, articles)
  BY <1>8
<1>10. ~(Cardinality(ahead(a)) < n)
  BY <1>1, <1>7
<1> HIDE DEF ahead
<1>11. /\ Cardinality(ahead(a)) \in Nat
       /\ Cardinality(ahead(a)) <= Cardinality(First(n, articles))
  BY <1>4, <1>9, FS_Subset, FS_CardinalityType
<1> QED BY <1>4, <1>10, <1>11

-----------------------------------------------------------------------------
(* One refresh. *)

\* What a refresh reviews: each article at most once, and none that was decided.
LEMMA Unreviewed ==
    ASSUME SelectionTypes, NEW failedFeeds, NEW missed
    PROVE  LET unreviewed ==
                  {a \in Candidates(failedFeeds) : ~Processed(a.url) \/ a.url \in missed}
           IN /\ \A a \in unreviewed :
                    /\ \E item \in Offered : a = ArticleOf(item)
                    /\ a.url \in Urls /\ (verdict[a.url] # "decided" \/ a.url \in missed)
              /\ \A a, b \in unreviewed : a.url = b.url => a = b
              /\ IsFiniteSet(unreviewed)
<1> DEFINE fetched == FetchRssArticles(failedFeeds)
           unreviewed == {a \in Candidates(failedFeeds) : ~Processed(a.url) \/ a.url \in missed}
<1>1. /\ \A a \in fetched : \E item \in Offered : a = ArticleOf(item)
      /\ \A a, b \in fetched : a.url = b.url => a = b
      /\ IsFiniteSet(fetched)
  BY ArticlesOfFeeds
<1>2. Candidates(failedFeeds) \subseteq fetched
  BY DEF Candidates, First
<1>3. unreviewed \in SUBSET fetched
  BY <1>2
<1>4. \A a \in fetched : a.url \in Urls
  BY <1>1 DEF ArticleOf, Offered, Items
<1>5. \A a \in unreviewed : verdict[a.url] # "decided" \/ a.url \in missed
  BY DEF Processed
<1>6. IsFiniteSet(unreviewed)
  BY <1>1, <1>3, FS_Subset
<1> QED BY <1>1, <1>3, <1>4, <1>5, <1>6

\* Pages read and images found change nothing else of an article.
LEMMA HydratedArticles ==
    ASSUME NEW articles, \A a \in articles : \E item \in Offered : a = ArticleOf(item),
           NEW unread
    PROVE  LET hydrated == HydrateMissingArticleImages(articles, unread)
               looked == {a \in First(LookupLimit, Without(articles)) : a.url \notin unread}
           IN /\ hydrated.read = UrlsIn(looked)
              /\ looked \subseteq Without(articles) /\ looked \subseteq articles
              /\ \A b \in hydrated.articles : \E a \in articles :
                    /\ a.url = b.url
                    /\ IF a \in looked THEN b = FetchArticlePageImage(a) ELSE b = a
<1> DEFINE looked == {a \in First(LookupLimit, Without(articles)) : a.url \notin unread}
           after == (articles \ looked) \cup {FetchArticlePageImage(a) : a \in looked}
<1>1. HydrateMissingArticleImages(articles, unread) = [read |-> UrlsIn(looked), articles |-> after]
  BY DEF HydrateMissingArticleImages
<1>2. looked \subseteq Without(articles) /\ looked \subseteq articles
  BY DEF First, Without
<1>3. \A a \in articles : FetchArticlePageImage(a).url = a.url
  BY DEF FetchArticlePageImage, ArticleOf
<1> HIDE DEF looked
<1>4. \A b \in after : \E a \in articles :
         a.url = b.url /\ IF a \in looked THEN b = FetchArticlePageImage(a) ELSE b = a
  BY <1>2, <1>3
<1> HIDE DEF after
<1>5. HydrateMissingArticleImages(articles, unread).read = UrlsIn(looked)
      /\ HydrateMissingArticleImages(articles, unread).articles = after
  BY <1>1
<1> QED BY <1>2, <1>4, <1>5 DEF looked

\* What a refresh refuses, skips or may review was undecided, or missed; and what it refuses after
\* its page was read has an image neither there nor in an item.
LEMMA RefusedHasNone ==
    ASSUME SelectionTypes, NEW failedFeeds, NEW unread, NEW missed
    PROVE  LET run == SelectForReview(Candidates(failedFeeds), unread, missed)
           IN /\ \A u \in run.noThumbnail \cup run.skipped \cup UrlsIn(run.eligible) :
                    u \in Urls /\ (verdict[u] # "decided" \/ u \in run.missed)
              /\ \A u \in run.missed : verdict[u] = "decided"
              /\ \A u \in run.noThumbnail \cap run.read :
                    /\ ~PageShows(page(u))
                    /\ \E item \in Offered : item.url = u /\ ~ItemShows(item)
              /\ \A a \in run.eligible : \E item \in Items : a = ArticleOf(item)
              /\ \A a, b \in run.eligible : a.url = b.url => a = b
              /\ IsFiniteSet(run.eligible)
<1> DEFINE unreviewed == {a \in Candidates(failedFeeds) : ~Processed(a.url) \/ a.url \in missed}
           hydrated == HydrateMissingArticleImages(unreviewed, unread)
           without == Without(hydrated.articles)
           skipped == {a \in hydrated.articles \ without : ShouldSkipBeforeAi(a)}
           eligible == {a \in unreviewed : a.url \notin UrlsIn(without \cup skipped)}
           looked == {a \in First(LookupLimit, Without(unreviewed)) : a.url \notin unread}
           run == SelectForReview(Candidates(failedFeeds), unread, missed)
<1>1. /\ run.missed = {u \in missed : verdict[u] = "decided"}
      /\ run.read = hydrated.read
      /\ run.noThumbnail = UrlsIn(without)
      /\ run.skipped = UrlsIn(skipped)
      /\ run.eligible = eligible
  BY DEF SelectForReview
<1>2. /\ \A a \in unreviewed : /\ \E item \in Offered : a = ArticleOf(item)
                               /\ a.url \in Urls
                               /\ verdict[a.url] # "decided" \/ a.url \in missed
      /\ \A a, b \in unreviewed : a.url = b.url => a = b
      /\ IsFiniteSet(unreviewed)
  BY Unreviewed
<1> HIDE DEF unreviewed
<1>3. /\ hydrated.read = UrlsIn(looked)
      /\ looked \subseteq Without(unreviewed) /\ looked \subseteq unreviewed
      /\ \A b \in hydrated.articles : \E a \in unreviewed :
            a.url = b.url /\ IF a \in looked THEN b = FetchArticlePageImage(a) ELSE b = a
  <2>1. \A a \in unreviewed : \E item \in Offered : a = ArticleOf(item)
    BY <1>2
  <2> QED BY <2>1, HydratedArticles
<1> HIDE DEF hydrated, looked, run
<1>4. without \subseteq hydrated.articles /\ skipped \subseteq hydrated.articles
  BY DEF Without
<1>5. eligible \in SUBSET unreviewed
  OBVIOUS
<1> HIDE DEF without, skipped, eligible
<1>6. /\ \A a \in eligible : \E item \in Items : a = ArticleOf(item)
      /\ \A a, b \in eligible : a.url = b.url => a = b
      /\ IsFiniteSet(eligible)
  <2>1. IsFiniteSet(eligible)
    BY <1>2, <1>5, FS_Subset
  <2> QED BY <1>2, <1>5, <2>1 DEF Offered
<1>8. \A u \in run.noThumbnail \cup run.skipped \cup UrlsIn(run.eligible) :
         u \in Urls /\ (verdict[u] # "decided" \/ u \in run.missed)
  <2>1. \A b \in hydrated.articles :
          b.url \in Urls /\ (verdict[b.url] # "decided" \/ b.url \in missed)
    BY <1>2, <1>3
  <2> QED BY <1>1, <1>2, <1>4, <1>5, <2>1 DEF UrlsIn
<1>9. ASSUME NEW u \in run.noThumbnail, u \in run.read
      PROVE  ~PageShows(page(u)) /\ \E item \in Offered : item.url = u /\ ~ItemShows(item)
  <2>1. PICK b \in without : b.url = u
    BY <1>1 DEF UrlsIn
  <2>2. b \in hydrated.articles /\ ~HasUsableThumbnail(b)
    BY <1>4 DEF without, Without
  <2>3. PICK a \in unreviewed :
            a.url = u /\ IF a \in looked THEN b = FetchArticlePageImage(a) ELSE b = a
    BY <1>3, <2>1, <2>2
  <2>4. PICK l \in looked : l.url = u
    BY <1>1, <1>3, <1>9 DEF UrlsIn
  <2>5. a \in looked
    BY <1>2, <1>3, <2>3, <2>4
  <2>6. PICK item \in Offered : a = ArticleOf(item)
    BY <1>2
  <2>7. b.imageUrl = PageImages[pageOf[u]] /\ a.imageUrl = ExtractRssImageUrl(item) /\ item.url = u
    BY <2>3, <2>5, <2>6 DEF FetchArticlePageImage, ArticleOf
  <2>8. ~IsUsableImageUrl(PageImages[pageOf[u]])
    BY <2>2, <2>7, UsableIsAnImage DEF HasUsableThumbnail
  <2>9. ~PageShows(page(u))
    <3>1. pageOf[u] \in DOMAIN Pages
      BY <1>2, <2>3 DEF SelectionTypes
    <3> QED BY <2>8, <3>1, PageIsTried DEF page
  <2>10. ~HasUsableThumbnail(a)
    BY <1>3, <2>5 DEF Without
  <2>11. ~ItemShows(item)
    BY <2>7, <2>10, ItemIsTried, UsableIsAnImage DEF HasUsableThumbnail, Offered
  <2> QED BY <2>7, <2>9, <2>11
<1> QED BY <1>1, <1>6, <1>8, <1>9 DEF run

\* While one of the articles that no other run has claimed is left over, a refresh reviews
\* as many others as it may.
LEMMA ReviewsAreFull ==
    ASSUME SelectionTypes, NEW articles, IsFiniteSet(articles),
           \A a \in articles : \E item \in Items : a = ArticleOf(item),
           \A a, b \in articles : a.url = b.url => a = b, NEW taken
    PROVE  LET reviewed == ClaimArticlesForAiReview(articles, taken)
           IN /\ reviewed \subseteq UrlsIn(articles)
              /\ IsFiniteSet(reviewed) /\ Cardinality(reviewed) \in Nat
              /\ UrlsIn(articles) \ (reviewed \cup taken) # {}
                 => Cardinality(reviewed) >= MaxAiReviews
<1> DEFINE free == {a \in articles : a.url \notin taken}
           first == First(MaxAiReviews, free)
           reviewed == ClaimArticlesForAiReview(articles, taken)
<1>1. reviewed = UrlsIn(first) /\ free \in SUBSET articles /\ first \in SUBSET free
  BY DEF ClaimArticlesForAiReview, First
<1>2. MaxAiReviews \in Nat
  BY SelectionAssumption
<1>3. ASSUME UrlsIn(articles) \ (reviewed \cup taken) # {} PROVE free \ first # {}
  <2>1. PICK a \in articles : a.url \notin reviewed \cup taken
    BY <1>3 DEF UrlsIn
  <2>2. a \in free /\ a \notin first
    BY <1>1, <2>1 DEF UrlsIn
  <2> QED BY <2>2
<1>4. IsFiniteSet(free) /\ \A a \in free : \E item \in Items : a = ArticleOf(item)
  BY <1>1, FS_Subset
<1> HIDE DEF free
<1>5. free \ first # {} => Cardinality(first) >= MaxAiReviews
  BY <1>2, <1>4, FirstAreFull
<1>6. IsFiniteSet(first)
  BY <1>1, <1>4, FS_Subset
<1> HIDE DEF first, reviewed
<1>7. ExistsBijection(first, UrlsIn(first))
  <2> DEFINE f == [a \in first |-> a.url]
  <2>1. f \in [first -> UrlsIn(first)]
    BY DEF UrlsIn
  <2>2. \A a, b \in first : f[a] = f[b] => a = b
    BY <1>1
  <2>3. \A u \in UrlsIn(first) : \E a \in first : f[a] = u
    BY DEF UrlsIn
  <2> HIDE DEF f
  <2>4. f \in Bijection(first, UrlsIn(first))
    BY <2>1, <2>2, <2>3 DEF Bijection, Injection, Surjection, IsInjective
  <2> QED BY <2>4 DEF ExistsBijection
<1>8. IsFiniteSet(UrlsIn(first)) /\ Cardinality(UrlsIn(first)) = Cardinality(first)
  BY <1>6, <1>7, FS_Bijection
<1>9. reviewed \subseteq UrlsIn(articles)
  BY <1>1 DEF UrlsIn
<1> QED BY <1>1, <1>3, <1>5, <1>8, <1>9, FS_CardinalityType DEF reviewed

-----------------------------------------------------------------------------
(* The invariant. *)

SelectionInv == SelectionTypes /\ NoThumbnailMeansNone /\ TurnsGoToOthersOnce

LEMMA DecidedAreFinite ==
    \A S \in SUBSET Urls : IsFiniteSet(S) /\ Cardinality(S) \in Nat
BY FS_Subset, FS_CardinalityType, SelectionAssumption

LEMMA SelectionStart == ASSUME SelectionInit PROVE SelectionInv
<1> USE SelectionAssumption DEF SelectionInit
<1>1. SelectionTypes
  BY DEF SelectionTypes
<1>2. NoThumbnailMeansNone
  BY DEF NoThumbnailMeansNone
<1>3. TurnsGoToOthersOnce
  <2>1. \A u \in Urls : waits[u] = 0 /\ Decided \ {u} \in SUBSET Urls
    BY DEF Decided
  <2>2. \A u \in Urls : Cardinality(Decided \ {u}) \in Nat
    BY <2>1, DecidedAreFinite
  <2>3. MaxAiReviews * 0 = 0
    OBVIOUS
  <2> SUFFICES ASSUME NEW u \in Urls
               PROVE  MaxAiReviews * waits[u] <= Cardinality(Decided \ {u}) + repeats
    BY DEF TurnsGoToOthersOnce
  <2>4. MaxAiReviews * waits[u] = 0 /\ repeats = 0
    BY <2>1, <2>3
  <2> DEFINE others == Cardinality(Decided \ {u})
  <2>5. others \in Nat
    BY <2>2
  <2> HIDE DEF others
  <2>6. 0 <= others + 0
    BY <2>5
  <2> QED BY <2>4, <2>6 DEF others
<1> QED BY <1>1, <1>2, <1>3 DEF SelectionInv

\* A set loses no more elements than are named.
LEMMA LossIsCounted ==
    ASSUME NEW before \in SUBSET Urls, NEW after \in SUBSET Urls, NEW lost \in SUBSET Urls,
           before \ lost \subseteq after
    PROVE  Cardinality(before) <= Cardinality(after) + Cardinality(lost)
<1> DEFINE left == before \ lost
           gone == before \cap lost
<1>1. /\ IsFiniteSet(before) /\ Cardinality(before) \in Nat
      /\ IsFiniteSet(after) /\ Cardinality(after) \in Nat
      /\ IsFiniteSet(lost) /\ Cardinality(lost) \in Nat
      /\ Cardinality(left) \in Nat /\ Cardinality(gone) \in Nat
  <2>1. left \in SUBSET Urls /\ gone \in SUBSET Urls
    OBVIOUS
  <2> QED BY <2>1, DecidedAreFinite
<1>2. Cardinality(left) = Cardinality(before) - Cardinality(gone)
  BY <1>1, FS_Difference
<1>3. Cardinality(left) <= Cardinality(after) /\ Cardinality(gone) <= Cardinality(lost)
  <2>1. left \in SUBSET after /\ gone \in SUBSET lost
    OBVIOUS
  <2> QED BY <1>1, <2>1, FS_Subset
<1> HIDE DEF left, gone
<1> QED BY <1>1, <1>2, <1>3

\* Each review made while an article waits is a new decision on another one, or is made
\* again.
LEMMA TurnIsPaidFor ==
    ASSUME NEW before \in SUBSET Urls, NEW after \in SUBSET Urls, NEW lost \in SUBSET Urls,
           NEW reviewed \in SUBSET Urls, NEW again \in SUBSET reviewed,
           before \ lost \subseteq after,
           reviewed \ again \subseteq after, (reviewed \ again) \cap before = {},
           NEW waited \in Nat, NEW made \in Nat,
           MaxAiReviews * waited <= Cardinality(before) + made,
           Cardinality(reviewed) >= MaxAiReviews
    PROVE  MaxAiReviews * (waited + 1)
             <= Cardinality(after) + (made + Cardinality(again) + Cardinality(lost))
<1> DEFINE settled == reviewed \ again
           both == before \cup settled
           B == Cardinality(before)
           A == Cardinality(after)
           S == Cardinality(settled)
           R == Cardinality(reviewed)
           G == Cardinality(again)
           lostOnes == Cardinality(lost)
<1>1. /\ IsFiniteSet(before) /\ B \in Nat /\ A \in Nat /\ IsFiniteSet(settled) /\ S \in Nat
      /\ IsFiniteSet(reviewed) /\ R \in Nat /\ IsFiniteSet(again) /\ G \in Nat
      /\ lostOnes \in Nat
  <2>1. settled \in SUBSET Urls /\ again \in SUBSET Urls
    OBVIOUS
  <2> QED BY <2>1, DecidedAreFinite
<1>2. B + S <= A + lostOnes
  <2>1. Cardinality(both) = B + S
    <3>1. Cardinality(both) = B + S - Cardinality(before \cap settled)
      BY <1>1, FS_Union
    <3>2. Cardinality(before \cap settled) = 0
      <4>1. before \cap settled = {}
        OBVIOUS
      <4> QED BY <4>1, FS_EmptySet
    <3> HIDE DEF both, B, S
    <3> QED BY <1>1, <3>1, <3>2
  <2>2. both \in SUBSET Urls /\ both \ lost \subseteq after
    OBVIOUS
  <2> HIDE DEF both
  <2>3. Cardinality(both) <= A + lostOnes
    BY <2>2, LossIsCounted
  <2> QED BY <2>1, <2>3
<1>3. S = R - G
  <2>1. S = R - Cardinality(reviewed \cap again)
    BY <1>1, FS_Difference
  <2>2. reviewed \cap again = again
    OBVIOUS
  <2> QED BY <2>1, <2>2
<1>4. R >= MaxAiReviews
  OBVIOUS
<1>5. MaxAiReviews * waited <= B + made
  OBVIOUS
<1> HIDE DEF settled, B, A, S, R, G, lostOnes
<1>6. MaxAiReviews \in Nat
  BY SelectionAssumption
<1>7. MaxAiReviews * waited \in Nat
      /\ MaxAiReviews * (waited + 1) = MaxAiReviews * waited + MaxAiReviews
  BY <1>6
<1>8. MaxAiReviews * (waited + 1) <= A + (made + G + lostOnes)
  BY <1>1, <1>2, <1>3, <1>4, <1>5, <1>6, <1>7
<1> QED BY <1>8 DEF A, G, lostOnes

LEMMA RefreshStep ==
    ASSUME SelectionInv, NEW failedFeeds, NEW unread, NEW missed, NEW taken,
           NEW saved \in BOOLEAN, NEW final,
           RefreshArticles(SelectForReview(Candidates(failedFeeds), unread, missed),
                           taken, saved, final)
    PROVE  SelectionInv'
<1> DEFINE run == SelectForReview(Candidates(failedFeeds), unread, missed)
           reviewed == ClaimArticlesForAiReview(run.eligible, taken)
           decided == final \cup IF saved THEN run.skipped ELSE {}
           refused == IF saved THEN (run.noThumbnail \cup reviewed) \ final ELSE {}
           again == (reviewed \ final) \cup (reviewed \cap run.missed)
           lost == refused \cap run.missed
<1> USE DEF SelectionInv
<1>1. /\ final \subseteq reviewed \cup (run.noThumbnail \cap run.missed)
      /\ repeats' = repeats + Cardinality(again) + Cardinality(lost)
      /\ verdict' = [u \in Urls |-> IF u \in decided THEN "decided"
                                    ELSE IF u \in refused THEN "no_thumbnail"
                                    ELSE verdict[u]]
      /\ retryIn' = [u \in Urls |-> IF u \in refused THEN RetryAfter
                                    ELSE IF u \in decided THEN 0 ELSE retryIn[u]]
      /\ pageRead' = [u \in Urls |-> IF u \in refused \cup decided
                                     THEN u \in refused \cap run.noThumbnail \cap run.read
                                     ELSE pageRead[u]]
      /\ waits' = [u \in Urls |->
                      waits[u] + IF u \in UrlsIn(run.eligible) \ (reviewed \cup taken)
                                 THEN 1 ELSE 0]
      /\ UNCHANGED <<feedList, pageOf, recency>>
  BY DEF RefreshArticles
<1>2. /\ \A u \in run.noThumbnail \cup run.skipped \cup UrlsIn(run.eligible) :
            u \in Urls /\ (verdict[u] # "decided" \/ u \in run.missed)
      /\ \A u \in run.missed : verdict[u] = "decided"
      /\ \A u \in run.noThumbnail \cap run.read :
            ~PageShows(page(u)) /\ \E item \in Offered : item.url = u /\ ~ItemShows(item)
      /\ \A a \in run.eligible : \E item \in Items : a = ArticleOf(item)
      /\ \A a, b \in run.eligible : a.url = b.url => a = b
      /\ IsFiniteSet(run.eligible)
  BY RefusedHasNone
<1> HIDE DEF run
<1>3. /\ reviewed \subseteq UrlsIn(run.eligible)
      /\ UrlsIn(run.eligible) \ (reviewed \cup taken) # {}
         => Cardinality(reviewed) >= MaxAiReviews
  BY <1>2, ReviewsAreFull
<1> HIDE DEF reviewed
<1>4. \A u \in decided \cup refused : u \in Urls /\ (verdict[u] # "decided" \/ u \in run.missed)
  BY <1>1, <1>2, <1>3
<1>5. /\ Cardinality(again) \in Nat /\ Cardinality(lost) \in Nat
      /\ reviewed \in SUBSET Urls /\ again \in SUBSET reviewed /\ lost \in SUBSET Urls
  <2>1. reviewed \in SUBSET Urls
    BY <1>2, <1>3
  <2>2. again \in SUBSET reviewed /\ lost \in SUBSET Urls
    BY <1>4
  <2>3. again \in SUBSET Urls
    BY <2>1, <2>2
  <2> QED BY <2>1, <2>2, <2>3, DecidedAreFinite
<1>9. reviewed \ again \subseteq decided /\ \A v \in reviewed \ again : verdict[v] # "decided"
  BY <1>2, <1>3
<1> HIDE DEF again, lost, decided, refused
<1>6. SelectionTypes'
  <2>1. verdict' \in [Urls -> {"none", "decided", "no_thumbnail"}]
    BY <1>1 DEF SelectionTypes
  <2>2. retryIn' \in [Urls -> Nat]
    BY <1>1, SelectionAssumption DEF SelectionTypes
  <2>3. pageRead' \in [Urls -> BOOLEAN]
    <3>1. \A u \in Urls : pageRead'[u] \in BOOLEAN
      <4> TAKE u \in Urls
      <4>1. CASE u \in refused \cup decided
        <5>1. pageRead'[u] = (u \in refused \cap run.noThumbnail \cap run.read)
          BY <1>1, <4>1
        <5>2. CASE u \in refused \cap run.noThumbnail \cap run.read
          BY <5>1, <5>2
        <5>3. CASE u \notin refused \cap run.noThumbnail \cap run.read
          BY <5>1, <5>3
        <5> QED BY <5>2, <5>3
      <4>2. CASE u \notin refused \cup decided
        BY <1>1, <4>2 DEF SelectionTypes
      <4> QED BY <4>1, <4>2
    <3> QED BY <1>1, <3>1
  <2>4. waits' \in [Urls -> Nat]
    <3>1. \A u \in Urls : waits[u] \in Nat
      BY DEF SelectionTypes
    <3> QED BY <1>1, <3>1
  <2>5. repeats' \in Nat
    BY <1>1, <1>5 DEF SelectionTypes
  <2> QED BY <1>1, <2>1, <2>2, <2>3, <2>4, <2>5 DEF SelectionTypes
<1>7. NoThumbnailMeansNone'
  <2> SUFFICES ASSUME NEW u \in Urls, verdict'[u] = "no_thumbnail", pageRead'[u]
               PROVE  /\ ~PageShows(page(u))
                      /\ \E f \in DOMAIN FeedLists[feedList] :
                         \E i \in DOMAIN FeedLists[feedList][f] :
                            LET item == FeedLists[feedList][f][i]
                            IN item.url = u /\ ~ItemShows(item)
    BY <1>1 DEF NoThumbnailMeansNone, page
  <2>1. CASE u \in run.noThumbnail \cap run.read
    BY <1>2, <2>1 DEF Offered
  <2>2. CASE u \notin run.noThumbnail \cap run.read
    <3>1. u \notin refused \cup decided
      BY <1>1, <2>2
    <3>2. verdict[u] = "no_thumbnail" /\ pageRead[u]
      BY <1>1, <3>1
    <3> QED BY <3>2 DEF NoThumbnailMeansNone
  <2> QED BY <2>1, <2>2
<1>8. TurnsGoToOthersOnce'
  <2> SUFFICES ASSUME NEW u \in Urls
               PROVE  MaxAiReviews * waits'[u] <= Cardinality(Decided' \ {u}) + repeats'
    BY DEF TurnsGoToOthersOnce
  <2> DEFINE others == Decided \ {u}
             after == Decided' \ {u}
  <2>1. MaxAiReviews * waits[u] <= Cardinality(others) + repeats
    BY DEF TurnsGoToOthersOnce
  <2>2. waits[u] \in Nat /\ repeats \in Nat
    BY DEF SelectionTypes
  <2>3. others \in SUBSET Urls /\ after \in SUBSET Urls /\ others \ lost \subseteq after
    <3>1. Decided' = {v \in Urls : verdict'[v] = "decided"}
      BY DEF Decided
    <3>2. \A v \in Decided \ lost : v \in Urls /\ verdict'[v] = "decided"
      BY <1>1, <1>4 DEF Decided, lost
    <3> QED BY <3>1, <3>2 DEF Decided
  <2>4. u \notin reviewed => reviewed \ again \subseteq after
    BY <1>1, <1>4, <1>9 DEF Decided
  <2>5. (reviewed \ again) \cap others = {}
    BY <1>9 DEF Decided
  <2> HIDE DEF others, after
  <2>6. CASE u \in UrlsIn(run.eligible) \ (reviewed \cup taken)
    <3>1. waits'[u] = waits[u] + 1 /\ u \notin reviewed /\ Cardinality(reviewed) >= MaxAiReviews
      BY <1>1, <1>3, <2>6
    <3>2. MaxAiReviews * (waits[u] + 1)
             <= Cardinality(after) + (repeats + Cardinality(again) + Cardinality(lost))
      BY <1>5, <2>1, <2>2, <2>3, <2>4, <2>5, <3>1, TurnIsPaidFor
    <3> QED BY <1>1, <3>1, <3>2 DEF after
  <2>7. CASE u \notin UrlsIn(run.eligible) \ (reviewed \cup taken)
    <3>1. waits'[u] = waits[u]
      BY <1>1, <2>2, <2>7
    <3>2. /\ Cardinality(others) \in Nat /\ Cardinality(after) \in Nat
          /\ Cardinality(others) <= Cardinality(after) + Cardinality(lost)
      BY <1>5, <2>3, DecidedAreFinite, LossIsCounted
    <3>3. MaxAiReviews * waits[u] \in Nat
      BY <2>2, SelectionAssumption
    <3> QED BY <1>1, <1>5, <2>1, <2>2, <3>1, <3>2, <3>3 DEF after
  <2> QED BY <2>6, <2>7
<1> QED BY <1>6, <1>7, <1>8

LEMMA SelectionStep ==
    ASSUME SelectionInv, [SelectionNext]_selectionState
    PROVE  SelectionInv'
<1> USE DEF SelectionInv
<1>1. CASE Refreshes
  <2>1. PICK failedFeeds \in SUBSET DOMAIN feeds :
            \E unread, missed, taken, final : \E saved \in BOOLEAN :
               RefreshArticles(SelectForReview(Candidates(failedFeeds), unread, missed),
                               taken, saved, final)
    <3>1. PICK candidates \in {Candidates(failedFeeds) : failedFeeds \in SUBSET DOMAIN feeds} :
             \E unread, missed, taken, final : \E saved \in BOOLEAN :
                RefreshArticles(SelectForReview(candidates, unread, missed), taken, saved, final)
      <4>1. PICK candidates \in {Candidates(failedFeeds) : failedFeeds \in SUBSET DOMAIN feeds} :
               \E run \in {SelectForReview(candidates, unread, missed) :
                            unread \in SUBSET UrlsIn(Without(candidates)),
                            missed \in SUBSET {u \in UrlsIn(candidates) : Processed(u)}} :
                  \E taken, final : \E saved \in BOOLEAN : RefreshArticles(run, taken, saved, final)
        BY <1>1 DEF Refreshes
      <4>2. PICK unread, missed :
               \E taken, final : \E saved \in BOOLEAN :
                  RefreshArticles(SelectForReview(candidates, unread, missed), taken, saved, final)
        BY <4>1
      <4> QED BY <4>2
    <3>2. PICK failedFeeds \in SUBSET DOMAIN feeds : candidates = Candidates(failedFeeds)
      BY <3>1
    <3> QED BY <3>1, <3>2
  <2> QED BY <2>1, RefreshStep
<1>2. ASSUME UNCHANGED <<feedList, pageOf, verdict, pageRead, waits, repeats>>,
             recency' \in [Urls -> 0..3], retryIn' \in [Urls -> Nat]
      PROVE  SelectionInv'
  BY <1>2 DEF SelectionTypes, NoThumbnailMeansNone, TurnsGoToOthersOnce, Decided, page
<1>3. CASE Hour
  BY <1>2, <1>3 DEF Hour, SelectionTypes
<1>4. ASSUME NEW u \in Urls, GetsOld(u) PROVE SelectionInv'
  <2>1. recency' \in [Urls -> 0..3]
    BY <1>4 DEF GetsOld, SelectionTypes
  <2> QED BY <1>2, <1>4, <2>1 DEF GetsOld, SelectionTypes
<1>5. CASE UNCHANGED selectionState
  BY <1>2, <1>5 DEF selectionState, SelectionTypes
<1> QED BY <1>1, <1>3, <1>4, <1>5 DEF SelectionNext

\* An article that is refused for want of an image after its page was read has none
\* there, nor in an item, for any feeds and pages (extractRssImageUrl,
\* extractArticlePageImageFromHtml, hydrateMissingArticleImages).
THEOREM RefusedHaveNoImage == SelectionSpec => []NoThumbnailMeansNone
<1>1. SelectionInv => NoThumbnailMeansNone
  BY DEF SelectionInv
<1> QED BY <1>1, SelectionStart, SelectionStep, PTL DEF SelectionSpec

\* An article that had its image and no review lost its turns to decisions on others, each
\* counted once, and to reviews that are made again because a lookup missed the decision,
\* its save failed or its reason was a missing image, for any feeds, pages, limits and
\* claims (sortArticlesForReview, claimArticlesForAiReviewWithRedis,
\* shouldTreatReviewedRowAsProcessed).
THEOREM TurnsAreNotWasted == SelectionSpec => []TurnsGoToOthersOnce
<1>1. SelectionInv => TurnsGoToOthersOnce
  BY DEF SelectionInv
<1> QED BY <1>1, SelectionStart, SelectionStep, PTL DEF SelectionSpec
=============================================================================
