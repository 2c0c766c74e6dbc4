---------------------------- MODULE PublicFeedProofs ----------------------------
(***************************************************************************)
(* That readers are never given less than the snapshot claims to contain,  *)
(* and what a refresh's report says of the feed that readers get, for any  *)
(* number of shards, languages, caches, contents and failed calls.         *)
(***************************************************************************)
EXTENDS PublicFeed, TLAPS

FeedTypes ==
    /\ live \in Nat
    /\ snapshot \in Nat
    /\ held \in [LanguageCodes -> SUBSET [rows : Nat, refreshedAt : Nat]]
    /\ refreshedAt \in [FeedShards -> Nat]
    /\ contents \in [FeedShards -> Nat]

\* The snapshot in the database is no older than any refresh under way, and the rows a
\* refresh is about to write no older than what it was for.
RefreshInv ==
    /\ snapshot <= live
    /\ \A s \in FeedShards :
          /\ refreshedAt[s] <= snapshot
          /\ feedPc[s] = "write" => contents[s] >= refreshedAt[s]

PcTyped == \E S : feedPc \in [FeedShards -> S]

HeldContain == \A l \in LanguageCodes : \A e \in held[l] : e.rows >= e.refreshedAt

FeedInv == FeedTypes /\ RefreshInv /\ PcTyped /\ HeldContain

LEMMA FeedStart == ASSUME FeedInit PROVE FeedInv
<1> USE FeedAssumption DEF FeedInit
<1>1. FeedTypes /\ PcTyped
  <2>1. feedPc \in [FeedShards -> {"idle"}]
    OBVIOUS
  <2> QED BY <2>1 DEF FeedTypes, PcTyped
<1>2. RefreshInv
  BY DEF RefreshInv
<1>3. HeldContain
  BY DEF HeldContain
<1> QED BY <1>1, <1>2, <1>3 DEF FeedInv

\* What the ends of a refresh, of a language and of the copies have in common: the
\* locals of other shards stay, and none of its own gains anything.
LocalsKept(s) ==
    /\ refreshedAt' \in {refreshedAt, [refreshedAt EXCEPT ![s] = 0]}
    /\ contents' \in {contents, [contents EXCEPT ![s] = 0]}
    /\ \E step : step # "write" /\ feedPc' = [feedPc EXCEPT ![s] = step]

LEMMA FinishKeeps ==
    ASSUME NEW s \in FeedShards, NEW ok, Finish(s, ok) PROVE LocalsKept(s)
BY DEF Finish, LocalsKept

LEMMA NextLanguageKeeps ==
    ASSUME NEW s \in FeedShards, NEW ok, NextLanguage(s, ok) PROVE LocalsKept(s)
<1> DEFINE last == place[s] = FeedLanguages
<1>1. CASE last /\ ~(publishOk[s] /\ ok)
  BY <1>1, FinishKeeps DEF NextLanguage
<1>2. CASE ~(last /\ ~(publishOk[s] /\ ok))
  <2>1. contents' = [contents EXCEPT ![s] = 0] /\ refreshedAt' = refreshedAt
    BY <1>2 DEF NextLanguage
  <2>2. \/ feedPc' = [feedPc EXCEPT ![s] = "invalidate"]
        \/ feedPc' = [feedPc EXCEPT ![s] = "rows"]
    BY <1>2 DEF NextLanguage, ToCaches
  <2> QED BY <2>1, <2>2 DEF LocalsKept
<1> QED BY <1>1, <1>2

\* A step that keeps the feed and the snapshots, but for one it may write.
LEMMA LocalStep ==
    ASSUME FeedInv, NEW s \in FeedShards, LocalsKept(s), UNCHANGED <<live, snapshot>>,
           \/ held' = held
           \/ \E l \in LanguageCodes, n \in Nat, m \in Nat :
                 /\ n >= m
                 /\ held' = [held EXCEPT ![l] = @ \cup {[rows |-> n, refreshedAt |-> m]}]
    PROVE  FeedInv'
<1> USE DEF FeedInv, FeedTypes
<1>1. refreshedAt' \in [FeedShards -> Nat] /\ contents' \in [FeedShards -> Nat]
  BY DEF LocalsKept
<1>2. \A t \in FeedShards : refreshedAt'[t] <= refreshedAt[t]
  BY DEF LocalsKept
<1>3. PICK step : step # "write" /\ feedPc' = [feedPc EXCEPT ![s] = step]
  BY DEF LocalsKept
<1>4. \A t \in FeedShards : feedPc'[t] = "write" => t # s /\ feedPc[t] = "write"
  BY <1>3 DEF PcTyped
<1>5. \A t \in FeedShards \ {s} : refreshedAt'[t] = refreshedAt[t] /\ contents'[t] = contents[t]
  BY DEF LocalsKept
<1>6. \A t \in FeedShards : refreshedAt'[t] <= snapshot
  BY <1>1, <1>2 DEF RefreshInv
<1>7. RefreshInv'
  BY <1>4, <1>5, <1>6 DEF RefreshInv
<1>8. PcTyped'
  <2>1. PICK S : feedPc \in [FeedShards -> S]
    BY DEF PcTyped
  <2>2. feedPc' \in [FeedShards -> S \cup {step}]
    BY <1>3, <2>1
  <2> QED BY <2>2 DEF PcTyped
<1>9. held' \in [LanguageCodes -> SUBSET [rows : Nat, refreshedAt : Nat]] /\ HeldContain'
  <2>1. CASE held' = held
    BY <2>1 DEF HeldContain
  <2>2. CASE held' # held
    <3>1. PICK l \in LanguageCodes, n \in Nat, m \in Nat :
             /\ n >= m
             /\ held' = [held EXCEPT ![l] = @ \cup {[rows |-> n, refreshedAt |-> m]}]
      BY <2>2
    <3>2. held' \in [LanguageCodes -> SUBSET [rows : Nat, refreshedAt : Nat]]
      BY <3>1
    <3>3. \A k \in LanguageCodes : \A e \in held'[k] :
             e \in held[k] \/ e = [rows |-> n, refreshedAt |-> m]
      BY <3>1
    <3>4. \A k \in LanguageCodes : \A e \in held'[k] : e.rows >= e.refreshedAt
      BY <3>1, <3>3 DEF HeldContain
    <3> QED BY <3>2, <3>4 DEF HeldContain
  <2> QED BY <2>1, <2>2
<1> QED BY <1>1, <1>7, <1>8, <1>9

LEMMA FeedStep == ASSUME FeedInv, [FeedNext]_feedVars PROVE FeedInv'
<1> USE FeedAssumption
<1>1. ASSUME NEW s \in FeedShards, NEW changed \in BOOLEAN, NEW off \in BOOLEAN,
             PublishArticlesInFeed(s, changed, off)
      PROVE  FeedInv'
  <2>1. UNCHANGED <<snapshot, held, refreshedAt, contents>> /\ live' \in {live, live + 1}
    BY <1>1 DEF PublishArticlesInFeed
  <2>2. feedPc' = feedPc \/ feedPc' = [feedPc EXCEPT ![s] = "database"]
    BY <1>1 DEF PublishArticlesInFeed
  <2>3. PICK S : feedPc \in [FeedShards -> S]
    BY DEF FeedInv, PcTyped
  <2>4. feedPc' \in [FeedShards -> S \cup {"database"}]
    BY <2>2, <2>3
  <2>5. \A t \in FeedShards : feedPc'[t] = "write" => feedPc[t] = "write"
    BY <2>2, <2>3
  <2>6. FeedTypes' /\ RefreshInv'
    BY <2>1, <2>5 DEF FeedInv, FeedTypes, RefreshInv
  <2> QED BY <2>1, <2>4, <2>6 DEF FeedInv, PcTyped, HeldContain
<1>2. ASSUME NEW s \in FeedShards, NEW outcome \in Outcomes, NEW on \in BOOLEAN,
             RefreshDatabaseSnapshot(s, outcome, on)
      PROVE  FeedInv'
  <2>1. UNCHANGED <<live, held>> /\ snapshot' \in {snapshot, live}
    BY <1>2 DEF RefreshDatabaseSnapshot
  <2>2. snapshot' \in Nat /\ snapshot <= snapshot' /\ snapshot' <= live
    BY <2>1 DEF FeedInv, FeedTypes, RefreshInv
  <2>3. PICK S : feedPc \in [FeedShards -> S]
    BY DEF FeedInv, PcTyped
  <2>4. CASE LocalsKept(s)
    <3>1. PICK step : step # "write" /\ feedPc' = [feedPc EXCEPT ![s] = step]
      BY <2>4 DEF LocalsKept
    <3>2. feedPc' \in [FeedShards -> S \cup {step}]
      BY <2>3, <3>1
    <3>3. \A t \in FeedShards : feedPc'[t] = "write" => t # s /\ feedPc[t] = "write"
      BY <2>3, <3>1
    <3>4. refreshedAt' \in [FeedShards -> Nat] /\ contents' \in [FeedShards -> Nat]
      BY <2>4 DEF LocalsKept, FeedInv, FeedTypes
    <3>5. \A t \in FeedShards : refreshedAt'[t] <= refreshedAt[t]
      BY <2>4 DEF LocalsKept, FeedInv, FeedTypes
    <3>6. \A t \in FeedShards : refreshedAt'[t] <= snapshot'
      BY <2>2, <3>4, <3>5 DEF FeedInv, FeedTypes, RefreshInv
    <3>7. \A t \in FeedShards \ {s} : refreshedAt'[t] = refreshedAt[t]
                                      /\ contents'[t] = contents[t]
      BY <2>4 DEF LocalsKept, FeedInv, FeedTypes
    <3>8. FeedTypes'
      BY <2>1, <2>2, <3>4 DEF FeedInv, FeedTypes
    <3>9. RefreshInv'
      BY <2>1, <2>2, <3>3, <3>6, <3>7 DEF FeedInv, RefreshInv
    <3> QED BY <2>1, <3>2, <3>8, <3>9 DEF FeedInv, PcTyped, HeldContain
  <2>5. CASE ~LocalsKept(s)
    <3>1. outcome = "answered" /\ on
      BY <1>2, <2>5, FinishKeeps DEF RefreshDatabaseSnapshot, ToCaches, LocalsKept
    <3>2. /\ snapshot' = live
          /\ refreshedAt' = [refreshedAt EXCEPT ![s] = live]
          /\ feedPc' = [feedPc EXCEPT ![s] = "rows"]
          /\ contents' = contents
      BY <1>2, <3>1 DEF RefreshDatabaseSnapshot
    <3>3. feedPc' \in [FeedShards -> S \cup {"rows"}]
      BY <2>3, <3>2
    <3>4. \A t \in FeedShards : feedPc'[t] = "write" => t # s /\ feedPc[t] = "write"
      BY <2>3, <3>2
    <3>5. FeedTypes'
      BY <2>1, <2>2, <3>2 DEF FeedInv, FeedTypes
    <3>6. \A t \in FeedShards : refreshedAt'[t] <= live
      BY <3>2 DEF FeedInv, FeedTypes, RefreshInv
    <3>7. RefreshInv'
      BY <2>1, <2>2, <3>2, <3>4, <3>6 DEF FeedInv, FeedTypes, RefreshInv
    <3> QED BY <2>1, <3>3, <3>5, <3>7 DEF FeedInv, PcTyped, HeldContain
  <2> QED BY <2>4, <2>5
<1>3. ASSUME NEW s \in FeedShards, NEW answered \in BOOLEAN, ReadSnapshotRows(s, answered)
      PROVE  FeedInv'
  <2>1. UNCHANGED <<live, snapshot, held>>
    BY <1>3 DEF ReadSnapshotRows, feedStore
  <2>2. CASE ~answered
    BY <1>3, <2>1, <2>2, NextLanguageKeeps, LocalStep DEF ReadSnapshotRows
  <2>3. CASE answered
    <3>1. /\ contents' = [contents EXCEPT ![s] = snapshot]
          /\ feedPc' = [feedPc EXCEPT ![s] = "write"]
          /\ refreshedAt' = refreshedAt
      BY <1>3, <2>3 DEF ReadSnapshotRows
    <3>2. PICK S : feedPc \in [FeedShards -> S]
      BY DEF FeedInv, PcTyped
    <3>3. feedPc' \in [FeedShards -> S \cup {"write"}]
      BY <3>1, <3>2
    <3>4. \A t \in FeedShards : feedPc'[t] = "write" => t = s \/ feedPc[t] = "write"
      BY <3>1, <3>2
    <3>5. FeedTypes'
      BY <2>1, <3>1 DEF FeedInv, FeedTypes
    <3>6. RefreshInv'
      BY <2>1, <3>1, <3>4 DEF FeedInv, FeedTypes, RefreshInv
    <3> QED BY <2>1, <3>3, <3>5, <3>6 DEF FeedInv, PcTyped, HeldContain
  <2> QED BY <2>2, <2>3
<1>4. ASSUME NEW s \in FeedShards, NEW skipped \in BOOLEAN, NEW outcome \in Outcomes,
             WriteEdgeSnapshot(s, skipped, outcome)
      PROVE  FeedInv'
  <2>1. feedPc[s] = "write" /\ UNCHANGED <<live, snapshot>> /\ LocalsKept(s)
    BY <1>4, NextLanguageKeeps DEF WriteEdgeSnapshot
  <2>2. contents[s] \in Nat /\ refreshedAt[s] \in Nat /\ contents[s] >= refreshedAt[s]
    BY <2>1 DEF FeedInv, FeedTypes, RefreshInv
  <2>3. \/ held' = held
        \/ held' = [held EXCEPT ![place[s]] =
                      @ \cup {[rows |-> contents[s], refreshedAt |-> refreshedAt[s]]}]
    BY <1>4 DEF WriteEdgeSnapshot, Named
  <2>4. CASE place[s] \in LanguageCodes
    BY <2>1, <2>2, <2>3, <2>4, LocalStep
  <2>5. CASE place[s] \notin LanguageCodes
    <3>1. held' = held
      BY <2>3, <2>5 DEF FeedInv, FeedTypes
    <3> QED BY <2>1, <3>1, LocalStep
  <2> QED BY <2>4, <2>5
<1>5. ASSUME NEW s \in FeedShards, NEW left \in SUBSET Caches, InvalidateCaches(s, left)
      PROVE  FeedInv'
  <2>1. UNCHANGED <<live, snapshot, held>>
    BY <1>5 DEF InvalidateCaches, feedStore
  <2>2. LocalsKept(s) \/ UNCHANGED <<feedPc, refreshedAt, contents>>
    BY <1>5, FinishKeeps DEF InvalidateCaches
  <2>3. CASE LocalsKept(s)
    BY <2>1, <2>3, LocalStep
  <2>4. CASE UNCHANGED <<feedPc, refreshedAt, contents>>
    BY <2>1, <2>4 DEF FeedInv, FeedTypes, RefreshInv, PcTyped, HeldContain
  <2> QED BY <2>2, <2>3, <2>4
<1>6. ASSUME NEW s \in FeedShards, FeedCutOff(s) PROVE FeedInv'
  BY <1>6, FinishKeeps, LocalStep DEF FeedCutOff, feedStore
<1>7. ASSUME UNCHANGED feedVars PROVE FeedInv'
  BY <1>7 DEF feedVars, feedState, feedStore, feedLocals, FeedInv, FeedTypes, RefreshInv, PcTyped,
     HeldContain
<1> QED BY <1>1, <1>2, <1>3, <1>4, <1>5, <1>6, <1>7 DEF FeedNext

\* Readers are given articles at least as new as the refresh of the database that the
\* snapshot names, whichever shards overwrite each other, skip what they take for
\* unchanged or lose an answer, and however stale their reads are
\* (publishPublicFeedEdgeSnapshotToKv, servePublicFeedEdgeSnapshot).
THEOREM SnapshotsKeepTheirClaim == FeedSpec => []NamedRefreshIsContained
<1>1. FeedInit /\ faults = 0 => FeedInv
  BY FeedStart
<1>2. FeedInv /\ [FeedNext]_feedVars => FeedInv'
  BY FeedStep
<1>3. FeedInv => NamedRefreshIsContained
  <2> SUFFICES ASSUME FeedInv, NEW l \in LanguageCodes, NEW answer \in Served(l),
                      answer.status = "hit"
               PROVE  answer.articles >= answer.refreshedAt
    BY DEF NamedRefreshIsContained
  <2>1. PICK found \in SnapshotFound(l) :
           answer = IF found = <<>> THEN [status |-> "miss", articles |-> 0, refreshedAt |-> 0]
                    ELSE [status |-> "hit", articles |-> found[1].rows,
                          refreshedAt |-> found[1].refreshedAt]
    BY DEF Served
  <2>2. found # <<>>
    BY <2>1
  <2>3. PICK e \in held[l] : found = <<e>>
    BY <2>2 DEF SnapshotFound, MayRead
  <2> QED BY <2>1, <2>2, <2>3 DEF FeedInv, HeldContain
<1> QED BY <1>1, <1>2, <1>3, PTL DEF FeedSpec

-----------------------------------------------------------------------------
(* That a lag is reported.  Only refreshes that nobody has disturbed since  *)
(* the newest content was published have to be followed.                    *)

FeedSteps == {"idle", "database", "rows", "write", "invalidate"}

LagTypes ==
    /\ live > 0
    /\ edge \in [LanguageCodes -> [rows : Nat, refreshedAt : Nat]]
    /\ feedPc \in [FeedShards -> FeedSteps]
    /\ place \in [FeedShards -> Nat \ {0}]
    /\ unasked \in [FeedShards -> SUBSET Caches]
    /\ publishOk \in [FeedShards -> BOOLEAN]
    /\ stale \in SUBSET Caches
    /\ overlapped \in BOOLEAN

\* Nothing that was copied, or is about to be, is newer than the database's snapshot.
NothingNewer ==
    /\ \A s \in FeedShards : contents[s] <= snapshot
    /\ \A l \in LanguageCodes : \A e \in held[l] : e.rows <= snapshot

\* Before it has refreshed the database a refresh has nothing.
NothingYet ==
    \A s \in FeedShards : feedPc[s] \in {"idle", "database"} =>
        refreshedAt[s] = 0 /\ place[s] = 1 /\ publishOk[s]

Copied(l) == edge[l].rows = live

\* How far a refresh has brought the copies that nobody else has touched.
FollowsLive(s) ==
    /\ feedPc[s] \in {"rows", "write"} =>
           /\ refreshedAt[s] = live /\ snapshot = live
           /\ place[s] \in LanguageCodes
           /\ publishOk[s] => \A l \in LanguageCodes : l < place[s] => Copied(l)
    /\ feedPc[s] = "write" => contents[s] = live
    /\ feedPc[s] = "invalidate" =>
           /\ snapshot = live
           /\ stale \subseteq unasked[s]
           /\ refreshedAt[s] > 0 => \A l \in LanguageCodes : Copied(l)

OneUnderWay == \A s, t \in FeedShards : feedPc[s] # "idle" /\ feedPc[t] # "idle" => s = t

\* A key that has held the newest content holds it still.
KeysKeep == \A l \in LanguageCodes : \A e \in held[l] : e.rows = live => Copied(l)

\* Since the newest content was published refreshes have come one after another.
Undisturbed ==
    /\ OneUnderWay
    /\ KeysKeep
    /\ \A s \in FeedShards : FollowsLive(s)

LagInv ==
    /\ FeedInv
    /\ LagTypes
    /\ NothingNewer
    /\ NothingYet
    /\ ~overlapped => Undisturbed
    /\ LagIsReported

LEMMA LagStart == ASSUME FeedInit PROVE LagInv
<1> USE FeedAssumption DEF FeedInit
<1>1. LagTypes
  <2>1. edge \in [LanguageCodes -> [rows : Nat, refreshedAt : Nat]]
    OBVIOUS
  <2>2. feedPc \in [FeedShards -> FeedSteps] /\ place \in [FeedShards -> Nat \ {0}]
    BY DEF FeedSteps
  <2>3. unasked \in [FeedShards -> SUBSET Caches] /\ publishOk \in [FeedShards -> BOOLEAN]
    OBVIOUS
  <2>4. live > 0 /\ stale \in SUBSET Caches
    OBVIOUS
  <2>5. overlapped \in BOOLEAN
    OBVIOUS
  <2> QED BY <2>1, <2>2, <2>3, <2>4, <2>5 DEF LagTypes
<1>2. NothingNewer /\ NothingYet
  BY DEF NothingNewer, NothingYet
<1>3. Undisturbed
  BY DEF Undisturbed, OneUnderWay, KeysKeep, FollowsLive
<1>4. LagIsReported
  BY DEF LagIsReported, NotOk
<1> QED BY <1>1, <1>2, <1>3, <1>4, FeedStart DEF LagInv

\* What becomes of a refresh that ends, or goes on to its next language or to the caches.
Ended(s) ==
    /\ feedPc' = [feedPc EXCEPT ![s] = "idle"]
    /\ place' = [place EXCEPT ![s] = 1]
    /\ unasked' = [unasked EXCEPT ![s] = {}]
    /\ refreshedAt' = [refreshedAt EXCEPT ![s] = 0]
    /\ contents' = [contents EXCEPT ![s] = 0]
    /\ publishOk' = [publishOk EXCEPT ![s] = TRUE]

WentOn(s, ok) ==
    /\ contents' = [contents EXCEPT ![s] = 0]
    /\ publishOk' = [publishOk EXCEPT ![s] = publishOk[s] /\ ok]
    /\ UNCHANGED <<refreshedAt, report>>

LEMMA LanguageCases ==
    ASSUME NEW s \in FeedShards, NEW ok \in BOOLEAN, NextLanguage(s, ok)
    PROVE  \/ Ended(s) /\ report' = NotOk
           \/ /\ WentOn(s, ok)
              /\ place[s] = FeedLanguages /\ publishOk[s] /\ ok
              /\ feedPc' = [feedPc EXCEPT ![s] = "invalidate"]
              /\ place' = [place EXCEPT ![s] = 1]
              /\ unasked' = [unasked EXCEPT ![s] = Caches]
           \/ /\ WentOn(s, ok)
              /\ place[s] # FeedLanguages
              /\ feedPc' = [feedPc EXCEPT ![s] = "rows"]
              /\ place' = [place EXCEPT ![s] = @ + 1]
              /\ unasked' = unasked
<1>1. CASE place[s] = FeedLanguages /\ ~(publishOk[s] /\ ok)
  BY <1>1 DEF NextLanguage, Finish, Ended
<1>2. CASE place[s] = FeedLanguages /\ publishOk[s] /\ ok
  BY <1>2 DEF NextLanguage, ToCaches, WentOn
<1>3. CASE place[s] # FeedLanguages
  BY <1>3 DEF NextLanguage, WentOn
<1> QED BY <1>1, <1>2, <1>3

LEMMA NotEnded ==
    ASSUME NEW s \in FeedShards, NEW ok \in BOOLEAN, NextLanguage(s, ok), ~Ended(s)
    PROVE  /\ \/ feedPc' = [feedPc EXCEPT ![s] = "invalidate"]
              \/ feedPc' = [feedPc EXCEPT ![s] = "rows"]
           /\ \/ place' = [place EXCEPT ![s] = 1]
              \/ place' = [place EXCEPT ![s] = @ + 1]
           /\ WentOn(s, ok)
BY LanguageCases

LEMMA LagTypesKept == ASSUME LagInv, [FeedNext]_feedVars PROVE LagTypes'
<1> USE FeedAssumption DEF LagInv, LagTypes, FeedSteps
<1>1. ASSUME NEW s \in FeedShards, Ended(s), live' = live, edge' = edge, stale' \in SUBSET Caches,
             overlapped' = overlapped
      PROVE  LagTypes'
  BY <1>1 DEF Ended
<1>2. ASSUME NEW s \in FeedShards, NEW ok \in BOOLEAN, NextLanguage(s, ok), live' = live,
             edge' \in [LanguageCodes -> [rows : Nat, refreshedAt : Nat]],
             stale' \in SUBSET Caches, overlapped' = overlapped
      PROVE  LagTypes'
  <2>1. feedPc' \in [FeedShards -> FeedSteps]
    BY <1>2, LanguageCases DEF Ended
  <2>2. place' \in [FeedShards -> Nat \ {0}]
    <3>1. \/ place' = [place EXCEPT ![s] = 1]
          \/ place' = [place EXCEPT ![s] = @ + 1]
      BY <1>2, LanguageCases DEF Ended
    <3>2. place[s] + 1 \in Nat \ {0}
      OBVIOUS
    <3> QED BY <3>1, <3>2
  <2>3. unasked' \in [FeedShards -> SUBSET Caches]
    BY <1>2, LanguageCases DEF Ended
  <2>4. publishOk' \in [FeedShards -> BOOLEAN]
    BY <1>2, LanguageCases DEF Ended, WentOn
  <2> QED BY <1>2, <2>1, <2>2, <2>3, <2>4
<1>3. ASSUME NEW s \in FeedShards, NEW changed \in BOOLEAN, NEW off \in BOOLEAN,
             PublishArticlesInFeed(s, changed, off)
      PROVE  LagTypes'
  <2>1. live' > 0
    BY <1>3 DEF PublishArticlesInFeed, FeedInv, FeedTypes
  <2>2. feedPc' \in [FeedShards -> FeedSteps] /\ overlapped' \in BOOLEAN
    BY <1>3 DEF PublishArticlesInFeed, Idle
  <2> QED BY <1>3, <2>1, <2>2 DEF PublishArticlesInFeed
<1>4. ASSUME NEW s \in FeedShards, NEW outcome \in Outcomes, NEW on \in BOOLEAN,
             RefreshDatabaseSnapshot(s, outcome, on)
      PROVE  LagTypes'
  <2>1. UNCHANGED <<live, edge, overlapped>> /\ stale' \in SUBSET Caches
    BY <1>4 DEF RefreshDatabaseSnapshot
  <2>2. CASE outcome # "answered"
    BY <1>1, <1>4, <2>1, <2>2 DEF RefreshDatabaseSnapshot, Finish, Ended
  <2>3. CASE outcome = "answered" /\ on
    BY <1>4, <2>1, <2>3 DEF RefreshDatabaseSnapshot
  <2>4. CASE outcome = "answered" /\ ~on
    BY <1>4, <2>1, <2>4 DEF RefreshDatabaseSnapshot, ToCaches
  <2> QED BY <2>2, <2>3, <2>4
<1>5. ASSUME NEW s \in FeedShards, NEW answered \in BOOLEAN, ReadSnapshotRows(s, answered)
      PROVE  LagTypes'
  <2>1. UNCHANGED <<live, edge, stale, overlapped>>
    BY <1>5 DEF ReadSnapshotRows, feedStore
  <2>2. CASE ~answered
    BY <1>2, <1>5, <2>1, <2>2 DEF ReadSnapshotRows
  <2>3. CASE answered
    BY <1>5, <2>1, <2>3 DEF ReadSnapshotRows
  <2> QED BY <2>2, <2>3
<1>6. ASSUME NEW s \in FeedShards, NEW skipped \in BOOLEAN, NEW outcome \in Outcomes,
             WriteEdgeSnapshot(s, skipped, outcome)
      PROVE  LagTypes'
  <2>1. UNCHANGED <<live, overlapped>> /\ stale' \in SUBSET Caches
    BY <1>6 DEF WriteEdgeSnapshot
  <2>2. contents[s] \in Nat /\ refreshedAt[s] \in Nat
    BY DEF FeedInv, FeedTypes
  <2>3. edge' \in [LanguageCodes -> [rows : Nat, refreshedAt : Nat]]
    BY <1>6, <2>2 DEF WriteEdgeSnapshot, Named
  <2>4. NextLanguage(s, outcome = "answered")
    BY <1>6 DEF WriteEdgeSnapshot
  <2> QED BY <1>2, <2>1, <2>3, <2>4
<1>7. ASSUME NEW s \in FeedShards, NEW left \in SUBSET Caches, InvalidateCaches(s, left)
      PROVE  LagTypes'
  <2>1. UNCHANGED <<live, edge, overlapped>> /\ stale' \in SUBSET Caches
    BY <1>7 DEF InvalidateCaches, feedStore
  <2>2. CASE left # {} /\ ~LastAttempt(s)
    BY <1>7, <2>1, <2>2 DEF InvalidateCaches
  <2>3. CASE ~(left # {} /\ ~LastAttempt(s))
    BY <1>1, <1>7, <2>1, <2>3 DEF InvalidateCaches, Finish, Ended
  <2> QED BY <2>2, <2>3
<1>8. ASSUME NEW s \in FeedShards, FeedCutOff(s) PROVE LagTypes'
  BY <1>1, <1>8 DEF FeedCutOff, Finish, Ended, feedStore
<1>9. CASE UNCHANGED feedVars
  BY <1>9 DEF feedVars, feedState, feedStore, feedLocals, feedHistory
<1> QED BY <1>3, <1>4, <1>5, <1>6, <1>7, <1>8, <1>9 DEF FeedNext

LEMMA NothingNewerKept == ASSUME LagInv, [FeedNext]_feedVars PROVE NothingNewer'
<1> DEFINE Fresh == \A t \in FeedShards : contents'[t] \in {contents[t], 0, snapshot}
           Known == \A l \in LanguageCodes : \A e \in held'[l] :
                       e \in held[l] \/ \E t \in FeedShards : e.rows = contents[t]
<1> USE FeedAssumption DEF LagInv, FeedInv, FeedTypes
<1>1. ASSUME Fresh, Known, snapshot' \in {snapshot, live} PROVE NothingNewer'
  <2>1. snapshot' \in Nat /\ snapshot <= snapshot'
    BY <1>1 DEF RefreshInv
  <2>2. \A t \in FeedShards : contents'[t] \in Nat /\ contents'[t] <= snapshot
    BY <1>1 DEF NothingNewer
  <2>3. \A l \in LanguageCodes : \A e \in held'[l] : e.rows \in Nat /\ e.rows <= snapshot
    BY <1>1 DEF NothingNewer
  <2>4. \A t \in FeedShards : contents'[t] <= snapshot'
    BY <2>1, <2>2
  <2>5. \A l \in LanguageCodes : \A e \in held'[l] : e.rows <= snapshot'
    BY <2>1, <2>3
  <2> QED BY <2>4, <2>5 DEF NothingNewer
<1>2. ASSUME NEW s \in FeedShards, LocalsKept(s) PROVE Fresh
  BY <1>2 DEF LocalsKept
<1>3. ASSUME NEW s \in FeedShards, NEW changed \in BOOLEAN, NEW off \in BOOLEAN,
             PublishArticlesInFeed(s, changed, off)
      PROVE  NothingNewer'
  BY <1>1, <1>3 DEF PublishArticlesInFeed
<1>4. ASSUME NEW s \in FeedShards, NEW outcome \in Outcomes, NEW on \in BOOLEAN,
             RefreshDatabaseSnapshot(s, outcome, on)
      PROVE  NothingNewer'
  <2>1. held' = held /\ snapshot' \in {snapshot, live}
    BY <1>4 DEF RefreshDatabaseSnapshot
  <2>2. Fresh
    BY <1>4 DEF RefreshDatabaseSnapshot, Finish
  <2> QED BY <1>1, <2>1, <2>2
<1>5. ASSUME NEW s \in FeedShards, NEW answered \in BOOLEAN, ReadSnapshotRows(s, answered)
      PROVE  NothingNewer'
  <2>1. held' = held /\ snapshot' = snapshot
    BY <1>5 DEF ReadSnapshotRows, feedStore
  <2>2. Fresh
    BY <1>2, <1>5, NextLanguageKeeps DEF ReadSnapshotRows
  <2> QED BY <1>1, <2>1, <2>2
<1>6. ASSUME NEW s \in FeedShards, NEW skipped \in BOOLEAN, NEW outcome \in Outcomes,
             WriteEdgeSnapshot(s, skipped, outcome)
      PROVE  NothingNewer'
  <2>1. snapshot' = snapshot
    BY <1>6 DEF WriteEdgeSnapshot
  <2>2. Known
    <3> DEFINE new == [rows |-> contents[s], refreshedAt |-> Named(s)]
    <3>1. held' = held \/ held' = [held EXCEPT ![place[s]] = @ \cup {new}]
      BY <1>6 DEF WriteEdgeSnapshot
    <3>2. new.rows = contents[s]
      OBVIOUS
    <3> HIDE DEF new
    <3>3. \A l \in LanguageCodes : \A e \in held'[l] : e \in held[l] \/ e = new
      BY <3>1
    <3> QED BY <3>2, <3>3
  <2>3. Fresh
    BY <1>2, <1>6, NextLanguageKeeps DEF WriteEdgeSnapshot
  <2> QED BY <1>1, <2>1, <2>2, <2>3
<1>7. ASSUME NEW s \in FeedShards, NEW left \in SUBSET Caches, InvalidateCaches(s, left)
      PROVE  NothingNewer'
  <2>1. held' = held /\ snapshot' = snapshot
    BY <1>7 DEF InvalidateCaches, feedStore
  <2>2. Fresh
    BY <1>2, <1>7, FinishKeeps DEF InvalidateCaches
  <2> QED BY <1>1, <2>1, <2>2
<1>8. ASSUME NEW s \in FeedShards, FeedCutOff(s) PROVE NothingNewer'
  BY <1>1, <1>2, <1>8, FinishKeeps DEF FeedCutOff, feedStore
<1>9. CASE UNCHANGED feedVars
  BY <1>1, <1>9 DEF feedVars, feedState, feedStore, feedLocals
<1> QED BY <1>3, <1>4, <1>5, <1>6, <1>7, <1>8, <1>9 DEF FeedNext

LEMMA NothingYetKept == ASSUME LagInv, [FeedNext]_feedVars PROVE NothingYet'
<1> USE FeedAssumption DEF LagInv, LagTypes, FeedInv, FeedTypes, NothingYet
<1>1. ASSUME NEW s \in FeedShards, Ended(s) PROVE NothingYet'
  <2>1. refreshedAt'[s] = 0 /\ place'[s] = 1 /\ publishOk'[s]
    BY <1>1 DEF Ended
  <2>2. \A t \in FeedShards \ {s} : /\ feedPc'[t] = feedPc[t] /\ refreshedAt'[t] = refreshedAt[t]
                                    /\ place'[t] = place[t] /\ publishOk'[t] = publishOk[t]
    BY <1>1 DEF Ended
  <2> QED BY <2>1, <2>2
<1>2. ASSUME NEW s \in FeedShards, NEW ok \in BOOLEAN, NextLanguage(s, ok) PROVE NothingYet'
  <2>1. CASE Ended(s)
    BY <1>1, <2>1
  <2>2. CASE ~Ended(s)
    <3>1. /\ \/ feedPc' = [feedPc EXCEPT ![s] = "invalidate"]
             \/ feedPc' = [feedPc EXCEPT ![s] = "rows"]
          /\ \/ place' = [place EXCEPT ![s] = 1]
             \/ place' = [place EXCEPT ![s] = @ + 1]
          /\ WentOn(s, ok)
      BY <1>2, <2>2, NotEnded
    <3>2. feedPc'[s] \in {"invalidate", "rows"}
      BY <3>1
    <3>3. \A t \in FeedShards \ {s} :
             feedPc'[t] = feedPc[t] /\ refreshedAt'[t] = refreshedAt[t] /\ place'[t] = place[t]
      BY <3>1 DEF WentOn
    <3>4. \A t \in FeedShards \ {s} : publishOk'[t] = publishOk[t]
      BY <3>1 DEF WentOn
    <3> QED BY <3>2, <3>3, <3>4
  <2> QED BY <2>1, <2>2
<1>3. ASSUME NEW s \in FeedShards, NEW changed \in BOOLEAN, NEW off \in BOOLEAN,
             PublishArticlesInFeed(s, changed, off)
      PROVE  NothingYet'
  BY <1>3 DEF PublishArticlesInFeed
<1>4. ASSUME NEW s \in FeedShards, NEW outcome \in Outcomes, NEW on \in BOOLEAN,
             RefreshDatabaseSnapshot(s, outcome, on)
      PROVE  NothingYet'
  <2>1. CASE outcome # "answered"
    BY <1>1, <1>4, <2>1 DEF RefreshDatabaseSnapshot, Finish, Ended
  <2>2. CASE outcome = "answered" /\ on
    BY <1>4, <2>2 DEF RefreshDatabaseSnapshot
  <2>3. CASE outcome = "answered" /\ ~on
    BY <1>4, <2>3 DEF RefreshDatabaseSnapshot, ToCaches
  <2> QED BY <2>1, <2>2, <2>3
<1>5. ASSUME NEW s \in FeedShards, NEW answered \in BOOLEAN, ReadSnapshotRows(s, answered)
      PROVE  NothingYet'
  BY <1>2, <1>5 DEF ReadSnapshotRows
<1>6. ASSUME NEW s \in FeedShards, NEW skipped \in BOOLEAN, NEW outcome \in Outcomes,
             WriteEdgeSnapshot(s, skipped, outcome)
      PROVE  NothingYet'
  BY <1>2, <1>6 DEF WriteEdgeSnapshot
<1>7. ASSUME NEW s \in FeedShards, NEW left \in SUBSET Caches, InvalidateCaches(s, left)
      PROVE  NothingYet'
  <2>1. CASE left # {} /\ ~LastAttempt(s)
    BY <1>7, <2>1 DEF InvalidateCaches
  <2>2. CASE ~(left # {} /\ ~LastAttempt(s))
    BY <1>1, <1>7, <2>2 DEF InvalidateCaches, Finish, Ended
  <2> QED BY <2>1, <2>2
<1>8. ASSUME NEW s \in FeedShards, FeedCutOff(s) PROVE NothingYet'
  BY <1>1, <1>8 DEF FeedCutOff, Finish, Ended
<1>9. CASE UNCHANGED feedVars
  BY <1>9 DEF feedVars, feedState, feedStore, feedLocals
<1> QED BY <1>3, <1>4, <1>5, <1>6, <1>7, <1>8, <1>9 DEF FeedNext

\* The refreshes of others, which are not under way, stay as they are.
LEMMA AloneUnderWay ==
    ASSUME LagInv, Undisturbed, NEW s \in FeedShards, feedPc[s] # "idle",
           NEW step, feedPc' = [feedPc EXCEPT ![s] = step],
           KeysKeep', FollowsLive(s)'
    PROVE  Undisturbed'
<1> USE DEF LagInv, LagTypes
<1>1. \A t \in FeedShards \ {s} : feedPc'[t] = "idle"
  BY DEF Undisturbed, OneUnderWay
<1>2. \A t \in FeedShards \ {s} : FollowsLive(t)'
  BY <1>1 DEF FollowsLive
<1> QED BY <1>1, <1>2 DEF Undisturbed, OneUnderWay

LEMMA EndUndisturbed ==
    ASSUME LagInv, Undisturbed, NEW s \in FeedShards, feedPc[s] # "idle", Ended(s), KeysKeep'
    PROVE  Undisturbed'
<1>1. feedPc' = [feedPc EXCEPT ![s] = "idle"] /\ feedPc'[s] = "idle"
  BY DEF Ended, LagInv, LagTypes
<1>2. FollowsLive(s)'
  BY <1>1 DEF FollowsLive
<1> QED BY <1>1, <1>2, AloneUnderWay

\* The refresh goes on to another language or to the caches, with what it has copied.
LEMMA LanguageUndisturbed ==
    ASSUME LagInv, Undisturbed, NEW s \in FeedShards, feedPc[s] \in {"rows", "write"},
           NEW ok \in BOOLEAN, NextLanguage(s, ok), UNCHANGED <<live, snapshot>>, KeysKeep',
           \A l \in LanguageCodes : Copied(l) => Copied(l)',
           NEW done, done = place[s], ok => Copied(done)', stale' \in SUBSET Caches
    PROVE  Undisturbed'
<1> USE FeedAssumption DEF LagInv, LagTypes, FeedInv, FeedTypes
<1>1. CASE Ended(s)
  BY <1>1, EndUndisturbed
<1>2. CASE ~Ended(s)
  <2>1. FollowsLive(s)
    BY DEF Undisturbed
  <2>2. /\ refreshedAt[s] = live /\ snapshot = live /\ place[s] \in LanguageCodes
        /\ publishOk[s] => \A l \in LanguageCodes : l < place[s] => Copied(l)
    BY <2>1 DEF FollowsLive
  <2>3. WentOn(s, ok)
    BY <1>2, NotEnded
  <2>4. refreshedAt'[s] = live /\ (publishOk'[s] <=> publishOk[s] /\ ok)
    <3>1. refreshedAt'[s] = live
      BY <2>2, <2>3 DEF WentOn
    <3>2. publishOk' = [publishOk EXCEPT ![s] = publishOk[s] /\ ok]
      BY <2>3 DEF WentOn
    <3>3. publishOk'[s] <=> publishOk[s] /\ ok
      BY <3>2
    <3> QED BY <3>1, <3>3
  <2>5. publishOk[s] /\ ok => \A l \in LanguageCodes : l <= place[s] => Copied(l)'
    BY <2>2 DEF LanguageCodes
  <2>6. CASE place[s] = FeedLanguages
    <3>1. /\ publishOk[s] /\ ok
          /\ feedPc' = [feedPc EXCEPT ![s] = "invalidate"]
          /\ unasked' = [unasked EXCEPT ![s] = Caches]
      <4> HIDE DEF LagInv, LagTypes, FeedInv, FeedTypes
      <4> QED BY <1>2, <2>6, LanguageCases
    <3>2. \A l \in LanguageCodes : Copied(l)'
      BY <2>5, <2>6, <3>1 DEF LanguageCodes
    <3>3. FollowsLive(s)'
      BY <2>2, <3>1, <3>2 DEF FollowsLive
    <3> QED BY <3>1, <3>3, AloneUnderWay
  <2>7. CASE place[s] # FeedLanguages
    <3>1. /\ feedPc' = [feedPc EXCEPT ![s] = "rows"]
          /\ place' = [place EXCEPT ![s] = @ + 1]
      <4> HIDE DEF LagInv, LagTypes, FeedInv, FeedTypes
      <4> QED BY <1>2, <2>7, LanguageCases
    <3>2. feedPc'[s] = "rows" /\ place'[s] = place[s] + 1
      BY <3>1
    <3>3. place'[s] \in LanguageCodes
      BY <2>2, <2>7, <3>2 DEF LanguageCodes
    <3>4. publishOk'[s] => \A l \in LanguageCodes : l < place'[s] => Copied(l)'
      BY <2>2, <2>4, <2>5, <3>2 DEF LanguageCodes
    <3>5. FollowsLive(s)'
      BY <2>2, <2>4, <3>2, <3>3, <3>4 DEF FollowsLive
    <3> QED BY <3>1, <3>5, AloneUnderWay
  <2> QED BY <2>6, <2>7
<1> QED BY <1>1, <1>2

LEMMA UndisturbedKept ==
    ASSUME LagInv, [FeedNext]_feedVars, ~overlapped' PROVE Undisturbed'
<1> USE FeedAssumption DEF LagInv, LagTypes, FeedInv, FeedTypes
<1>1. ASSUME NEW s \in FeedShards, NEW changed \in BOOLEAN, NEW off \in BOOLEAN,
             PublishArticlesInFeed(s, changed, off)
      PROVE  Undisturbed'
  <2>1. Idle /\ (changed \/ ~overlapped)
    BY <1>1 DEF PublishArticlesInFeed
  <2>2. feedPc' = feedPc \/ feedPc' = [feedPc EXCEPT ![s] = "database"]
    BY <1>1 DEF PublishArticlesInFeed
  <2>3. \A t \in FeedShards : feedPc'[t] \in {"idle", "database"} /\ (t # s => feedPc'[t] = "idle")
    BY <2>1, <2>2 DEF Idle
  <2>4. OneUnderWay'
    BY <2>3 DEF OneUnderWay
  <2>5. \A t \in FeedShards : FollowsLive(t)'
    BY <2>3 DEF FollowsLive
  <2>6. KeysKeep'
    <3>1. held' = held /\ edge' = edge
      BY <1>1 DEF PublishArticlesInFeed
    <3>2. CASE changed
      <4>1. live' > snapshot
        BY <1>1, <3>2 DEF PublishArticlesInFeed, RefreshInv
      <4>2. \A l \in LanguageCodes : \A e \in held[l] : e.rows \in Nat /\ e.rows <= snapshot
        BY DEF NothingNewer
      <4>3. \A l \in LanguageCodes : \A e \in held[l] : e.rows # live'
        BY <1>1, <3>2, <4>1, <4>2 DEF PublishArticlesInFeed
      <4> QED BY <3>1, <4>3 DEF KeysKeep
    <3>3. CASE ~changed
      <4>1. live' = live /\ Undisturbed
        BY <1>1, <2>1, <3>3 DEF PublishArticlesInFeed
      <4> QED BY <3>1, <4>1 DEF Undisturbed, KeysKeep, Copied
    <3> QED BY <3>2, <3>3
  <2> QED BY <2>4, <2>5, <2>6 DEF Undisturbed
<1>2. ASSUME NEW s \in FeedShards, NEW outcome \in Outcomes, NEW on \in BOOLEAN,
             RefreshDatabaseSnapshot(s, outcome, on)
      PROVE  Undisturbed'
  <2>1. Undisturbed /\ feedPc[s] = "database" /\ UNCHANGED <<live, held, edge>>
    BY <1>2 DEF RefreshDatabaseSnapshot
  <2>2. refreshedAt[s] = 0 /\ place[s] = 1
    BY <2>1 DEF NothingYet
  <2>3. KeysKeep'
    BY <2>1 DEF Undisturbed, KeysKeep, Copied
  <2>4. CASE outcome # "answered"
    <3>1. Ended(s)
      BY <1>2, <2>4 DEF RefreshDatabaseSnapshot, Finish, Ended
    <3> QED BY <2>1, <2>3, <3>1, EndUndisturbed
  <2>5. CASE outcome = "answered" /\ on
    <3>1. /\ feedPc' = [feedPc EXCEPT ![s] = "rows"]
          /\ refreshedAt'[s] = live /\ place' = place /\ snapshot' = live
      BY <1>2, <2>5 DEF RefreshDatabaseSnapshot
    <3>2. FollowsLive(s)'
      BY <2>1, <2>2, <3>1 DEF FollowsLive, LanguageCodes
    <3> QED BY <2>1, <2>3, <3>1, <3>2, AloneUnderWay
  <2>6. CASE outcome = "answered" /\ ~on
    <3>1. /\ feedPc' = [feedPc EXCEPT ![s] = "invalidate"] /\ refreshedAt' = refreshedAt
          /\ snapshot' = live /\ stale' = Caches
          /\ unasked' = [unasked EXCEPT ![s] = Caches]
      BY <1>2, <2>6 DEF RefreshDatabaseSnapshot, ToCaches
    <3>2. FollowsLive(s)'
      BY <2>1, <2>2, <3>1 DEF FollowsLive
    <3> QED BY <2>1, <2>3, <3>1, <3>2, AloneUnderWay
  <2> QED BY <2>4, <2>5, <2>6
<1>3. ASSUME NEW s \in FeedShards, NEW answered \in BOOLEAN, ReadSnapshotRows(s, answered)
      PROVE  Undisturbed'
  <2>1. Undisturbed /\ feedPc[s] = "rows" /\ UNCHANGED <<live, snapshot, held, edge, stale>>
    BY <1>3 DEF ReadSnapshotRows, feedStore
  <2>2. KeysKeep'
    BY <2>1 DEF Undisturbed, KeysKeep, Copied
  <2>3. CASE ~answered
    <3>1. NextLanguage(s, FALSE)
      BY <1>3, <2>3 DEF ReadSnapshotRows
    <3>2. \A l \in LanguageCodes : Copied(l) => Copied(l)'
      BY <2>1 DEF Copied
    <3> QED BY <2>1, <2>2, <3>1, <3>2, LanguageUndisturbed
  <2>4. CASE answered
    <3>1. /\ feedPc' = [feedPc EXCEPT ![s] = "write"]
          /\ contents'[s] = snapshot
          /\ UNCHANGED <<place, refreshedAt, publishOk>>
      BY <1>3, <2>4 DEF ReadSnapshotRows
    <3>2. FollowsLive(s)
      BY <2>1 DEF Undisturbed
    <3>3. FollowsLive(s)'
      BY <2>1, <3>1, <3>2 DEF FollowsLive, Copied
    <3> QED BY <2>1, <2>2, <3>1, <3>3, AloneUnderWay
  <2> QED BY <2>3, <2>4
<1>4. ASSUME NEW s \in FeedShards, NEW skipped \in BOOLEAN, NEW outcome \in Outcomes,
             WriteEdgeSnapshot(s, skipped, outcome)
      PROVE  Undisturbed'
  <2> DEFINE new == [rows |-> contents[s], refreshedAt |-> Named(s)]
             written == ~(skipped \/ outcome = "failed")
  <2>1. Undisturbed /\ feedPc[s] = "write" /\ UNCHANGED <<live, snapshot>>
    BY <1>4 DEF WriteEdgeSnapshot
  <2>2. contents[s] = live /\ place[s] \in LanguageCodes
    BY <2>1 DEF Undisturbed, FollowsLive
  <2>3. ~written => UNCHANGED <<edge, held, stale>>
    BY <1>4 DEF WriteEdgeSnapshot
  <2>4. written => /\ edge' = [edge EXCEPT ![place[s]] = new]
                   /\ held' = [held EXCEPT ![place[s]] = @ \cup {new}]
                   /\ stale' = Caches
    BY <1>4 DEF WriteEdgeSnapshot
  <2>5. new.rows = live
    BY <2>2
  <2> HIDE DEF new
  <2>6. \A l \in LanguageCodes : Copied(l) => Copied(l)'
    BY <2>1, <2>2, <2>3, <2>4, <2>5 DEF Copied
  <2>7. KeysKeep'
    <3>1. CASE ~written
      BY <2>1, <2>3, <3>1 DEF Undisturbed, KeysKeep, Copied
    <3>2. CASE written
      <4>1. \A l \in LanguageCodes \ {place[s]} : held'[l] = held[l] /\ edge'[l] = edge[l]
        BY <2>2, <2>4, <3>2
      <4>2. edge'[place[s]] = new
        BY <2>2, <2>4, <3>2
      <4> QED BY <2>1, <2>5, <4>1, <4>2 DEF Undisturbed, KeysKeep, Copied
    <3> QED BY <3>1, <3>2
  <2>8. \E done : done = place[s] /\ (outcome = "answered" => Copied(done)')
    <3>1. ASSUME outcome = "answered" PROVE edge'[place[s]].rows = live'
      <4>1. CASE written
        BY <2>1, <2>2, <2>4, <2>5, <4>1
      <4>2. CASE ~written
        <5>1. MayLookUnchanged(s, place[s])
          BY <1>4, <3>1, <4>2 DEF WriteEdgeSnapshot
        <5>2. Copied(place[s])
          BY <2>1, <2>2, <5>1 DEF MayLookUnchanged, MayRead, Undisturbed, KeysKeep
        <5> QED BY <2>1, <2>3, <4>2, <5>2 DEF Copied
      <4> QED BY <4>1, <4>2
    <3> QED BY <3>1 DEF Copied
  <2>9. NextLanguage(s, outcome = "answered") /\ stale' \in SUBSET Caches
    BY <1>4 DEF WriteEdgeSnapshot
  <2> QED BY <2>1, <2>6, <2>7, <2>8, <2>9, LanguageUndisturbed
<1>5. ASSUME NEW s \in FeedShards, NEW left \in SUBSET Caches, InvalidateCaches(s, left)
      PROVE  Undisturbed'
  <2>1. Undisturbed /\ feedPc[s] = "invalidate" /\ UNCHANGED <<live, snapshot, held, edge>>
    BY <1>5 DEF InvalidateCaches, feedStore
  <2>2. KeysKeep'
    BY <2>1 DEF Undisturbed, KeysKeep, Copied
  <2>3. CASE left # {} /\ ~LastAttempt(s)
    <3>1. /\ unasked' = [unasked EXCEPT ![s] = left]
          /\ stale' = stale \ (unasked[s] \ left)
          /\ UNCHANGED <<feedPc, refreshedAt>>
      BY <1>5, <2>3 DEF InvalidateCaches
    <3>2. FollowsLive(s)
      BY <2>1 DEF Undisturbed
    <3>3. FollowsLive(s)'
      BY <2>1, <3>1, <3>2 DEF FollowsLive, Copied
    <3>4. feedPc' = [feedPc EXCEPT ![s] = "invalidate"]
      BY <2>1, <3>1
    <3> QED BY <2>1, <2>2, <3>3, <3>4, AloneUnderWay
  <2>4. CASE ~(left # {} /\ ~LastAttempt(s))
    <3>1. Ended(s)
      BY <1>5, <2>4 DEF InvalidateCaches, Finish, Ended
    <3> QED BY <2>1, <2>2, <3>1, EndUndisturbed
  <2> QED BY <2>3, <2>4
<1>6. ASSUME NEW s \in FeedShards, FeedCutOff(s) PROVE Undisturbed'
  <2>1. Undisturbed /\ feedPc[s] # "idle" /\ Ended(s) /\ UNCHANGED <<live, held, edge>>
    BY <1>6 DEF FeedCutOff, Finish, Ended, feedStore
  <2>2. KeysKeep'
    BY <2>1 DEF Undisturbed, KeysKeep, Copied
  <2> QED BY <2>1, <2>2, EndUndisturbed
<1>7. CASE UNCHANGED feedVars
  BY <1>7 DEF feedVars, feedState, feedStore, feedLocals, feedHistory, Undisturbed, OneUnderWay,
     KeysKeep, FollowsLive, Copied
<1> QED BY <1>1, <1>2, <1>3, <1>4, <1>5, <1>6, <1>7 DEF FeedNext

LEMMA ReportKept == ASSUME LagInv, [FeedNext]_feedVars PROVE LagIsReported'
<1> USE FeedAssumption DEF LagInv, LagTypes, FeedInv, FeedTypes
<1>1. ASSUME ~Idle' PROVE LagIsReported'
  BY <1>1 DEF LagIsReported
<1>2. ASSUME report' = NotOk PROVE LagIsReported'
  BY <1>2 DEF LagIsReported, NotOk
<1>3. ASSUME NEW s \in FeedShards, NEW step \in FeedSteps \ {"idle"},
             feedPc' = [feedPc EXCEPT ![s] = step]
      PROVE  LagIsReported'
  BY <1>1, <1>3 DEF Idle
<1>4. ASSUME NEW s \in FeedShards, NEW ok \in BOOLEAN, NextLanguage(s, ok) PROVE LagIsReported'
  <2> HIDE DEF LagInv, LagTypes, FeedInv, FeedTypes
  <2>1. \/ report' = NotOk
        \/ feedPc' = [feedPc EXCEPT ![s] = "invalidate"]
        \/ feedPc' = [feedPc EXCEPT ![s] = "rows"]
    BY <1>4, LanguageCases
  <2>2. "invalidate" \in FeedSteps \ {"idle"} /\ "rows" \in FeedSteps \ {"idle"}
    BY DEF FeedSteps
  <2> QED BY <1>2, <1>3, <2>1, <2>2
<1>5. ASSUME NEW s \in FeedShards, NEW changed \in BOOLEAN, NEW off \in BOOLEAN,
             PublishArticlesInFeed(s, changed, off)
      PROVE  LagIsReported'
  BY <1>2, <1>3, <1>5 DEF PublishArticlesInFeed, FeedSteps
<1>6. ASSUME NEW s \in FeedShards, NEW outcome \in Outcomes, NEW on \in BOOLEAN,
             RefreshDatabaseSnapshot(s, outcome, on)
      PROVE  LagIsReported'
  <2>1. CASE outcome # "answered"
    BY <1>2, <1>6, <2>1 DEF RefreshDatabaseSnapshot, Finish
  <2>2. CASE outcome = "answered"
    BY <1>3, <1>6, <2>2 DEF RefreshDatabaseSnapshot, ToCaches, FeedSteps
  <2> QED BY <2>1, <2>2
<1>7. ASSUME NEW s \in FeedShards, NEW answered \in BOOLEAN, ReadSnapshotRows(s, answered)
      PROVE  LagIsReported'
  <2>1. CASE answered
    BY <1>3, <1>7, <2>1 DEF ReadSnapshotRows, FeedSteps
  <2>2. CASE ~answered
    BY <1>4, <1>7, <2>2 DEF ReadSnapshotRows
  <2> QED BY <2>1, <2>2
<1>8. ASSUME NEW s \in FeedShards, NEW skipped \in BOOLEAN, NEW outcome \in Outcomes,
             WriteEdgeSnapshot(s, skipped, outcome)
      PROVE  LagIsReported'
  BY <1>4, <1>8 DEF WriteEdgeSnapshot
<1>9. ASSUME NEW s \in FeedShards, NEW left \in SUBSET Caches, InvalidateCaches(s, left)
      PROVE  LagIsReported'
  <2>1. CASE left # {} /\ ~LastAttempt(s)
    <3>1. feedPc' = feedPc /\ feedPc[s] # "idle"
      BY <1>9, <2>1 DEF InvalidateCaches
    <3> QED BY <1>1, <3>1 DEF Idle
  <2>2. CASE ~(left # {} /\ ~LastAttempt(s))
    <3>1. report' = [ok |-> TRUE, copied |-> refreshedAt[s] > 0, warned |-> left]
      BY <1>9, <2>2 DEF InvalidateCaches, Finish
    <3>2. /\ UNCHANGED <<overlapped, live, snapshot, edge>>
          /\ stale' = stale \ (unasked[s] \ left) /\ feedPc[s] = "invalidate"
      BY <1>9 DEF InvalidateCaches, feedStore
    <3>3. CASE overlapped
      BY <3>2, <3>3 DEF LagIsReported
    <3>4. CASE ~overlapped
      <4>1. /\ snapshot = live /\ stale \subseteq unasked[s]
            /\ refreshedAt[s] > 0 => \A l \in LanguageCodes : Copied(l)
        BY <3>2, <3>4 DEF Undisturbed, FollowsLive
      <4>2. stale' \subseteq report'.warned
        BY <3>1, <3>2, <4>1
      <4>3. report'.copied => \A l \in LanguageCodes : edge'[l].rows = live'
        BY <3>1, <3>2, <4>1 DEF Copied
      <4> QED BY <3>2, <4>1, <4>2, <4>3 DEF LagIsReported
    <3> QED BY <3>3, <3>4
  <2> QED BY <2>1, <2>2
<1>10. ASSUME NEW s \in FeedShards, FeedCutOff(s) PROVE LagIsReported'
  BY <1>2, <1>10 DEF FeedCutOff, Finish
<1>11. CASE UNCHANGED feedVars
  BY <1>11 DEF feedVars, feedState, feedStore, feedLocals, feedHistory, LagIsReported, Idle
<1> QED BY <1>4, <1>5, <1>6, <1>7, <1>8, <1>9, <1>10, <1>11 DEF FeedNext

\* When no refresh is under way, none has overlapped another since the newest articles
\* were published, and the last one reported ok, the database's snapshot has those articles,
\* the caches that may hold a page from before are those it logged a warning for, and every
\* copy in KV has the articles if it counted copies (refreshPublicFeedSnapshot and what it
\* calls), for any number of shards, languages, caches, contents and failed calls.
THEOREM LagsAreReported == FeedSpec => []LagIsReported
<1>1. FeedInit /\ faults = 0 => LagInv
  BY LagStart
<1>2. LagInv /\ [FeedNext]_feedVars => LagInv'
  BY FeedStep, LagTypesKept, NothingNewerKept, NothingYetKept, UndisturbedKept, ReportKept
     DEF LagInv
<1>3. LagInv => LagIsReported
  BY DEF LagInv
<1> QED BY <1>1, <1>2, <1>3, PTL DEF FeedSpec
=============================================================================
