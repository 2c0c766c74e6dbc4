------------------------------- MODULE PublicFeed -------------------------------
(***************************************************************************)
(* How the articles on the site become the public feed                     *)
(* (refreshPublicFeedSnapshot in worker/src/index.ts).  A shard that has   *)
(* published articles has the database rebuild its snapshot, copies the    *)
(* snapshot to KV, once for every language, and has the caches in front of *)
(* the site drop their pages.  Shards do so at the same time.              *)
(*                                                                         *)
(* Contents are told apart by their age: the feed's nth content is n.      *)
(* Publishing always makes a new one, so no content comes back.  KV reads  *)
(* may be stale, and an isolate goes on with what it has once read or      *)
(* written (jsonReadCache): a read may answer with whatever the key held   *)
(* before.  KV is bound.  Serving a snapshot to a reader changes nothing:  *)
(* Served is what any reader may be told.                                  *)
(***************************************************************************)
EXTENDS FaultyCalls, FiniteSets

CONSTANTS
    FeedShards,
    FeedLanguages,  \* how many PUBLIC_FEED_EDGE_SNAPSHOT_LANGUAGE_CODES there are
    Caches,         \* Next.js targets and Cloudflare's cache
    MaxContents     \* bound on the contents of the feed

ASSUME FeedAssumption ==
    /\ IsFiniteSet(Caches)
    /\ FeedLanguages \in Nat \ {0}
    /\ MaxContents \in Nat

VARIABLES
    live,       \* the content of the published articles
    snapshot,   \* the content of public_feed_snapshot
    edge,       \* the snapshot in KV of each language, with the refresh it names
    held,       \* the snapshots each language's key has held, which reads may still answer
    feedPc,     \* the step each shard's refresh comes to next
    place,      \* its language, or its attempt at the invalidation
    unasked,    \* the caches that have not answered it yet
    refreshedAt,\* the content its refresh of the database was for, 0 when it makes no copies
    contents,   \* the rows it has read
    publishOk,  \* whether all languages went well so far
    report,     \* what the last refresh returned and logged (history)
    stale,      \* caches not invalidated since the snapshot or its copies changed (history)
    overlapped  \* whether refreshes under way together have touched KV (history)

feedStore == <<live, snapshot, edge, held>>
feedLocals == <<feedPc, place, unasked, refreshedAt, contents, publishOk>>
feedHistory == <<report, stale, overlapped>>
feedState == <<feedStore, feedLocals, feedHistory>>
feedVars == <<feedState, faults>>

\* PUBLIC_CACHE_INVALIDATION_MAX_ATTEMPTS
MaxAttempts == 3

LanguageCodes == 1..FeedLanguages

\* What a run returns of the feed and logs: whether publishing, snapshot and copies are
\* all called ok, whether there were copies (their article count is not 0), and the caches
\* a warning was logged for.  A run that is cut off returns nothing, which is not ok.
NotOk == [ok |-> FALSE, copied |-> FALSE, warned |-> {}]

FeedInit ==
    /\ live = 1
    /\ snapshot = 0
    /\ edge = [l \in LanguageCodes |-> [rows |-> 0, refreshedAt |-> 0]]
    /\ held = [l \in LanguageCodes |-> {}]
    /\ feedPc = [s \in FeedShards |-> "idle"]
    /\ place = [s \in FeedShards |-> 1]
    /\ unasked = [s \in FeedShards |-> {}]
    /\ refreshedAt = [s \in FeedShards |-> 0]
    /\ contents = [s \in FeedShards |-> 0]
    /\ publishOk = [s \in FeedShards |-> TRUE]
    /\ report = NotOk
    /\ stale = {}
    /\ overlapped = FALSE

-----------------------------------------------------------------------------

Idle == \A s \in FeedShards : feedPc[s] = "idle"

\* A refresh ends, and leaves nothing but what it reports.
Finish(s, result) ==
    /\ feedPc' = [feedPc EXCEPT ![s] = "idle"]
    /\ place' = [place EXCEPT ![s] = 1]
    /\ unasked' = [unasked EXCEPT ![s] = {}]
    /\ refreshedAt' = [refreshedAt EXCEPT ![s] = 0]
    /\ contents' = [contents EXCEPT ![s] = 0]
    /\ publishOk' = [publishOk EXCEPT ![s] = TRUE]
    /\ report' = result

\* Articles are published.  A refresh whose budget does not reach for it, or whose
\* publishing was not answered, leaves the snapshot alone and says so; the backlog run
\* refreshes it even when the publishing failed.
PublishArticlesInFeed(s, changed, deferred) ==
    /\ feedPc[s] = "idle"
    /\ changed \/ ~deferred
    /\ changed => live < MaxContents
    /\ live' = IF changed THEN live + 1 ELSE live
    /\ overlapped' = (~Idle \/ (overlapped /\ ~changed))
    /\ IF deferred THEN report' = NotOk /\ UNCHANGED feedPc
       ELSE feedPc' = [feedPc EXCEPT ![s] = "database"] /\ UNCHANGED report
    /\ UNCHANGED <<snapshot, edge, held, place, unasked, refreshedAt, contents, publishOk,
                   stale, faults>>

ToCaches(s) ==
    /\ feedPc' = [feedPc EXCEPT ![s] = "invalidate"]
    /\ place' = [place EXCEPT ![s] = 1]
    /\ unasked' = [unasked EXCEPT ![s] = Caches]

\* The refresh of the database, and whether copies to KV are switched on
\* (worker_public_feed_edge_snapshot_publish).  Switched off, they count as ok.
RefreshDatabaseSnapshot(s, outcome, enabled) ==
    /\ feedPc[s] = "database"
    /\ Call(outcome)
    /\ snapshot' = IF outcome = "failed" THEN snapshot ELSE live
    /\ stale' = IF outcome = "failed" THEN stale ELSE Caches
    /\ CASE outcome # "answered" -> Finish(s, NotOk)
         [] outcome = "answered" /\ enabled ->
                /\ refreshedAt' = [refreshedAt EXCEPT ![s] = live]
                /\ feedPc' = [feedPc EXCEPT ![s] = "rows"]
                /\ UNCHANGED <<place, unasked, contents, publishOk, report>>
         [] OTHER -> ToCaches(s) /\ UNCHANGED <<refreshedAt, contents, publishOk, report>>
    /\ UNCHANGED <<live, edge, held, overlapped>>

\* On to the next language; after the last one to the caches, if all went well.
NextLanguage(s, ok) ==
    LET allOk == publishOk[s] /\ ok IN
    IF place[s] = FeedLanguages /\ ~allOk THEN Finish(s, NotOk)
    ELSE /\ IF place[s] = FeedLanguages THEN ToCaches(s)
            ELSE /\ place' = [place EXCEPT ![s] = @ + 1]
                 /\ feedPc' = [feedPc EXCEPT ![s] = "rows"]
                 /\ UNCHANGED unasked
         /\ publishOk' = [publishOk EXCEPT ![s] = allOk]
         /\ contents' = [contents EXCEPT ![s] = 0]
         /\ UNCHANGED <<refreshedAt, report>>

\* fetchPublicFeedSnapshotRowsForEdge
ReadSnapshotRows(s, answered) ==
    /\ feedPc[s] = "rows"
    /\ Fault(~answered)
    /\ IF answered
       THEN /\ contents' = [contents EXCEPT ![s] = snapshot]
            /\ feedPc' = [feedPc EXCEPT ![s] = "write"]
            /\ UNCHANGED <<place, unasked, refreshedAt, publishOk, report>>
       ELSE NextLanguage(s, FALSE)
    /\ UNCHANGED <<feedStore, stale, overlapped>>

\* The snapshot names the time it is written at.
NamesNowBug(s) == live

Named(s) == refreshedAt[s]

\* Whatever there is counts as unchanged.
AnythingUnchangedBug(s, l) == held[l] # {}

\* readJsonFromKv: whatever the key has held may be read.
MayRead(l) == held[l]

\* getPublicFeedEdgeSnapshotContentFingerprint: only the contents are compared.
MayLookUnchanged(s, l) == \E existing \in MayRead(l) : existing.rows = contents[s]

\* The existing snapshot is read, then the new one is written or skipped.  A read that
\* fails is as no snapshot.
WriteEdgeSnapshot(s, skipped, outcome) ==
    LET l == place[s]
        new == [rows |-> contents[s], refreshedAt |-> Named(s)] IN
    /\ feedPc[s] = "write"
    /\ skipped => outcome = "answered" /\ MayLookUnchanged(s, l)
    /\ Call(outcome)
    /\ IF skipped \/ outcome = "failed" THEN UNCHANGED <<edge, held, stale>>
       ELSE /\ edge' = [edge EXCEPT ![l] = new]
            /\ held' = [held EXCEPT ![l] = @ \cup {new}]
            /\ stale' = Caches
    /\ NextLanguage(s, outcome = "answered")
    /\ UNCHANGED <<live, snapshot, overlapped>>

LastAttempt(s) == place[s] = MaxAttempts

\* Each cache is asked up to three times.  Failing, the last attempt changes nothing
\* but the log: the refresh is ok all the same.  One that goes on failing is one fault.
InvalidateCaches(s, left) ==
    /\ feedPc[s] = "invalidate"
    /\ left \subseteq unasked[s]
    /\ Fault(left # {} /\ place[s] = 1)
    /\ stale' = stale \ (unasked[s] \ left)
    /\ IF left # {} /\ ~LastAttempt(s)
       THEN /\ place' = [place EXCEPT ![s] = @ + 1]
            /\ unasked' = [unasked EXCEPT ![s] = left]
            /\ UNCHANGED <<feedPc, refreshedAt, contents, publishOk, report>>
       ELSE Finish(s, [ok |-> TRUE, copied |-> refreshedAt[s] > 0, warned |-> left])
    /\ UNCHANGED <<feedStore, overlapped>>

\* The run is cut off.
FeedCutOff(s) ==
    /\ feedPc[s] # "idle"
    /\ Fault(TRUE)
    /\ Finish(s, NotOk)
    /\ UNCHANGED <<feedStore, stale, overlapped>>

FeedNext ==
    \E s \in FeedShards :
        \/ \E changed, deferred \in BOOLEAN : PublishArticlesInFeed(s, changed, deferred)
        \/ \E outcome \in Outcomes, enabled \in BOOLEAN :
              RefreshDatabaseSnapshot(s, outcome, enabled)
        \/ \E answered \in BOOLEAN : ReadSnapshotRows(s, answered)
        \/ \E skipped \in BOOLEAN, outcome \in Outcomes : WriteEdgeSnapshot(s, skipped, outcome)
        \/ \E left \in SUBSET Caches : InvalidateCaches(s, left)
        \/ FeedCutOff(s)

FeedSpec == FeedInit /\ faults = 0 /\ [][FeedNext]_feedVars

-----------------------------------------------------------------------------
(* Readers. *)

\* readPublicFeedEdgeSnapshotFromKv: a failed read is as no snapshot.
SnapshotFound(l) == {<<existing>> : existing \in MayRead(l)} \cup {<<>>}

\* What a reader of a language may be told, of articles and of the status: a snapshot's
\* articles go with the refresh it names.
Served(l) ==
    {IF found = <<>> THEN [status |-> "miss", articles |-> 0, refreshedAt |-> 0]
     ELSE [status |-> "hit", articles |-> found[1].rows, refreshedAt |-> found[1].refreshedAt]
     : found \in SnapshotFound(l)}

-----------------------------------------------------------------------------
(* Properties. *)

\* A snapshot names the refresh of the database it was made for: the articles a reader
\* is given are never older than that, whichever shards overwrite each other, skip what
\* they take for unchanged or lose an answer, and however stale the read is.
NamedRefreshIsContained ==
    \A l \in LanguageCodes : \A answer \in Served(l) :
        answer.status = "hit" => answer.articles >= answer.refreshedAt

\* While no refresh is under way and none has overlapped another since the newest articles
\* were published, the report of the last one that published any can be relied on: ok says
\* that the database's snapshot has them and that every cache has dropped its pages since,
\* except those a warning was logged for; with copies counted, every language's copy in KV
\* has them too.  With copies switched off the report is as ok, and they are left behind.
LagIsReported ==
    Idle /\ ~overlapped /\ report.ok =>
        /\ snapshot = live
        /\ stale \subseteq report.warned
        /\ report.copied => \A l \in LanguageCodes : edge[l].rows = live
=============================================================================
