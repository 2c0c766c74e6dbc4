---------------------------- MODULE ArticlePipeline ----------------------------
(***************************************************************************)
(* What becomes of an article (worker/src/index.ts).  A refresh of a shard *)
(* looks up which articles are known, reviews others, and then makes one   *)
(* call after another: it saves the accepted articles, has missing         *)
(* summaries translated, saves them, looks up which articles are complete, *)
(* publishes those, saves the reviews and remembers them in the shard's    *)
(* KV list.  A backlog run does the translating and publishing only.  The  *)
(* runs of all shards interleave between these calls; each may fail, or    *)
(* its answer may be lost, and a run may be cut short.                     *)
(*                                                                         *)
(* Articles are held for their translations, as every shard's              *)
(* configuration says (HOLD_ARTICLES_FOR_TRANSLATIONS).  An article that   *)
(* is not known may be in any shard's feeds, and whether its review        *)
(* accepts it, finds no image or is left out by a limit or a claim is left *)
(* open.  Runs of one shard do not overlap: RefreshRuns says when.         *)
(***************************************************************************)
EXTENDS FaultyCalls, FiniteSets, Sequences

CONSTANTS
    Shards,
    Articles,
    Languages,  \* enabledSummaryLanguages
    TaskLimit,  \* getSummaryTranslationTaskBudget
    Lookback    \* SUMMARY_TRANSLATION_RECOVERY_LOOKBACK_LIMIT

ASSUME PipelineAssumption ==
    /\ IsFiniteSet(Articles)
    /\ IsFiniteSet(Languages)
    /\ Languages # {}
    /\ TaskLimit \in Nat \ {0}
    /\ Lookback \in Nat \ {0}

VARIABLES
    review,     \* article_ai_reviews: decision on each article, "none" without a row
    status,     \* articles: status of each article, "absent" without a row
    newest,     \* the articles' rows, newest published_on_site_at first
    summaries,  \* article_summaries: article and language of each row
    remembered, \* each shard's list of processed URLs in KV
    pc,         \* the call each shard's run comes to next
    mode,       \* "refresh" or "backlog"
    list,       \* the KV list as a refresh has read it
    reviewed,   \* the decisions a refresh has come to
    rows,       \* the summaries a run has translated
    urls,       \* the articles a run has found complete
    unsaved,    \* articles a run could not save (history)
    unfinished  \* articles a run saved summaries of and then could not publish (history)

tables == <<review, status, newest, summaries>>
locals == <<mode, list, reviewed, rows, urls>>
history == <<unsaved, unfinished>>
pipelineState == <<tables, remembered, pc, locals, history>>
vars == <<pipelineState, faults>>

Summary == Articles \X Languages

Nothing == [u \in Articles |-> "none"]

Init ==
    /\ review = [u \in Articles |-> "none"]
    /\ status = [u \in Articles |-> "absent"]
    /\ newest = <<>>
    /\ summaries = {}
    /\ remembered = [s \in Shards |-> {}]
    /\ pc = [s \in Shards |-> "idle"]
    /\ mode = [s \in Shards |-> "refresh"]
    /\ list = [s \in Shards |-> {}]
    /\ reviewed = [s \in Shards |-> Nothing]
    /\ rows = [s \in Shards |-> {}]
    /\ urls = [s \in Shards |-> {}]
    /\ unsaved = {}
    /\ unfinished = {}

-----------------------------------------------------------------------------

Decisions == {"accept", "reject", "no_thumbnail"}

Present == {u \in Articles : status[u] # "absent"}

Decided(s, decision) == {u \in Articles : reviewed[s][u] = decision}

Accepted(s) == Decided(s, "accept")

UrlsOf(S) == {row[1] : row \in S}

Complete(u, known) == {u} \X Languages \subseteq known

Translated(u) == Complete(u, summaries)

Goto(s, step) == pc' = [pc EXCEPT ![s] = step]

\* Nothing of a run outlives it.
End(s) ==
    /\ Goto(s, "idle")
    /\ mode' = [mode EXCEPT ![s] = "refresh"]
    /\ list' = [list EXCEPT ![s] = {}]
    /\ reviewed' = [reviewed EXCEPT ![s] = Nothing]
    /\ rows' = [rows EXCEPT ![s] = {}]
    /\ urls' = [urls EXCEPT ![s] = {}]

\* A refresh goes on to its reviews when there is nothing more to publish.
Published(s) ==
    IF mode[s] = "backlog" THEN End(s)
    ELSE /\ Goto(s, "reviews")
         /\ rows' = [rows EXCEPT ![s] = {}]
         /\ urls' = [urls EXCEPT ![s] = {}]
         /\ UNCHANGED <<mode, list, reviewed>>

-----------------------------------------------------------------------------
(* A refresh, up to its reviews. *)

\* Rejected for want of an image: tried again after six hours.
Retryable == {u \in Articles : review[u] = "no_thumbnail"}

\* The two lookups in the database, either of which may fail; expired are the
\* rejections that are six hours old.
KnownToDatabase(reviewsRead, articlesRead, expired) ==
    (IF reviewsRead THEN {u \in Articles : review[u] # "none"} \ expired ELSE {})
        \cup (IF articlesRead THEN Present ELSE {})

\* Up to the reviews a run changes nothing but its claims (RefreshRuns): the steps
\* from the lookups to the reviews are one.  KV may answer with less than the list.
Refresh(s) ==
    /\ pc[s] = "idle"
    /\ \E found \in SUBSET remembered[s], reviewsRead, articlesRead \in BOOLEAN,
          expired \in SUBSET Retryable :
          LET known == found \cup KnownToDatabase(reviewsRead, articlesRead, expired) IN
          /\ Fault(~reviewsRead \/ ~articlesRead)
          /\ list' = [list EXCEPT ![s] = found]
          /\ \E decision \in [Articles \ known -> Decisions \cup {"none"}] :
                reviewed' = [reviewed EXCEPT ![s] =
                               [u \in Articles |-> IF u \in known THEN "none" ELSE decision[u]]]
    /\ Goto(s, "articles")
    /\ UNCHANGED <<tables, remembered, mode, rows, urls, history>>

Backlog(s) ==
    /\ pc[s] = "idle"
    /\ mode' = [mode EXCEPT ![s] = "backlog"]
    /\ Goto(s, "translations")
    /\ UNCHANGED <<tables, remembered, list, reviewed, rows, urls, history, faults>>

-----------------------------------------------------------------------------
(* Articles. *)

\* What takes all of the run's tasks is left to a later run.
LeftForLaterBug(s) ==
    IF Cardinality(Accepted(s)) * Cardinality(Languages) >= TaskLimit THEN {} ELSE Accepted(s)

\* buildRowsFromReviewedArticles
ArticleRows(s) == Accepted(s)

\* Articles are not held for their translations.
PublishedAtOnceBug == "published"

InitialStatus == "translation_pending"

\* resolution=merge-duplicates: a row that is there is overwritten.
OverwrittenBug(batch) == batch

\* resolution=ignore-duplicates
Inserted(batch) == batch \ Present

Orders(S) ==
    {order \in [1..Cardinality(S) -> S] : \A u \in S : \E i \in DOMAIN order : order[i] = u}

\* saveAcceptedArticlesBatch.  Without saved articles there is nothing to translate.
SaveArticles(s, outcome) ==
    LET batch == ArticleRows(s) IN
    /\ pc[s] = "articles"
    /\ batch = {} => outcome = "answered"
    /\ Call(outcome)
    /\ IF outcome = "failed" THEN UNCHANGED <<status, newest>>
       ELSE /\ status' = [u \in Articles |-> IF u \in Inserted(batch) THEN InitialStatus
                                             ELSE status[u]]
            /\ \E order \in Orders(Inserted(batch)) : newest' = order \o newest
    /\ unsaved' = IF outcome = "failed" THEN unsaved \cup batch ELSE unsaved
    /\ Goto(s, IF outcome = "answered" THEN "translations" ELSE "reviews")
    /\ UNCHANGED <<review, summaries, remembered, locals, unfinished>>

-----------------------------------------------------------------------------
(* Summaries. *)

\* Only articles on the site are looked at.
PublishedOnlyBug(s, known) ==
    {i \in DOMAIN newest : /\ i <= Lookback
                           /\ newest[i] \notin Accepted(s)
                           /\ status[newest[i]] = "published"
                           /\ ~Complete(newest[i], known)}

\* The rows in the lookback that lack a language, by their place.
Gaps(s, known) ==
    {i \in DOMAIN newest : /\ i <= Lookback
                           /\ newest[i] \notin Accepted(s)
                           /\ ~Complete(newest[i], known)}

\* loadSummaryTranslationRecoveryArticles: the newest of them, as many as the tasks
\* would do completely.
RecoveryArticles(s, known, budget) ==
    LET languages == Cardinality(Languages)
        articleLimit == (budget + languages - 1) \div languages
        gaps == Gaps(s, known) IN
    {newest[i] : i \in {j \in gaps : Cardinality({k \in gaps : k < j}) < articleLimit}}

AtMost(n, S) == {T \in SUBSET S : Cardinality(T) = IF Cardinality(S) < n THEN Cardinality(S)
                                                   ELSE n}

\* The tasks of buildArticleSummaryTranslations: what recovered articles lack comes
\* first, then accepted articles as far as all their languages fit.  Which ones a
\* limit leaves out is left open.  known and knownThen are the answers of two
\* lookups, empty when they fail.
Tasks(s, known, knownThen, budget) ==
    UNION { { recovery \cup (chosen \X Languages) :
                chosen \in AtMost((budget - Cardinality(recovery)) \div Cardinality(Languages),
                                  Accepted(s)) } :
            recovery \in AtMost(budget, (RecoveryArticles(s, known, budget) \X Languages)
                                            \ knownThen) }

\* A refresh may have less of a budget left for its subrequests than the tasks would
\* take (SubrequestBudget), or none; a task that fails yields no summary.
BuildTranslations(s) ==
    /\ pc[s] = "translations"
    /\ \E budget \in IF mode[s] = "backlog" THEN {TaskLimit} ELSE 0..TaskLimit,
          known, knownThen \in {summaries, {}} :
          \E tasks \in Tasks(s, known, knownThen, budget) :
          \E done \in SUBSET tasks :
             /\ Fault(known # summaries \/ knownThen # summaries \/ done # tasks)
             /\ IF done = {} THEN Published(s)
                ELSE /\ Goto(s, "summaries")
                     /\ rows' = [rows EXCEPT ![s] = done]
                     /\ UNCHANGED <<mode, list, reviewed, urls>>
    /\ UNCHANGED <<tables, remembered, history>>

\* saveArticleSummariesBatch, resolution=merge-duplicates
SaveSummaries(s, outcome) ==
    /\ pc[s] = "summaries"
    /\ Call(outcome)
    /\ summaries' = IF outcome = "failed" THEN summaries ELSE summaries \cup rows[s]
    /\ unfinished' = IF outcome = "lost" THEN unfinished \cup UrlsOf(rows[s]) ELSE unfinished
    /\ IF outcome = "answered" THEN Goto(s, "complete") /\ UNCHANGED locals
       ELSE Published(s)
    /\ UNCHANGED <<review, status, newest, remembered, unsaved>>

\* What is complete is told from what this run has translated.
OwnRowsBug(s) == {u \in UrlsOf(rows[s]) : Complete(u, rows[s])}

\* getFullyTranslatedOriginalUrls
FullyTranslated(s) == {u \in UrlsOf(rows[s]) \cup Accepted(s) : Translated(u)}

\* loadExistingSummaryLanguageCodes, after the save; failed, it finds nothing.
LookUpComplete(s, answered) ==
    /\ pc[s] = "complete"
    /\ Fault(~answered)
    /\ unfinished' = IF answered THEN unfinished ELSE unfinished \cup UrlsOf(rows[s])
    /\ IF answered /\ FullyTranslated(s) # {}
       THEN /\ Goto(s, "publish")
            /\ urls' = [urls EXCEPT ![s] = FullyTranslated(s)]
            /\ rows' = [rows EXCEPT ![s] = {}]
            /\ UNCHANGED <<mode, list, reviewed>>
       ELSE Published(s)
    /\ UNCHANGED <<tables, remembered, unsaved>>

\* The database's own guard: getArticlePublishTranslationReadiness.
Publishable(s) == {u \in urls[s] : u \in Present /\ Translated(u)}

PublishArticles(s, outcome) ==
    /\ pc[s] = "publish"
    /\ Call(outcome)
    /\ status' = [u \in Articles |-> IF outcome # "failed" /\ u \in Publishable(s)
                                     THEN "published" ELSE status[u]]
    /\ unfinished' = IF outcome = "failed" THEN unfinished \cup urls[s] ELSE unfinished
    /\ Published(s)
    /\ UNCHANGED <<review, newest, summaries, remembered, unsaved>>

-----------------------------------------------------------------------------
(* Reviews. *)

\* Articles are remembered whether or not their reviews were saved.
RememberedAnywayBug(outcome) == TRUE

ReviewSaveOk(outcome) == outcome = "answered"

\* saveArticleReviewsBatch, resolution=merge-duplicates.  The budget for subrequests
\* may not reach for it: then it is not made.
SaveReviews(s, outcome) ==
    /\ pc[s] = "reviews"
    /\ Fault(outcome \in {"lost", "failed"})
    /\ review' = [u \in Articles |->
                    IF outcome \in {"answered", "lost"} /\ reviewed[s][u] # "none"
                    THEN reviewed[s][u] ELSE review[u]]
    /\ IF ReviewSaveOk(outcome) THEN Goto(s, "remember") /\ UNCHANGED locals ELSE End(s)
    /\ UNCHANGED <<status, newest, summaries, remembered, history>>

\* getReviewRowsEligibleForKvProcessedCache
Cacheable(s) == Accepted(s) \cup Decided(s, "reject")

\* rememberProcessedUrlsInKv extends the list as it was read before the reviews: the
\* read is answered from the isolate's memory.
Remember(s, saved) ==
    /\ pc[s] = "remember"
    /\ remembered' = [remembered EXCEPT ![s] =
                        IF saved /\ Cacheable(s) # {} THEN list[s] \cup Cacheable(s) ELSE @]
    /\ End(s)
    /\ UNCHANGED <<tables, history, faults>>

\* The platform, or an exception, ends the run.
CutOff(s) ==
    /\ pc[s] # "idle"
    /\ Fault(TRUE)
    /\ unfinished' = CASE pc[s] = "complete" -> unfinished \cup UrlsOf(rows[s])
                       [] pc[s] = "publish"  -> unfinished \cup urls[s]
                       [] OTHER              -> unfinished
    /\ End(s)
    /\ UNCHANGED <<tables, remembered, unsaved>>

-----------------------------------------------------------------------------

RunStep(s) ==
    \/ \E outcome \in Outcomes : SaveArticles(s, outcome)
    \/ BuildTranslations(s)
    \/ \E outcome \in Outcomes : SaveSummaries(s, outcome)
    \/ \E answered \in BOOLEAN : LookUpComplete(s, answered)
    \/ \E outcome \in Outcomes : PublishArticles(s, outcome)
    \/ \E outcome \in Outcomes \cup {"deferred"} : SaveReviews(s, outcome)
    \/ \E saved \in BOOLEAN : Remember(s, saved)

Next == \E s \in Shards : Refresh(s) \/ Backlog(s) \/ RunStep(s) \/ CutOff(s)

Spec == Init /\ faults = 0 /\ [][Next]_vars

\* The awaited calls of some shard's runs end, and the controller's cron trigger keeps
\* asking it for a backlog run, between refreshes and not only while one is under way.
FairSpec ==
    /\ Spec
    /\ \E s \in Shards : WF_vars(RunStep(s)) /\ SF_vars(Backlog(s))

-----------------------------------------------------------------------------
(* Properties. *)

PCs == {"idle", "articles", "translations", "summaries", "complete", "publish", "reviews",
        "remember"}

TypeOK ==
    /\ review \in [Articles -> Decisions \cup {"none"}]
    /\ status \in [Articles -> {"absent", "translation_pending", "published"}]
    /\ newest \in Seq(Articles)
    /\ \A u \in Articles : Cardinality({i \in DOMAIN newest : newest[i] = u})
                            = IF status[u] = "absent" THEN 0 ELSE 1
    /\ summaries \in SUBSET (Present \X Languages)
    /\ remembered \in [Shards -> SUBSET Articles]
    /\ pc \in [Shards -> PCs]
    /\ mode \in [Shards -> {"refresh", "backlog"}]
    /\ list \in [Shards -> SUBSET Articles]
    /\ reviewed \in [Shards -> [Articles -> Decisions \cup {"none"}]]
    /\ rows \in [Shards -> SUBSET Summary]
    /\ urls \in [Shards -> SUBSET Articles]
    /\ unsaved \in SUBSET Articles
    /\ unfinished \in SUBSET Articles
    /\ faults \in 0..MaxFaults

\* No article is on the site in fewer languages than the worker promises, whichever
\* runs of whichever shards saved, completed and published it.
PublishedIsTranslated == \A u \in Articles : status[u] = "published" => Translated(u)

\* The run that is to publish an article with all its summaries.
Publishing(s, u) ==
    \/ pc[s] = "complete" /\ u \in UrlsOf(rows[s])
    \/ pc[s] = "publish" /\ u \in urls[s]

\* An article whose summaries two runs completed between them, neither of which had
\* them all, is not left to the other by both: as long as it waits, some run has yet
\* to publish it, or one that had saved summaries of it failed on the way.
NoneForgotten ==
    \A u \in Articles :
        status[u] = "translation_pending" /\ Translated(u) =>
            u \in unfinished \/ \E s \in Shards : Publishing(s, u)

\* An article that is listed in KV, and so never looked at again, has had its review
\* saved, though the list is extended from a stale copy and runs may be cut off.
RememberedIsReviewed ==
    \A s \in Shards : \A u \in remembered[s] : review[u] # "none"

\* An accepting review, which keeps later runs from looking at the article, never
\* stands without the article, unless the call that saves articles failed.
AcceptedIsSaved == \A u \in Articles : review[u] = "accept" => u \in Present \cup unsaved

\* A waiting article gets all its summaries in the end, whatever fails meanwhile: the
\* lookback here spans the table.
PendingIsTranslated ==
    \A u \in Articles : status[u] = "translation_pending" ~> Translated(u)

\* The tables' part of the promise.
Promise == INSTANCE ArticlePromise WITH stage <- status

\* The worker's runs keep the promise.
ImplementsPromise == Promise!Spec
=============================================================================
