----------------------------- MODULE SummaryBackfill -----------------------------
(***************************************************************************)
(* The script that translates what the worker has left untranslated        *)
(* (scripts/backfill_article_summaries.mjs).  It reads pages of articles,  *)
(* newest first, until it has a batch of missing summaries, translates and *)
(* saves them one by one, remembers the ones that failed in a file, and    *)
(* publishes the articles it has read that are complete.                   *)
(*                                                                         *)
(* The worker's runs go on meanwhile, as ArticlePromise has them, which    *)
(* ArticlePipeline is shown to implement, in the languages they are set to *)
(* (ENABLED_SUMMARY_LANGUAGES); each run of the script has its own         *)
(* (LANGUAGE_CODES), which may be fewer.  Every article has a title and an *)
(* English summary.                                                        *)
(***************************************************************************)
EXTENDS Naturals, FiniteSets, Sequences, Functions

CONSTANTS
    Cards,          \* the articles
    NewestFirst,    \* the place of each by published_on_site_at
    Codes,          \* the place of each supported language wherever LANGUAGE_CODES has it
    LanguageChoices,\* what LANGUAGE_CODES may be set to
    SiteLanguages,  \* the worker's
    Providers,      \* those of "local" and "openai" that are configured
    BackfillLimit,  \* BACKFILL_LIMIT
    CandidateLimit, \* CANDIDATE_LIMIT
    CandidatePageSize   \* CANDIDATE_PAGE_SIZE

ASSUME BackfillAssumption ==
    /\ IsFiniteSet(Cards)
    /\ NewestFirst \in [Cards -> Nat]
    /\ \A u, v \in Cards : NewestFirst[u] = NewestFirst[v] => u = v
    /\ IsFiniteSet(DOMAIN Codes) /\ Codes \in [DOMAIN Codes -> Nat]
    /\ \A code, other \in DOMAIN Codes : Codes[code] = Codes[other] => code = other
    /\ LanguageChoices \subseteq SUBSET DOMAIN Codes \ {{}}
    /\ SiteLanguages \subseteq DOMAIN Codes
    /\ Providers \subseteq {"local", "openai"} /\ Providers # {}
    /\ BackfillLimit \in Nat \ {0}
    /\ CandidateLimit \in Nat \ {0}
    /\ CandidatePageSize \in Nat \ {0}

VARIABLES
    stage,          \* articles: "absent", "translation_pending" or "published"
    summaryRows,    \* article_summaries: article and language of each row
    failureCache,   \* FAILED_TRANSLATION_CACHE: article and language of each row
    script,         \* where the script is, and its variables
    openBefore,     \* the rows it could settle when there were any to try (history)
    narrowly        \* articles that runs short of a language of the worker's have put on
                    \* the site (history)

backfillState == <<stage, summaryRows, failureCache, script, openBefore, narrowly>>

SupportedLanguages == DOMAIN Codes
CardRows == Cards \X SupportedLanguages

Worker == INSTANCE ArticlePromise
            WITH Articles <- Cards, Languages <- SiteLanguages, summaries <- summaryRows

\* No run is under way.
Stopped ==
    [at |-> "stopped", source |-> "articles", all |-> FALSE, retry |-> FALSE, force |-> FALSE,
     codes |-> {}, articles |-> <<>>, tasks |-> <<>>, failed |-> {}, readyUrls |-> {}]

BackfillInit ==
    /\ Worker!Init
    /\ failureCache = {}
    /\ script = Stopped
    /\ openBefore = {}
    /\ narrowly = {}

Open(u, codes) == {row \in {u} \X codes : row \notin summaryRows \cup failureCache}

-----------------------------------------------------------------------------
(* Reading pages. *)

\* The elements of a finite set in an order, a set of pairs: each at the place that
\* tells how many are not after it.
Ordered(S, order) ==
    [k \in 1..Cardinality(S) |-> CHOOSE x \in S : Cardinality({y \in S : <<y, x>> \in order}) = k]

CardOrder == {pair \in Cards \X Cards : NewestFirst[pair[1]] <= NewestFirst[pair[2]]}

\* By article, and the rows of one by language.
RowOrder ==
    {pair \in CardRows \X CardRows :
        LET row == pair[1]
            next == pair[2]
        IN \/ NewestFirst[row[1]] < NewestFirst[next[1]]
           \/ row[1] = next[1] /\ Codes[row[2]] <= Codes[next[2]]}

\* LANGUAGE_CODES, BACKFILL_SOURCE, SCAN_ALL_CANDIDATES, RETRY_FAILED and FORCE; with
\* RETRY_FAILED the file is not read.
StartScript(codes, source, all, retry, force) ==
    /\ script.at = "stopped"
    /\ script' = [Stopped EXCEPT !.at = "scan", !.codes = codes, !.source = source, !.all = all,
                                 !.retry = retry, !.force = force,
                                 !.failed = IF retry THEN {} ELSE failureCache]
    /\ openBefore' = IF \E u \in Cards : stage[u] # "absent" /\ Open(u, codes) # {}
                     THEN UNION {Open(u, codes) : u \in Cards} ELSE {}
    /\ UNCHANGED <<stage, summaryRows, failureCache, narrowly>>

\* The snapshot's articles are on the site.
Listed ==
    Ordered({u \in Cards : stage[u] \in IF script.source = "articles"
                                        THEN {"published", "translation_pending"}
                                        ELSE {"published"}}, CardOrder)

PageSize == IF script.all THEN CandidatePageSize ELSE CandidateLimit

\* The offset is the number of articles read: a page does not know what has been
\* added in front of it since.
LoadCandidateArticlesPage ==
    LET first == Len(script.articles) + 1
    IN SubSeq(Listed, first, IF first + PageSize - 1 < Len(Listed) THEN first + PageSize - 1
                             ELSE Len(Listed))

\* loadExistingSummaries
ExistingSummaries == IF script.force THEN {} ELSE summaryRows

\* What failed before is tried again each time.
TriedAgainBug(row) == row \notin ExistingSummaries

Missing(row) == row \notin ExistingSummaries /\ row \notin script.failed

\* The missing rows of a page in its order, up to a limit.
BuildTranslationTasks(articles, limit) ==
    LET missing == Ordered({row \in Range(articles) \X script.codes : Missing(row)}, RowOrder)
    IN SubSeq(missing, 1, IF Len(missing) < limit THEN Len(missing) ELSE limit)

\* Without tasks there is nothing to do, not even to publish; DRY_RUN ends here too.
StopScript == script' = Stopped

\* The rows of a page and their summaries are read one after the other: what the
\* worker translates in between is as if it had been there before.
ScanPage ==
    /\ script.at = "scan"
    /\ LET articles == LoadCandidateArticlesPage
           tasks == script.tasks
                    \o BuildTranslationTasks(articles, BackfillLimit - Len(script.tasks))
           scanned == script.articles \o articles
           ends == \/ articles = <<>>
                   \/ ~script.all
                   \/ Len(articles) < PageSize
                   \/ Len(scanned) >= CandidateLimit
                   \/ Len(tasks) >= BackfillLimit
           next == CASE ~ends                 -> "scan"
                    [] ends /\ tasks = <<>> -> "done"
                    [] ends /\ tasks # <<>> -> "translate"
       IN script' = [script EXCEPT !.at = next, !.articles = scanned, !.tasks = tasks]
    /\ UNCHANGED <<stage, summaryRows, failureCache, openBefore, narrowly>>

-----------------------------------------------------------------------------
(* Translating. *)

\* Which provider's translation it is, given which ones would answer; the local
\* service goes first.
TranslateArticle(answering) ==
    LET able == Providers \cap answering
    IN CASE "local" \in able  -> "local"
         [] able = {"openai"} -> "openai"
         [] OTHER             -> "none"

\* One summary is translated and saved, by inserting or overwriting it.  A summary
\* whose save was not acknowledged counts as failed.
TranslateNext(answering, saved) ==
    /\ script.at = "translate"
    /\ script.tasks # <<>>
    /\ LET row == Head(script.tasks)
           translated == TranslateArticle(answering) # "none"
       IN /\ summaryRows' = IF translated /\ saved # "failed" THEN summaryRows \cup {row}
                            ELSE summaryRows
          /\ script' = [script EXCEPT
                           !.tasks = Tail(@),
                           !.failed = IF translated /\ saved = "answered" THEN @
                                      ELSE @ \cup {row}]
    /\ UNCHANGED <<stage, failureCache, openBefore, narrowly>>

\* saveFailedTranslationCache: the file is replaced by what the run knows, which
\* after RETRY_FAILED are its own failures.  That it cannot be written is only logged.
SaveFailedTranslations(written) ==
    /\ script.at = "translate"
    /\ script.tasks = <<>>
    /\ failureCache' = IF written /\ script.failed # {} THEN script.failed ELSE failureCache
    /\ openBefore' = IF written THEN openBefore ELSE {}
    /\ script' = [script EXCEPT !.at = "ready"]
    /\ UNCHANGED <<stage, summaryRows, narrowly>>

-----------------------------------------------------------------------------
(* Publishing. *)

\* A language counts as soon as one article of the batch has it.
AnyArticleBug(articles) ==
    {u \in articles : \A code \in script.codes : \E v \in articles : <<v, code>> \in summaryRows}

\* The articles that are complete now, in the languages of this run.
ReadyUrls(articles) == {u \in articles : {u} \X script.codes \subseteq summaryRows}

\* publishFullyTranslatedArticles, its lookup: over all articles that were read.
LookUpReady ==
    /\ script.at = "ready"
    /\ script' = [script EXCEPT !.at = "publish", !.articles = <<>>,
                                !.readyUrls = ReadyUrls(Range(script.articles))]
    /\ UNCHANGED <<stage, summaryRows, failureCache, openBefore, narrowly>>

\* And its update, which asks for nothing but the articles' URLs.  Failed or not,
\* PUBLISH_READY or not, the run is done.
PublishReady(applied) ==
    /\ script.at = "publish"
    /\ stage' = [u \in Cards |-> IF applied /\ u \in script.readyUrls THEN "published"
                                 ELSE stage[u]]
    /\ narrowly' = IF applied /\ ~(SiteLanguages \subseteq script.codes)
                   THEN narrowly \cup script.readyUrls ELSE narrowly
    /\ script' = [script EXCEPT !.at = "done"]
    /\ UNCHANGED <<summaryRows, failureCache, openBefore>>

\* The run is over, or a failed lookup or the operator has ended it.
EndScript ==
    /\ script.at # "stopped"
    /\ StopScript
    /\ openBefore' = {}
    /\ UNCHANGED <<stage, summaryRows, failureCache, narrowly>>

-----------------------------------------------------------------------------

\* What a run of the worker does to the tables.
WorkerRuns ==
    /\ Worker!Next
    /\ Worker!vars' # Worker!vars
    /\ UNCHANGED <<failureCache, script, openBefore, narrowly>>

BackfillNext ==
    \/ \E codes \in LanguageChoices, source \in {"articles", "public_feed_snapshot"},
          all, retry, force \in BOOLEAN : StartScript(codes, source, all, retry, force)
    \/ ScanPage
    \/ \E answering \in SUBSET Providers, saved \in {"answered", "lost", "failed"} :
          TranslateNext(answering, saved)
    \/ LookUpReady
    \/ \E done \in BOOLEAN : SaveFailedTranslations(done) \/ PublishReady(done)
    \/ EndScript
    \/ WorkerRuns

BackfillSpec == BackfillInit /\ [][BackfillNext]_backfillState

-----------------------------------------------------------------------------
(* Properties. *)

\* PUBLISH_READY publishes articles "after all language rows exist".  Of the languages
\* the worker waits for this holds but for the articles of runs that were set to fewer:
\* nothing else brings an article to the site early, not the time between a run's lookup
\* and its update, which the database does not check, not failures, runs that were ended
\* or what the worker does meanwhile.
EarlyOnlyIfNarrow ==
    \A u \in Cards : stage[u] = "published" /\ u \notin narrowly => Worker!Translated(u)

\* Runs that are repeated come to an end: one over all articles that kept its file of
\* failures, and was not told to redo what is done, has saved, or set aside as failed,
\* a row of its languages that was neither when it started, as long as an article there
\* had one.
HeadwayIsMade ==
    script.at = "done" /\ script.source = "articles" /\ ~script.retry /\ ~script.force
    /\ Cardinality(Cards) <= CandidateLimit =>
        openBefore = {} \/ ~(openBefore \subseteq UNION {Open(u, script.codes) : u \in Cards})
=============================================================================
