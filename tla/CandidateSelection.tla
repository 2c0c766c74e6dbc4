--------------------------- MODULE CandidateSelection ---------------------------
(***************************************************************************)
(* What a refresh makes of the articles its feeds name, up to the review:  *)
(* candidates in the order of their scores, those reviewed before left     *)
(* out, pages looked up for missing images, refusals without a verdict, and *)
(* the first of the rest reviewed (worker/src/index.ts).                   *)
(*                                                                         *)
(* A behaviour is one of refreshes that follow each other.  How claims     *)
(* come and go is in RefreshRuns, with the lock and backpressure, and what *)
(* becomes of an accepted article in ArticlePipeline.  Of a text only what *)
(* its score and the local filter count is kept.                           *)
(***************************************************************************)
EXTENDS ArticleImages

CONSTANTS
    Urls,
    FeedLists,      \* the lists of feeds considered; a feed is a sequence of items
    Pages,          \* the pages an article may have, a sequence
    PublishedOrder, \* the articles from the oldest to the newest
    MaxItemsPerFeed,
    MaxCandidates,  \* MAX_CANDIDATES_PER_RUN
    MaxAiReviews,   \* clampAiReviewLimit
    RequestedLookups,       \* articlePageImageLookupLimit
    EstimatedSubrequests,   \* MAX_ESTIMATED_SUBREQUESTS_PER_RUN
    ReservedSubrequests,    \* RESERVED_NON_FEED_SUBREQUESTS_PER_RUN
    RetryAfter,     \* NO_THUMBNAIL_RETRY_AFTER_HOURS
    MaxRepeats      \* reviews that may be made again, and decisions lost to it (a bound)

\* How many words of the lists POSITIVE_KEYWORDS and NEGATIVE_KEYWORDS a text has,
\* and of the lists HARD_NEGATIVE_KEYWORDS and HARD_POSITIVE_ESCAPE_KEYWORDS.
ScoredWords == [positives : Nat, negatives : Nat]
FilteredWords == [hard : Nat, escapes : Nat]

Texts == [source : {"positive", "strict", "other"}, long : BOOLEAN,
          scored : ScoredWords, filtered : FilteredWords]

Items == [url : Urls, text : Texts, blocks : Seq(Seq(Tags)),
          elements : Seq([element : STRING, declared : BOOLEAN, image : Images])]

ASSUME SelectionAssumption ==
    /\ IsFiniteSet(Urls)
    /\ \A l \in DOMAIN FeedLists : FeedLists[l] \in Seq(Seq(Items))
    /\ \A p \in DOMAIN Pages :
          Pages[p] \in [meta : Seq(Images), links : Seq([as : STRING, image : Images]),
                        jsonLd : Seq(Images), tags : Seq(Tags)]
    /\ PublishedOrder \in Seq(Urls) /\ \A u \in Urls : \E i \in DOMAIN PublishedOrder :
                                           PublishedOrder[i] = u
    /\ MaxItemsPerFeed \in Nat \ {0}
    /\ MaxCandidates \in Nat \ {0}
    /\ MaxAiReviews \in Nat \ {0}
    /\ RequestedLookups \in Nat
    /\ EstimatedSubrequests \in Nat
    /\ ReservedSubrequests \in Nat
    /\ RetryAfter \in Nat \ {0}
    /\ MaxRepeats \in Nat

VARIABLES
    feedList,       \* which list the shard's feeds are
    pageOf,         \* which page each article has
    recency,        \* of each article: 3 for a day, 2 for three, 1 for a week, 0
    verdict,         \* "none", "decided" or "no_thumbnail", of each article
    retryIn,        \* what a refusal for want of an image has left to live
    pageRead,       \* the page was read for that refusal (history)
    waits,          \* refreshes that had an image of an article, but no review (history)
    repeats         \* reviews that are made again, and decisions lost to it (history)

selectionState == <<feedList, pageOf, recency, verdict, retryIn, pageRead, waits, repeats>>

SelectionInit ==
    /\ feedList \in DOMAIN FeedLists
    /\ pageOf \in [Urls -> DOMAIN Pages]
    /\ recency = [u \in Urls |-> 3]
    /\ verdict = [u \in Urls |-> "none"]
    /\ retryIn = [u \in Urls |-> 0]
    /\ pageRead = [u \in Urls |-> FALSE]
    /\ waits = [u \in Urls |-> 0]
    /\ repeats = 0

page(u) == Pages[pageOf[u]]

-----------------------------------------------------------------------------
(* From the feeds to the candidates. *)

HasUsableThumbnail(article) ==
    article.imageUrl # NoImage /\ IsUsableImageUrl(article.imageUrl)

\* The articles of each list's feeds: the first items of each.
ParseRss ==
    [l \in DOMAIN FeedLists |->
        [f \in DOMAIN FeedLists[l] |->
            [i \in 1..Min({MaxItemsPerFeed, Len(FeedLists[l][f])}) |->
                LET item == FeedLists[l][f][i]
                IN [url |-> item.url, text |-> item.text,
                    imageUrl |-> ExtractRssImageUrl(item)]]]]

feeds == ParseRss[feedList]

\* Of several items of one URL, the first.
UniqueArticlesByUrl(places) ==
    LET url(place) == feeds[place[1]][place[2]].url
        earlier(p, q) == p[1] < q[1] \/ (p[1] = q[1] /\ p[2] < q[2])
        kept == {q \in places : \A p \in places : earlier(p, q) => url(p) # url(q)}
    IN {feeds[place[1]][place[2]] : place \in kept}

\* A feed that cannot be fetched offers nothing.
FetchRssArticles(failedFeeds) ==
    UniqueArticlesByUrl(UNION {{f} \X DOMAIN feeds[f] : f \in DOMAIN feeds \ failedFeeds})

RecencyScore == <<1, 3, 6>>

ScoreArticleCandidate(article) ==
    LET text == article.text
    IN (IF text.source = "positive" THEN 24 ELSE 0)
       + 3 * text.scored.positives - 7 * text.scored.negatives
       + (IF text.long THEN 2 ELSE 0)
       + (IF article.imageUrl # NoImage THEN 1 ELSE 0)
       + (IF recency[article.url] > 0 THEN RecencyScore[recency[article.url]] ELSE 0)

PublishedAt(article) == CHOOSE i \in DOMAIN PublishedOrder : PublishedOrder[i] = article.url

\* The first n of some articles in the order of the review: by score, then by date.
First(n, articles) ==
    LET before(a, b) ==
            LET difference == ScoreArticleCandidate(a) - ScoreArticleCandidate(b)
            IN difference > 0 \/ (difference = 0 /\ PublishedAt(a) > PublishedAt(b))
    IN {a \in articles : Cardinality({b \in articles : before(b, a)}) < n}

Candidates(failedFeeds) == First(MaxCandidates, FetchRssArticles(failedFeeds))

UrlsIn(articles) == {a.url : a \in articles}

-----------------------------------------------------------------------------
(* From the candidates to the reviews. *)

\* Only refusals for want of an image are remembered.
RefusalsOnlyBug(url) == retryIn[url] > 0

\* A refusal for want of an image holds for a while only.
Processed(url) == verdict[url] = "decided" \/ retryIn[url] > 0

\* What each page gives.
PageImages == [p \in DOMAIN Pages |-> ExtractArticlePageImageFromHtml(Pages[p])]

FetchArticlePageImage(article) == [article EXCEPT !.imageUrl = PageImages[pageOf[article.url]]]

Without(articles) == {a \in articles : ~HasUsableThumbnail(a)}

\* What feeds and reviews leave of the estimate.
LookupLimit ==
    LET left == EstimatedSubrequests - Len(feeds) - MaxAiReviews - ReservedSubrequests
    IN Max({0, Min({RequestedLookups, left})})

\* The pages of the first articles without an image are looked up; those in
\* unread do not answer.  The articles keep the order they had.
HydrateMissingArticleImages(articles, unread) ==
    LET looked == {a \in First(LookupLimit, Without(articles)) : a.url \notin unread}
    IN [read |-> UrlsIn(looked),
        articles |-> (articles \ looked) \cup {FetchArticlePageImage(a) : a \in looked}]

ShouldSkipBeforeAi(article) ==
    LET text == article.text
        limit == CASE text.source = "positive" -> 3
                   [] text.source = "strict" -> 1
                   [] OTHER -> 2
    IN text.filtered.hard >= limit /\ text.filtered.escapes = 0

\* Lookups that fail, or do not reach back far enough, miss articles decided on before.
SelectForReview(candidates, unread, missed) ==
    LET unreviewed == {a \in candidates : ~Processed(a.url) \/ a.url \in missed}
        hydrated == HydrateMissingArticleImages(unreviewed, unread)
        without == Without(hydrated.articles)
        skipped == {a \in hydrated.articles \ without : ShouldSkipBeforeAi(a)}
    IN [missed |-> {u \in missed : verdict[u] = "decided"},
        read |-> hydrated.read,
        noThumbnail |-> UrlsIn(without),
        skipped |-> UrlsIn(skipped),
        eligible |-> {a \in unreviewed : a.url \notin UrlsIn(without \cup skipped)}]

\* Articles that are claimed already are passed over.
ClaimArticlesForAiReview(articles, claimed) ==
    UrlsIn(First(MaxAiReviews, {a \in articles : a.url \notin claimed}))

-----------------------------------------------------------------------------
(* What the properties speak of: the images a document shows anywhere. *)

Shown(images) == \E i \in DOMAIN images : IsUsableImageUrl(images[i])

\* Of a srcset only an image of the highest score is sure to be tried.
TagsShow(tags) ==
    \E i \in DOMAIN tags :
        \/ Shown(tags[i].attributes)
        \/ \E best \in DOMAIN tags[i].srcset :
              /\ IsUsableImageUrl(tags[i].srcset[best].image)
              /\ \A other \in DOMAIN tags[i].srcset \ {best} :
                    tags[i].srcset[other].score < tags[i].srcset[best].score

ItemShows(item) ==
    \/ \E i \in DOMAIN item.elements : IsUsableImageUrl(item.elements[i].image)
    \/ \E i \in DOMAIN item.blocks : TagsShow(item.blocks[i])

PageShows(shown) ==
    \/ Shown(shown.meta) \/ Shown(shown.jsonLd) \/ TagsShow(shown.tags)
    \/ \E i \in DOMAIN shown.links :
          shown.links[i].as \in {"image", ""} /\ IsUsableImageUrl(shown.links[i].image)

\* The articles no later refresh reviews.
Decided == {u \in Urls : verdict[u] = "decided"}

-----------------------------------------------------------------------------
(* A refresh. *)

\* The save of the reviews may fail, or be put off for want of subrequests.  Final are,
\* if they are saved, the reviews that are no rejection whose reason names a missing
\* image, and in any case the articles that are saved as accepted, now or before.
RefreshArticles(run, claimed, saved, final) ==
    LET reviewed == ClaimArticlesForAiReview(run.eligible, claimed)
        decided == final \cup IF saved THEN run.skipped ELSE {}
        refused == IF saved THEN (run.noThumbnail \cup reviewed) \ final ELSE {}
        again == (reviewed \ final) \cup (reviewed \cap run.missed)
        lost == refused \cap run.missed
    IN /\ final \subseteq reviewed \cup (run.noThumbnail \cap run.missed)
       /\ repeats' = repeats + Cardinality(again) + Cardinality(lost)
       /\ repeats' <= MaxRepeats
       /\ verdict' = [u \in Urls |->
                       IF u \in decided THEN "decided"
                       ELSE IF u \in refused THEN "no_thumbnail"
                       ELSE verdict[u]]
       /\ retryIn' = [u \in Urls |->
                       IF u \in refused THEN RetryAfter
                       ELSE IF u \in decided THEN 0
                       ELSE retryIn[u]]
       /\ pageRead' = [u \in Urls |->
                       IF u \in refused \cup decided
                       THEN u \in refused \cap run.noThumbnail \cap run.read
                       ELSE pageRead[u]]
       /\ waits' = [u \in Urls |->
                       waits[u] + IF u \in UrlsIn(run.eligible) \ (reviewed \cup claimed)
                                  THEN 1 ELSE 0]
       /\ UNCHANGED <<feedList, pageOf, recency>>

-----------------------------------------------------------------------------

\* Any feeds, pages and lookups may fail to answer, and any articles be claimed.
Refreshes ==
    \E candidates \in {Candidates(failedFeeds) : failedFeeds \in SUBSET DOMAIN feeds} :
        \E run \in {SelectForReview(candidates, unread, missed) :
                      unread \in SUBSET UrlsIn(Without(candidates)),
                      missed \in SUBSET {u \in UrlsIn(candidates) : Processed(u)}} :
            \E claimed \in SUBSET UrlsIn(run.eligible), saved \in BOOLEAN,
               final \in SUBSET (UrlsIn(run.eligible) \cup run.noThumbnail) :
                RefreshArticles(run, claimed, saved, final)

Hour ==
    /\ \E u \in Urls : retryIn[u] > 0
    /\ retryIn' = [u \in Urls |-> IF retryIn[u] > 0 THEN retryIn[u] - 1 ELSE 0]
    /\ UNCHANGED <<feedList, pageOf, recency, verdict, pageRead, waits, repeats>>

\* An older article is never the more recent one.
GetsOld(u) ==
    /\ recency[u] > 0
    /\ \A i, j \in DOMAIN PublishedOrder :
          i < j /\ PublishedOrder[j] = u => recency[PublishedOrder[i]] < recency[u]
    /\ recency' = [recency EXCEPT ![u] = @ - 1]
    /\ UNCHANGED <<feedList, pageOf, verdict, retryIn, pageRead, waits, repeats>>

SelectionNext ==
    \/ Refreshes
    \/ Hour
    \/ \E u \in Urls : GetsOld(u)

SelectionSpec == SelectionInit /\ [][SelectionNext]_selectionState

-----------------------------------------------------------------------------
(* Properties. *)

\* An article whose page was read and that is refused for want of an image has
\* none: neither its page nor an item of it names a usable one, wherever it
\* stands and whatever unusable ones come before it (extractRssImageUrl,
\* extractArticlePageImageFromHtml).
NoThumbnailMeansNone ==
    \A u \in Urls : verdict[u] = "no_thumbnail" /\ pageRead[u] =>
        /\ ~PageShows(page(u))
        /\ \E f \in DOMAIN FeedLists[feedList] : \E i \in DOMAIN FeedLists[feedList][f] :
              LET item == FeedLists[feedList][f][i] IN item.url = u /\ ~ItemShows(item)

\* A turn is lost only to the reviews of others, and each of those counts once: the
\* refreshes that had an image of an article but no review for it made together no
\* more reviews than there are decisions on others, whatever feeds, pages, claims and
\* ages did to the order, but for those made again because a lookup missed the decision,
\* its save failed or its reason was a missing image (First,
\* shouldTreatReviewedRowAsProcessed, claimArticlesForAiReviewWithRedis).
TurnsGoToOthersOnce ==
    \A u \in Urls : MaxAiReviews * waits[u] <= Cardinality(Decided \ {u}) + repeats
=============================================================================
