------------------------- MODULE ArticlePipelineProofs -------------------------
(***************************************************************************)
(* The safety of the article pipeline and that it implements               *)
(* ArticlePromise, for any shards, articles and languages, any task limit  *)
(* and lookback, and any number of faults.                                 *)
(***************************************************************************)
EXTENDS ArticlePipeline, FiniteSetTheorems, SequenceTheorems, TLAPS

-----------------------------------------------------------------------------
(* The inductive invariant. *)

\* Every article that has a row has one place among the newest, and no other has any.
NewestInv ==
    /\ \A i \in DOMAIN newest : newest[i] \in Present
    /\ \A u \in Present : \E j \in DOMAIN newest : \A i \in DOMAIN newest : newest[i] = u <=> i = j

TableTypes ==
    /\ review \in [Articles -> Decisions \cup {"none"}]
    /\ status \in [Articles -> {"absent", "translation_pending", "published"}]
    /\ newest \in Seq(Articles)
    /\ NewestInv
    /\ summaries \in SUBSET (Present \X Languages)
    /\ remembered \in [Shards -> SUBSET Articles]
    /\ unsaved \in SUBSET Articles
    /\ unfinished \in SUBSET Articles
    /\ faults \in 0..MaxFaults

LocalTypes ==
    /\ pc \in [Shards -> PCs]
    /\ mode \in [Shards -> {"refresh", "backlog"}]
    /\ list \in [Shards -> SUBSET Articles]
    /\ reviewed \in [Shards -> [Articles -> Decisions \cup {"none"}]]
    /\ rows \in [Shards -> SUBSET Summary]
    /\ urls \in [Shards -> SUBSET Articles]

Reviewed(u) == review[u] # "none"

\* What a run holds is backed by the tables: its list by reviews, its summaries by
\* articles, and its accepted articles by their rows once it has tried to save them.
LocalInv(s) ==
    /\ \A u \in list[s] : Reviewed(u)
    /\ rows[s] \subseteq Present \X Languages
    /\ pc[s] = "idle" => reviewed[s] = Nothing
    /\ pc[s] \in {"translations", "summaries", "complete", "publish"} => Accepted(s) \subseteq Present
    /\ pc[s] = "reviews" => Accepted(s) \subseteq Present \cup unsaved
    /\ pc[s] = "remember" => \A u \in Articles : reviewed[s][u] # "none" => Reviewed(u)

RunInv == \A s \in Shards : LocalInv(s)

PipelineInv ==
    /\ TableTypes
    /\ LocalTypes
    /\ RunInv
    /\ PublishedIsTranslated
    /\ NoneForgotten
    /\ RememberedIsReviewed
    /\ AcceptedIsSaved

-----------------------------------------------------------------------------
(* What a step of one shard does to the others. *)

Kept(t) ==
    /\ pc'[t] = pc[t]
    /\ list'[t] = list[t]
    /\ reviewed'[t] = reviewed[t]
    /\ rows'[t] = rows[t]
    /\ urls'[t] = urls[t]

OthersKept(s) == \A t \in Shards \ {s} : Kept(t)

\* Nothing is deleted.
Grows ==
    /\ Present \subseteq Present'
    /\ \A u \in Articles : Reviewed(u) => Reviewed(u)'
    /\ summaries \subseteq summaries'
    /\ unsaved \subseteq unsaved'

LEMMA CallBounded ==
    ASSUME NEW happens, faults \in 0..MaxFaults, Fault(happens)
    PROVE  faults' \in 0..MaxFaults
BY FaultsAssumption DEF Fault

LEMMA OtherRuns ==
    ASSUME RunInv, LocalTypes, NEW s \in Shards, OthersKept(s), Grows, LocalInv(s)'
    PROVE  /\ RunInv'
           /\ \A t \in Shards \ {s}, u \in Articles : Publishing(t, u) => Publishing(t, u)'
<1>1. ASSUME NEW t \in Shards \ {s} PROVE LocalInv(t)'
  <2>1. LocalInv(t) /\ Kept(t) /\ list[t] \subseteq Articles
    BY DEF RunInv, OthersKept, LocalTypes
  <2>2. Accepted(t)' = Accepted(t)
    BY <2>1 DEF Accepted, Decided, Kept
  <2>3. /\ \A u \in list'[t] : Reviewed(u)'
        /\ rows'[t] \subseteq Present' \X Languages
    BY <2>1 DEF LocalInv, Kept, Grows
  <2>4. /\ pc'[t] = "idle" => reviewed'[t] = Nothing
        /\ pc'[t] = "remember" =>
              \A u \in Articles : reviewed'[t][u] # "none" => Reviewed(u)'
    BY <2>1 DEF LocalInv, Kept, Grows
  <2>5. /\ pc'[t] \in {"translations", "summaries", "complete", "publish"} =>
              Accepted(t)' \subseteq Present'
        /\ pc'[t] = "reviews" => Accepted(t)' \subseteq Present' \cup unsaved'
    BY <2>1, <2>2 DEF LocalInv, Kept, Grows
  <2> QED BY <2>3, <2>4, <2>5 DEF LocalInv, Nothing
<1>2. \A t \in Shards \ {s}, u \in Articles : Publishing(t, u) => Publishing(t, u)'
  BY DEF OthersKept, Kept, Publishing, UrlsOf
<1> QED BY <1>1, <1>2 DEF RunInv

LEMMA GotoKeeps ==
    ASSUME LocalTypes, NEW s \in Shards, NEW step \in PCs, Goto(s, step), UNCHANGED locals
    PROVE  LocalTypes' /\ OthersKept(s) /\ pc'[s] = step
BY DEF LocalTypes, Goto, locals, OthersKept, Kept

LEMMA EndKeeps ==
    ASSUME LocalTypes, NEW s \in Shards, End(s)
    PROVE  /\ LocalTypes' /\ OthersKept(s) /\ LocalInv(s)'
           /\ pc'[s] = "idle"
<1>1. /\ pc'[s] = "idle" /\ list'[s] = {} /\ reviewed'[s] = Nothing /\ rows'[s] = {}
  BY DEF End, Goto, LocalTypes
<1>2. Nothing \in [Articles -> Decisions \cup {"none"}]
  BY DEF Nothing
<1>3. LocalTypes'
  BY <1>2 DEF End, Goto, LocalTypes, PCs
<1>4. OthersKept(s)
  BY DEF End, Goto, LocalTypes, OthersKept, Kept
<1> QED BY <1>1, <1>3, <1>4 DEF LocalInv, Nothing

\* After the publishing a refresh goes on with its reviews.
LEMMA PublishedKeeps ==
    ASSUME LocalTypes, NEW s \in Shards, Published(s), LocalInv(s), Grows,
           Accepted(s) \subseteq Present' \cup unsaved'
    PROVE  LocalTypes' /\ OthersKept(s) /\ LocalInv(s)' /\ pc'[s] \in {"idle", "reviews"}
<1>1. CASE End(s)
  BY <1>1, EndKeeps
<1>2. CASE ~End(s)
  <2>1. /\ Goto(s, "reviews")
        /\ rows' = [rows EXCEPT ![s] = {}]
        /\ urls' = [urls EXCEPT ![s] = {}]
        /\ UNCHANGED <<mode, list, reviewed>>
    BY <1>2 DEF Published
  <2>2. LocalTypes' /\ OthersKept(s)
    BY <2>1 DEF LocalTypes, Goto, PCs, OthersKept, Kept
  <2>3. pc'[s] = "reviews" /\ rows'[s] = {} /\ Accepted(s)' = Accepted(s)
    BY <2>1 DEF LocalTypes, Goto, Accepted, Decided
  <2>4. \A u \in list'[s] : Reviewed(u)'
    BY <2>1 DEF LocalTypes, LocalInv, Grows
  <2> QED BY <2>2, <2>3, <2>4 DEF LocalInv
<1> QED BY <1>1, <1>2

-----------------------------------------------------------------------------
(* Steps that leave the tables alone. *)

LEMMA LocalStep ==
    ASSUME PipelineInv, NEW s \in Shards, UNCHANGED <<tables, remembered, unsaved>>,
           unfinished' \in SUBSET Articles, unfinished \subseteq unfinished',
           faults' \in 0..MaxFaults, LocalTypes', OthersKept(s), LocalInv(s)',
           \A u \in Articles : Translated(u) /\ Publishing(s, u) =>
               u \in unfinished' \/ Publishing(s, u)'
    PROVE  PipelineInv'
<1> USE DEF PipelineInv
<1>1. UNCHANGED <<review, status, newest, summaries>> /\ Present' = Present
  BY DEF tables, Present
<1>2. TableTypes'
  BY <1>1 DEF TableTypes, NewestInv
<1>3. Grows
  BY <1>1 DEF Grows, Reviewed
<1>4. /\ RunInv'
      /\ \A t \in Shards \ {s}, u \in Articles : Publishing(t, u) => Publishing(t, u)'
  BY <1>3, OtherRuns
<1>5. \A u \in Articles : Translated(u)' = Translated(u)
  BY <1>1 DEF Translated, Complete
<1>6. PublishedIsTranslated'
  BY <1>1, <1>5 DEF PublishedIsTranslated
<1>7. NoneForgotten'
  BY <1>1, <1>4, <1>5 DEF NoneForgotten
<1>8. RememberedIsReviewed' /\ AcceptedIsSaved'
  BY <1>1 DEF RememberedIsReviewed, AcceptedIsSaved
<1> QED BY <1>2, <1>4, <1>6, <1>7, <1>8

LEMMA RefreshStep == ASSUME PipelineInv, NEW s \in Shards, Refresh(s) PROVE PipelineInv'
<1> USE DEF PipelineInv
<1>1. PICK found \in SUBSET remembered[s], reviewsRead \in BOOLEAN, articlesRead \in BOOLEAN,
           expired \in SUBSET Retryable :
        LET known == found \cup KnownToDatabase(reviewsRead, articlesRead, expired) IN
        /\ Fault(~reviewsRead \/ ~articlesRead)
        /\ list' = [list EXCEPT ![s] = found]
        /\ \E decision \in [Articles \ known -> Decisions \cup {"none"}] :
              reviewed' = [reviewed EXCEPT ![s] =
                             [u \in Articles |-> IF u \in known THEN "none" ELSE decision[u]]]
  BY DEF Refresh
<1>2. PICK new \in [Articles -> Decisions \cup {"none"}] : reviewed' = [reviewed EXCEPT ![s] = new]
  BY <1>1
<1>3. faults' \in 0..MaxFaults
  BY <1>1, CallBounded DEF TableTypes
<1>4. /\ pc[s] = "idle" /\ pc' = [pc EXCEPT ![s] = "articles"]
      /\ UNCHANGED <<tables, remembered, mode, rows, urls, unsaved, unfinished>>
  BY DEF Refresh, Goto, history
<1>5. LocalTypes'
  BY <1>1, <1>2, <1>4 DEF LocalTypes, PCs, TableTypes
<1>6. OthersKept(s)
  BY <1>1, <1>4 DEF LocalTypes, OthersKept, Kept
<1>7. LocalInv(s)'
  <2>1. UNCHANGED <<review, status, rows>> /\ pc'[s] = "articles" /\ list'[s] = found
    BY <1>1, <1>4 DEF tables, LocalTypes
  <2>2. \A u \in found : Reviewed(u)
    BY <1>1 DEF RememberedIsReviewed, Reviewed
  <2>3. rows[s] \subseteq Present \X Languages
    BY DEF RunInv, LocalInv
  <2> QED BY <2>1, <2>2, <2>3 DEF LocalInv, Reviewed, Present
<1>8. \A u \in Articles : ~Publishing(s, u)
  BY <1>4 DEF Publishing
<1> QED BY <1>3, <1>4, <1>5, <1>6, <1>7, <1>8, LocalStep DEF TableTypes

LEMMA BacklogStep == ASSUME PipelineInv, NEW s \in Shards, Backlog(s) PROVE PipelineInv'
<1> USE DEF PipelineInv
<1>1. /\ pc[s] = "idle" /\ pc' = [pc EXCEPT ![s] = "translations"]
      /\ mode' = [mode EXCEPT ![s] = "backlog"]
      /\ UNCHANGED <<tables, remembered, list, reviewed, rows, urls, unsaved, unfinished, faults>>
  BY DEF Backlog, Goto, history
<1>2. LocalTypes' /\ OthersKept(s)
  BY <1>1 DEF LocalTypes, PCs, OthersKept, Kept
<1>3. LocalInv(s)'
  <2>1. LocalInv(s) /\ UNCHANGED <<review, status>> /\ pc'[s] = "translations"
    BY <1>1 DEF RunInv, tables, LocalTypes
  <2>2. Accepted(s) = {}
    BY <1>1, <2>1 DEF LocalInv, Nothing, Accepted, Decided
  <2>3. Accepted(s)' = {}
    BY <1>1, <2>2 DEF Accepted, Decided
  <2> QED BY <1>1, <2>1, <2>3 DEF LocalInv, Reviewed, Present
<1>4. \A u \in Articles : ~Publishing(s, u)
  BY <1>1 DEF Publishing
<1> QED BY <1>1, <1>2, <1>3, <1>4, LocalStep DEF TableTypes

\* Whatever a run translates is of an article that has its row.
LEMMA TasksOfPresent ==
    ASSUME TableTypes, NEW s \in Shards, Accepted(s) \subseteq Present, NEW known, NEW knownThen,
           NEW budget, NEW tasks \in Tasks(s, known, knownThen, budget)
    PROVE  tasks \subseteq Present \X Languages
<1>1. RecoveryArticles(s, known, budget) \subseteq Present
  <2>1. \A u \in RecoveryArticles(s, known, budget) : \E i \in DOMAIN newest : u = newest[i]
    BY DEF RecoveryArticles, Gaps
  <2> QED BY <2>1 DEF TableTypes, NewestInv
<1> DEFINE lacking == (RecoveryArticles(s, known, budget) \X Languages) \ knownThen
<1>2. PICK recovery \in AtMost(budget, lacking) :
        \E chosen \in AtMost((budget - Cardinality(recovery)) \div Cardinality(Languages),
                             Accepted(s)) :
           tasks = recovery \cup (chosen \X Languages)
  <2> DEFINE of(recovery) ==
               {recovery \cup (chosen \X Languages) :
                   chosen \in AtMost((budget - Cardinality(recovery)) \div Cardinality(Languages),
                                    Accepted(s))}
  <2>1. tasks \in UNION {of(recovery) : recovery \in AtMost(budget, lacking)}
    BY Zenon DEF Tasks
  <2>2. PICK recovery \in AtMost(budget, lacking) : tasks \in of(recovery)
    BY <2>1
  <2> QED BY <2>2
<1>3. recovery \subseteq Present \X Languages
  <2>1. recovery \subseteq lacking
    BY <1>2 DEF AtMost
  <2> QED BY <1>1, <2>1
<1>4. PICK chosen \in AtMost((budget - Cardinality(recovery)) \div Cardinality(Languages),
                            Accepted(s)) :
         tasks = recovery \cup (chosen \X Languages)
  BY <1>2
<1>5. chosen \subseteq Present
  BY <1>4 DEF AtMost
<1> QED BY <1>3, <1>4, <1>5

LEMMA BuildTranslationsStep ==
    ASSUME PipelineInv, NEW s \in Shards, BuildTranslations(s) PROVE PipelineInv'
<1> USE DEF PipelineInv
<1>1. /\ pc[s] = "translations" /\ LocalInv(s)
      /\ UNCHANGED <<tables, remembered, unsaved, unfinished>>
  BY DEF BuildTranslations, RunInv, history
<1>2. Accepted(s) \subseteq Present
  BY <1>1 DEF LocalInv
<1>3. UNCHANGED <<review, status, newest, summaries>> /\ Present' = Present
  BY <1>1 DEF tables, Present
<1>4. PICK budget \in IF mode[s] = "backlog" THEN {TaskLimit} ELSE 0..TaskLimit,
           known \in {summaries, {}}, knownThen \in {summaries, {}} :
        \E tasks \in Tasks(s, known, knownThen, budget) :
        \E done \in SUBSET tasks :
           /\ Fault(known # summaries \/ knownThen # summaries \/ done # tasks)
           /\ IF done = {} THEN Published(s)
              ELSE /\ Goto(s, "summaries")
                   /\ rows' = [rows EXCEPT ![s] = done]
                   /\ UNCHANGED <<mode, list, reviewed, urls>>
  BY DEF BuildTranslations
<1>5. PICK tasks \in Tasks(s, known, knownThen, budget), happens \in BOOLEAN :
        \E done \in SUBSET tasks :
           /\ Fault(happens)
           /\ IF done = {} THEN Published(s)
              ELSE /\ Goto(s, "summaries")
                   /\ rows' = [rows EXCEPT ![s] = done]
                   /\ UNCHANGED <<mode, list, reviewed, urls>>
  BY <1>4
<1>6. PICK done \in SUBSET tasks :
           /\ Fault(happens)
           /\ IF done = {} THEN Published(s)
              ELSE /\ Goto(s, "summaries")
                   /\ rows' = [rows EXCEPT ![s] = done]
                   /\ UNCHANGED <<mode, list, reviewed, urls>>
  BY <1>5
<1>7. faults' \in 0..MaxFaults
  BY <1>6, CallBounded DEF TableTypes
<1>8. done \subseteq Present \X Languages
  BY <1>2, TasksOfPresent
<1>9. Grows
  BY <1>1, <1>3 DEF Grows, Reviewed
<1>10. LocalTypes' /\ OthersKept(s) /\ LocalInv(s)'
  <2>1. CASE done = {}
    BY <1>1, <1>2, <1>3, <1>6, <1>9, <2>1, PublishedKeeps
  <2>2. CASE done # {}
    <3>1. /\ pc' = [pc EXCEPT ![s] = "summaries"]
          /\ rows' = [rows EXCEPT ![s] = done]
          /\ UNCHANGED <<mode, list, reviewed, urls>>
      BY <1>6, <2>2 DEF Goto
    <3>2. LocalTypes' /\ OthersKept(s)
      BY <1>8, <3>1 DEF LocalTypes, PCs, OthersKept, Kept, Summary, Present
    <3>3. pc'[s] = "summaries" /\ rows'[s] = done /\ Accepted(s)' = Accepted(s)
      BY <3>1 DEF LocalTypes, Accepted, Decided
    <3> QED BY <1>1, <1>2, <1>3, <1>8, <3>1, <3>2, <3>3 DEF LocalInv, Reviewed
  <2> QED BY <2>1, <2>2
<1>11. \A u \in Articles : ~Publishing(s, u)
  BY <1>1 DEF Publishing
<1> QED BY <1>1, <1>7, <1>10, <1>11, LocalStep DEF TableTypes

LEMMA UrlsOfArticles ==
    ASSUME LocalTypes, NEW s \in Shards PROVE UrlsOf(rows[s]) \subseteq Articles
BY DEF UrlsOf, LocalTypes, Summary

LEMMA LookUpCompleteStep ==
    ASSUME PipelineInv, NEW s \in Shards, NEW answered \in BOOLEAN, LookUpComplete(s, answered)
    PROVE  PipelineInv'
<1> USE DEF PipelineInv
<1>1. /\ pc[s] = "complete" /\ LocalInv(s)
      /\ UNCHANGED <<tables, remembered, unsaved>>
  BY DEF LookUpComplete, RunInv
<1>2. Accepted(s) \subseteq Present
  BY <1>1 DEF LocalInv
<1>3. UNCHANGED <<review, status, newest, summaries>> /\ Present' = Present
  BY <1>1 DEF tables, Present
<1>4. faults' \in 0..MaxFaults
  BY CallBounded DEF LookUpComplete, TableTypes
<1>5. unfinished' \in SUBSET Articles /\ unfinished \subseteq unfinished'
  BY UrlsOfArticles DEF LookUpComplete, TableTypes
<1>6. Grows
  BY <1>1, <1>3 DEF Grows, Reviewed
<1>7. FullyTranslated(s) \subseteq Articles
  BY UrlsOfArticles, <1>2 DEF FullyTranslated, Present
<1>8. LocalTypes' /\ OthersKept(s) /\ LocalInv(s)'
  <2>1. CASE ~(answered /\ FullyTranslated(s) # {})
    BY <1>1, <1>2, <1>3, <1>6, <2>1, PublishedKeeps DEF LookUpComplete
  <2>2. CASE answered /\ FullyTranslated(s) # {}
    <3>1. /\ pc' = [pc EXCEPT ![s] = "publish"]
          /\ urls' = [urls EXCEPT ![s] = FullyTranslated(s)]
          /\ rows' = [rows EXCEPT ![s] = {}]
          /\ UNCHANGED <<mode, list, reviewed>>
      BY <2>2 DEF LookUpComplete, Goto
    <3>2. LocalTypes' /\ OthersKept(s)
      BY <1>7, <3>1 DEF LocalTypes, PCs, OthersKept, Kept
    <3>3. pc'[s] = "publish" /\ rows'[s] = {} /\ Accepted(s)' = Accepted(s)
      BY <3>1 DEF LocalTypes, Accepted, Decided
    <3> QED BY <1>1, <1>2, <1>3, <3>1, <3>2, <3>3 DEF LocalInv, Reviewed
  <2> QED BY <2>1, <2>2
<1>9. ASSUME NEW u \in Articles, Translated(u), Publishing(s, u)
      PROVE  u \in unfinished' \/ Publishing(s, u)'
  <2>1. u \in UrlsOf(rows[s])
    BY <1>1, <1>9 DEF Publishing
  <2>2. CASE ~answered
    BY <2>1, <2>2 DEF LookUpComplete
  <2>3. CASE answered
    <3>1. u \in FullyTranslated(s)
      BY <1>9, <2>1 DEF FullyTranslated
    <3>2. pc' = [pc EXCEPT ![s] = "publish"] /\ urls' = [urls EXCEPT ![s] = FullyTranslated(s)]
      BY <2>3, <3>1 DEF LookUpComplete, Goto
    <3> QED BY <3>1, <3>2 DEF Publishing, LocalTypes
  <2> QED BY <2>2, <2>3
<1> QED BY <1>1, <1>4, <1>5, <1>8, <1>9, LocalStep

LEMMA CutOffStep == ASSUME PipelineInv, NEW s \in Shards, CutOff(s) PROVE PipelineInv'
<1> USE DEF PipelineInv
<1>1. UNCHANGED <<tables, remembered, unsaved>> /\ faults' \in 0..MaxFaults
  BY CallBounded DEF CutOff, TableTypes
<1>2. LocalTypes' /\ OthersKept(s) /\ LocalInv(s)'
  BY EndKeeps DEF CutOff
<1>3. unfinished' \in SUBSET Articles /\ unfinished \subseteq unfinished'
  BY UrlsOfArticles DEF CutOff, TableTypes, LocalTypes
<1>4. \A u \in Articles : Publishing(s, u) => u \in unfinished'
  BY DEF CutOff, Publishing
<1> QED BY <1>1, <1>2, <1>3, <1>4, LocalStep

-----------------------------------------------------------------------------
(* Steps that write the tables. *)

LEMMA FirstNumbers ==
    ASSUME NEW n \in Nat PROVE IsFiniteSet(1..n) /\ Cardinality(1..n) = n
<1>1. 1 \in Int /\ n \in Int
  OBVIOUS
<1>2. /\ IsFiniteSet(1..n)
      /\ Cardinality(1..n) = IF 1 > n THEN 0 ELSE n - 1 + 1
  BY <1>1, FS_Interval, Zenon
<1> QED BY <1>2

\* New rows go before the others, in any order.
LEMMA NewestKept ==
    ASSUME TableTypes, NEW S \in SUBSET (Articles \ Present), NEW order \in Orders(S),
           newest' = order \o newest, Present' = Present \cup S
    PROVE  newest' \in Seq(Articles) /\ NewestInv'
<1> DEFINE n == Cardinality(S)
<1>1. IsFiniteSet(S)
  BY PipelineAssumption, FS_Subset DEF Present
<1>2. n \in Nat
  BY <1>1, FS_CardinalityType
<1>3. /\ order \in [1..n -> S]
      /\ \A u \in S : \E i \in 1..n : order[i] = u
  BY DEF Orders
<1>4. \A i, k \in 1..n : order[i] = order[k] => i = k
  <2>1. order \in Surjection(1..n, S)
    BY <1>3 DEF Surjection
  <2>2. IsFiniteSet(1..n) /\ Cardinality(1..n) = n
    BY <1>2, FirstNumbers
  <2>3. order \in Injection(1..n, S)
    BY <2>1, <2>2, FS_SurjSameCardinalityImpliesInj
  <2> QED BY <1>3, <2>3 DEF Injection, IsInjective
<1>5. order \in Seq(Articles) /\ Len(order) = n
  BY <1>2, <1>3
<1>6. newest \in Seq(Articles)
  BY DEF TableTypes
<1> DEFINE m == Len(newest)
<1>7. /\ newest' \in Seq(Articles)
      /\ Len(newest') = n + m
      /\ \A i \in 1..n + m : newest'[i] = IF i <= n THEN order[i] ELSE newest[i - n]
  BY <1>5, <1>6, ConcatProperties
<1>8. m \in Nat /\ DOMAIN newest = 1..m /\ DOMAIN newest' = 1..n + m
  BY <1>2, <1>6, <1>7
<1> HIDE DEF n, m
<1>9. \A i \in 1..n : newest'[i] \in S /\ newest'[i] = order[i]
  <2>1. \A i \in 1..n : i \in 1..n + m /\ i <= n
    BY <1>2, <1>8
  <2>2. \A i \in 1..n : newest'[i] = order[i]
    BY <1>7, <2>1
  <2> QED BY <1>3, <2>2
<1>10. \A i \in n + 1..n + m : i - n \in 1..m /\ newest'[i] = newest[i - n]
  BY <1>2, <1>7, <1>8
<1>11. \A i \in 1..n + m : i \in 1..n \/ i \in n + 1..n + m
  BY <1>2, <1>8
<1>12. \A i \in n + 1..n + m : newest'[i] \in Present
  BY <1>8, <1>10 DEF TableTypes, NewestInv
<1>13. \A i \in DOMAIN newest' : newest'[i] \in Present'
  BY <1>8, <1>9, <1>11, <1>12
<1>14. ASSUME NEW u \in S
       PROVE  \E j \in DOMAIN newest' : \A i \in DOMAIN newest' : newest'[i] = u <=> i = j
  <2>1. PICK j \in 1..n : order[j] = u
    BY <1>3
  <2>2. j \in DOMAIN newest' /\ newest'[j] = u
    BY <1>2, <1>8, <1>9, <2>1
  <2>3. \A i \in 1..n : newest'[i] = u => i = j
    BY <1>4, <1>9, <2>1
  <2>4. \A i \in n + 1..n + m : newest'[i] # u
    BY <1>12
  <2> QED BY <1>8, <1>11, <2>2, <2>3, <2>4
<1>15. ASSUME NEW u \in Present
       PROVE  \E j \in DOMAIN newest' : \A i \in DOMAIN newest' : newest'[i] = u <=> i = j
  <2>1. PICK j \in DOMAIN newest : \A i \in DOMAIN newest : newest[i] = u <=> i = j
    BY DEF TableTypes, NewestInv
  <2>6. j \in 1..m /\ newest[j] = u /\ \A i \in 1..m : newest[i] = u => i = j
    BY <1>8, <2>1
  <2>2. n + j \in n + 1..n + m /\ n + j \in DOMAIN newest' /\ (n + j) - n = j
    BY <1>2, <1>8, <2>6
  <2>3. newest'[n + j] = u
    BY <1>10, <2>2, <2>6
  <2>4. \A i \in 1..n : newest'[i] # u
    BY <1>9
  <2>5. ASSUME NEW i \in n + 1..n + m, newest'[i] = u PROVE i = n + j
    <3>1. i - n \in 1..m /\ newest[i - n] = u
      BY <1>10, <2>5
    <3>2. i - n = j
      BY <2>6, <3>1
    <3> QED BY <1>2, <2>6, <3>2
  <2> QED BY <1>8, <1>11, <2>2, <2>3, <2>4, <2>5
<1> QED BY <1>7, <1>13, <1>14, <1>15 DEF NewestInv

\* An article without a row has no summaries.
LEMMA UntranslatedIfAbsent ==
    ASSUME TableTypes, NEW u \in Articles \ Present PROVE ~Translated(u)
<1>1. PICK l \in Languages : TRUE
  BY PipelineAssumption
<1>2. <<u, l>> \notin summaries
  BY DEF TableTypes
<1> QED BY <1>1, <1>2 DEF Translated, Complete

LEMMA SaveArticlesStep ==
    ASSUME PipelineInv, NEW s \in Shards, NEW outcome \in Outcomes, SaveArticles(s, outcome)
    PROVE  PipelineInv'
<1> USE DEF PipelineInv
<1> DEFINE S == IF outcome = "failed" THEN {} ELSE Accepted(s) \ Present
<1>1. /\ pc[s] = "articles" /\ LocalInv(s)
      /\ UNCHANGED <<review, summaries, remembered, locals, unfinished>>
      /\ faults' \in 0..MaxFaults
  BY CallBounded DEF SaveArticles, RunInv, Call, TableTypes
<1>2. Accepted(s) \subseteq Articles /\ S \in SUBSET (Articles \ Present)
  BY DEF Accepted, Decided
<1>3. /\ status' \in [Articles -> {"absent", "translation_pending", "published"}]
      /\ \A u \in S : status'[u] = "translation_pending"
      /\ \A u \in Articles \ S : status'[u] = status[u]
  <2>1. CASE outcome = "failed"
    BY <2>1 DEF SaveArticles, TableTypes
  <2>2. CASE outcome # "failed"
    <3>1. status' = [u \in Articles |-> IF u \in S THEN "translation_pending" ELSE status[u]]
      BY <2>2 DEF SaveArticles, ArticleRows, Inserted, InitialStatus
    <3> QED BY <1>2, <3>1 DEF TableTypes
  <2> QED BY <2>1, <2>2
<1>4. Present' = Present \cup S
  BY <1>2, <1>3 DEF Present
<1>5. newest' \in Seq(Articles) /\ NewestInv'
  <2>1. CASE outcome = "failed"
    <3>1. newest' = newest /\ Present' = Present
      BY <1>4, <2>1 DEF SaveArticles
    <3> QED BY <3>1 DEF NewestInv, TableTypes
  <2>2. CASE outcome # "failed"
    <3>1. PICK order \in Orders(S) : newest' = order \o newest
      BY <2>2 DEF SaveArticles, ArticleRows, Inserted
    <3> QED BY <1>2, <1>4, <3>1, NewestKept
  <2> QED BY <2>1, <2>2
<1>6. /\ unsaved' \in SUBSET Articles /\ unsaved \subseteq unsaved'
      /\ Accepted(s) \subseteq Present' \cup unsaved'
      /\ outcome = "answered" => Accepted(s) \subseteq Present'
  BY <1>2, <1>4 DEF SaveArticles, ArticleRows, TableTypes
<1>7. TableTypes'
  BY <1>1, <1>3, <1>4, <1>5, <1>6 DEF TableTypes
<1>8. Grows
  BY <1>1, <1>4, <1>6 DEF Grows, Reviewed
<1>9. LocalTypes' /\ OthersKept(s) /\ LocalInv(s)'
  <2>1. PICK step \in {"translations", "reviews"} :
           /\ Goto(s, step)
           /\ step = "translations" => outcome = "answered"
    BY DEF SaveArticles
  <2>2. LocalTypes' /\ OthersKept(s) /\ pc'[s] = step
    BY <1>1, <2>1, GotoKeeps DEF PCs
  <2>3. Accepted(s)' = Accepted(s) /\ list' = list /\ rows' = rows
    BY <1>1 DEF locals, Accepted, Decided
  <2>4. /\ \A u \in list'[s] : Reviewed(u)'
        /\ rows'[s] \subseteq Present' \X Languages
    BY <1>1, <1>4, <2>3 DEF LocalInv, Reviewed
  <2> QED BY <1>6, <2>1, <2>2, <2>3, <2>4 DEF LocalInv
<1>10. /\ RunInv'
       /\ \A t \in Shards \ {s}, u \in Articles : Publishing(t, u) => Publishing(t, u)'
  BY <1>8, <1>9, OtherRuns
<1>11. \A u \in Articles : ~Publishing(s, u)
  BY <1>1 DEF Publishing
<1>12. \A u \in Articles : Translated(u)' = Translated(u)
  BY <1>1 DEF Translated, Complete
<1>13. PublishedIsTranslated'
  BY <1>3, <1>12 DEF PublishedIsTranslated
<1>14. NoneForgotten'
  BY <1>1, <1>2, <1>3, <1>10, <1>11, <1>12, UntranslatedIfAbsent DEF NoneForgotten
<1>15. RememberedIsReviewed' /\ AcceptedIsSaved'
  BY <1>1, <1>4, <1>6 DEF RememberedIsReviewed, AcceptedIsSaved
<1> QED BY <1>7, <1>9, <1>10, <1>13, <1>14, <1>15

LEMMA SaveSummariesStep ==
    ASSUME PipelineInv, NEW s \in Shards, NEW outcome \in Outcomes, SaveSummaries(s, outcome)
    PROVE  PipelineInv'
<1> USE DEF PipelineInv
<1>1. /\ pc[s] = "summaries" /\ LocalInv(s)
      /\ UNCHANGED <<review, status, newest, remembered, unsaved>>
      /\ faults' \in 0..MaxFaults
  BY CallBounded DEF SaveSummaries, RunInv, Call, TableTypes
<1>2. Present' = Present /\ rows[s] \subseteq Present \X Languages /\ Accepted(s) \subseteq Present
  BY <1>1 DEF Present, LocalInv
<1>3. /\ summaries \subseteq summaries' /\ summaries' \subseteq summaries \cup rows[s]
      /\ outcome = "failed" => summaries' = summaries
  BY DEF SaveSummaries
<1>4. /\ unfinished' \in SUBSET Articles /\ unfinished \subseteq unfinished'
      /\ outcome = "lost" => UrlsOf(rows[s]) \subseteq unfinished'
  BY UrlsOfArticles DEF SaveSummaries, TableTypes
<1>5. TableTypes'
  BY <1>1, <1>2, <1>3, <1>4 DEF TableTypes, NewestInv
<1>6. Grows
  BY <1>1, <1>2, <1>3 DEF Grows, Reviewed
<1>7. /\ LocalTypes' /\ OthersKept(s) /\ LocalInv(s)'
      /\ outcome = "answered" => pc'[s] = "complete" /\ rows'[s] = rows[s]
  <2>1. CASE outcome = "answered"
    <3>1. Goto(s, "complete") /\ UNCHANGED locals
      BY <2>1 DEF SaveSummaries
    <3>2. LocalTypes' /\ OthersKept(s) /\ pc'[s] = "complete"
      BY <3>1, GotoKeeps DEF PCs
    <3>3. Accepted(s)' = Accepted(s) /\ list' = list /\ rows' = rows
      BY <3>1 DEF locals, Accepted, Decided
    <3> QED BY <1>1, <1>2, <3>2, <3>3 DEF LocalInv, Reviewed
  <2>2. CASE outcome # "answered"
    BY <1>1, <1>2, <1>6, <2>2, PublishedKeeps DEF SaveSummaries
  <2> QED BY <2>1, <2>2
<1>8. /\ RunInv'
      /\ \A t \in Shards \ {s}, u \in Articles : Publishing(t, u) => Publishing(t, u)'
  BY <1>6, <1>7, OtherRuns
<1>9. \A u \in Articles : ~Publishing(s, u)
  BY <1>1 DEF Publishing
<1>10. \A u \in Articles : Translated(u) => Translated(u)'
  BY <1>3 DEF Translated, Complete
<1>11. PublishedIsTranslated'
  BY <1>1, <1>10 DEF PublishedIsTranslated
<1>12. ASSUME NEW u \in Articles, status[u] = "translation_pending", Translated(u)',
              u \notin unfinished'
       PROVE  \E t \in Shards : Publishing(t, u)'
  <2>1. CASE Translated(u)
    <3>1. PICK t \in Shards : Publishing(t, u)
      BY <1>4, <1>12, <2>1 DEF NoneForgotten
    <3> QED BY <1>8, <1>9, <3>1
  <2>2. CASE ~Translated(u)
    <3>1. summaries' # summaries /\ outcome # "failed"
      BY <1>3, <1>12, <2>2 DEF Translated, Complete
    <3>2. u \in UrlsOf(rows[s])
      <4>1. PICK row \in {u} \X Languages : row \in summaries' /\ row \notin summaries
        BY <1>12, <2>2 DEF Translated, Complete
      <4>2. row \in rows[s] /\ row[1] = u
        BY <1>3, <4>1
      <4> QED BY <4>2 DEF UrlsOf
    <3>3. outcome = "answered"
      BY <1>4, <1>12, <3>1, <3>2 DEF Outcomes
    <3> QED BY <1>7, <3>2, <3>3 DEF Publishing, UrlsOf
  <2> QED BY <2>1, <2>2
<1>13. NoneForgotten'
  BY <1>1, <1>12 DEF NoneForgotten
<1>14. RememberedIsReviewed' /\ AcceptedIsSaved'
  BY <1>1, <1>2 DEF RememberedIsReviewed, AcceptedIsSaved
<1> QED BY <1>5, <1>7, <1>8, <1>11, <1>13, <1>14

LEMMA PublishArticlesStep ==
    ASSUME PipelineInv, NEW s \in Shards, NEW outcome \in Outcomes, PublishArticles(s, outcome)
    PROVE  PipelineInv'
<1> USE DEF PipelineInv
<1>1. /\ pc[s] = "publish" /\ LocalInv(s)
      /\ UNCHANGED <<review, newest, summaries, remembered, unsaved>>
      /\ faults' \in 0..MaxFaults
  BY CallBounded DEF PublishArticles, RunInv, Call, TableTypes
<1>2. /\ status' = [u \in Articles |-> IF outcome # "failed" /\ u \in Publishable(s)
                                     THEN "published" ELSE status[u]]
      /\ status' \in [Articles -> {"absent", "translation_pending", "published"}]
  BY DEF PublishArticles, TableTypes
<1>3. Present' = Present
  BY <1>2 DEF Present, Publishable
<1>4. /\ unfinished' \in SUBSET Articles /\ unfinished \subseteq unfinished'
      /\ outcome = "failed" => urls[s] \subseteq unfinished'
  BY DEF PublishArticles, TableTypes, LocalTypes
<1>5. TableTypes'
  BY <1>1, <1>2, <1>3, <1>4 DEF TableTypes, NewestInv
<1>6. Grows
  BY <1>1, <1>3 DEF Grows, Reviewed
<1>7. LocalTypes' /\ OthersKept(s) /\ LocalInv(s)'
  <2>1. Accepted(s) \subseteq Present' \cup unsaved'
    BY <1>1, <1>3 DEF LocalInv
  <2> QED BY <1>1, <1>6, <2>1, PublishedKeeps DEF PublishArticles
<1>8. /\ RunInv'
      /\ \A t \in Shards \ {s}, u \in Articles : Publishing(t, u) => Publishing(t, u)'
  BY <1>6, <1>7, OtherRuns
<1>9. \A u \in Articles : Translated(u)' = Translated(u)
  BY <1>1 DEF Translated, Complete
<1>10. PublishedIsTranslated'
  BY <1>2, <1>9 DEF PublishedIsTranslated, Publishable
<1>11. ASSUME NEW u \in Articles, status'[u] = "translation_pending", Translated(u),
              u \notin unfinished'
       PROVE  \E t \in Shards : Publishing(t, u)'
  <2>1. status[u] = "translation_pending" /\ (outcome = "failed" \/ u \notin Publishable(s))
    BY <1>2, <1>11
  <2>2. PICK t \in Shards : Publishing(t, u)
    BY <1>4, <1>11, <2>1 DEF NoneForgotten
  <2>3. u \notin urls[s]
    BY <1>4, <1>11, <2>1 DEF Publishable, Present
  <2>4. t # s
    BY <1>1, <2>2, <2>3 DEF Publishing
  <2> QED BY <1>8, <2>2, <2>4
<1>12. NoneForgotten'
  BY <1>9, <1>11 DEF NoneForgotten
<1>13. RememberedIsReviewed' /\ AcceptedIsSaved'
  BY <1>1, <1>3 DEF RememberedIsReviewed, AcceptedIsSaved
<1> QED BY <1>5, <1>7, <1>8, <1>10, <1>12, <1>13

\* The tables of articles and summaries stay, those of reviews grow.
LEMMA ReviewStep ==
    ASSUME PipelineInv, NEW s \in Shards, UNCHANGED <<status, newest, summaries, history>>,
           pc[s] \in {"reviews", "remember"},
           review' \in [Articles -> Decisions \cup {"none"}],
           \A u \in Articles : Reviewed(u) => Reviewed(u)',
           remembered' \in [Shards -> SUBSET Articles],
           \A t \in Shards : \A u \in remembered'[t] : Reviewed(u)',
           \A u \in Articles : review'[u] = "accept" => u \in Present \cup unsaved,
           faults' \in 0..MaxFaults, LocalTypes', OthersKept(s), LocalInv(s)'
    PROVE  PipelineInv'
<1> USE DEF PipelineInv, history
<1>1. Present' = Present
  BY DEF Present
<1>2. TableTypes'
  BY <1>1 DEF TableTypes, NewestInv
<1>3. Grows
  BY <1>1 DEF Grows
<1>4. /\ RunInv'
      /\ \A t \in Shards \ {s}, u \in Articles : Publishing(t, u) => Publishing(t, u)'
  BY <1>3, OtherRuns
<1>5. \A u \in Articles : ~Publishing(s, u)
  BY DEF Publishing
<1>6. \A u \in Articles : Translated(u)' = Translated(u)
  BY DEF Translated, Complete
<1>7. PublishedIsTranslated' /\ NoneForgotten'
  BY <1>4, <1>5, <1>6 DEF PublishedIsTranslated, NoneForgotten
<1>8. RememberedIsReviewed' /\ AcceptedIsSaved'
  BY <1>1 DEF RememberedIsReviewed, AcceptedIsSaved, Reviewed
<1> QED BY <1>2, <1>4, <1>7, <1>8

LEMMA SaveReviewsStep ==
    ASSUME PipelineInv, NEW s \in Shards, NEW outcome \in Outcomes \cup {"deferred"},
           SaveReviews(s, outcome)
    PROVE  PipelineInv'
<1> USE DEF PipelineInv
<1>1. /\ pc[s] = "reviews" /\ LocalInv(s)
      /\ UNCHANGED <<status, newest, summaries, remembered, history>>
      /\ faults' \in 0..MaxFaults
  BY CallBounded DEF SaveReviews, RunInv, TableTypes
<1> DEFINE made == outcome \in {"answered", "lost"}
<1>2. /\ review' = [u \in Articles |-> IF made /\ reviewed[s][u] # "none"
                                     THEN reviewed[s][u] ELSE review[u]]
      /\ reviewed[s] \in [Articles -> Decisions \cup {"none"}]
  BY DEF SaveReviews, LocalTypes
<1>3. review' \in [Articles -> Decisions \cup {"none"}]
  BY <1>2 DEF TableTypes
<1>4. \A u \in Articles : /\ Reviewed(u) => Reviewed(u)'
                          /\ made /\ reviewed[s][u] # "none" => Reviewed(u)'
  BY <1>2 DEF Reviewed
<1>5. \A t \in Shards : \A u \in remembered'[t] : Reviewed(u)'
  BY <1>1, <1>4 DEF RememberedIsReviewed, Reviewed, TableTypes
<1>6. Accepted(s) \subseteq Present \cup unsaved
  BY <1>1 DEF LocalInv
<1>7. \A u \in Articles : review'[u] = "accept" => u \in Present \cup unsaved
  BY <1>2, <1>6 DEF AcceptedIsSaved, Accepted, Decided
<1>8. LocalTypes' /\ OthersKept(s) /\ LocalInv(s)'
  <2>1. CASE outcome = "answered"
    <3>1. Goto(s, "remember") /\ UNCHANGED locals
      BY <2>1 DEF SaveReviews, ReviewSaveOk
    <3>2. LocalTypes' /\ OthersKept(s) /\ pc'[s] = "remember"
      BY <3>1, GotoKeeps DEF PCs
    <3>3. reviewed' = reviewed /\ list' = list /\ rows' = rows /\ Present' = Present
      BY <1>1, <3>1 DEF locals, Present
    <3>4. \A u \in list[s] : u \in Articles /\ Reviewed(u)
      BY <1>1 DEF LocalInv, LocalTypes
    <3> QED BY <1>1, <1>4, <2>1, <3>2, <3>3, <3>4 DEF LocalInv
  <2>2. CASE outcome # "answered"
    BY <2>2, EndKeeps DEF SaveReviews, ReviewSaveOk
  <2> QED BY <2>1, <2>2
<1> QED BY <1>1, <1>3, <1>4, <1>5, <1>7, <1>8, ReviewStep DEF TableTypes

LEMMA RememberStep ==
    ASSUME PipelineInv, NEW s \in Shards, NEW saved \in BOOLEAN, Remember(s, saved)
    PROVE  PipelineInv'
<1> USE DEF PipelineInv
<1>1. /\ pc[s] = "remember" /\ LocalInv(s)
      /\ UNCHANGED <<review, status, newest, summaries, history, faults>>
  BY DEF Remember, RunInv, tables
<1>2. \A u \in Cacheable(s) : u \in Articles /\ Reviewed(u)
  BY <1>1 DEF Cacheable, Accepted, Decided, LocalInv
<1>3. \A u \in list[s] : u \in Articles /\ Reviewed(u)
  BY <1>1 DEF LocalInv, LocalTypes
<1>4. remembered' \in {remembered, [remembered EXCEPT ![s] = list[s] \cup Cacheable(s)]}
  BY DEF Remember, TableTypes
<1>5. remembered' \in [Shards -> SUBSET Articles]
  BY <1>2, <1>3, <1>4 DEF TableTypes
<1>6. \A t \in Shards : \A u \in remembered'[t] : Reviewed(u)'
  <2>1. \A t \in Shards : \A u \in remembered[t] : Reviewed(u)
    BY DEF RememberedIsReviewed, Reviewed
  <2>2. \A t \in Shards : \A u \in remembered'[t] : Reviewed(u)
    BY <1>2, <1>3, <1>4, <2>1 DEF TableTypes
  <2> QED BY <1>1, <2>2 DEF Reviewed
<1>7. LocalTypes' /\ OthersKept(s) /\ LocalInv(s)'
  BY EndKeeps DEF Remember
<1> QED BY <1>1, <1>5, <1>6, <1>7, ReviewStep DEF TableTypes, Reviewed, AcceptedIsSaved

-----------------------------------------------------------------------------
(* Every state. *)

LEMMA PipelineStart == ASSUME Init, faults = 0 PROVE PipelineInv
<1> USE DEF Init
<1>1. Present = {}
  BY DEF Present
<1>2. TableTypes
  BY <1>1, FaultsAssumption DEF TableTypes, NewestInv
<1>3. LocalTypes
  BY DEF LocalTypes, PCs, Nothing
<1>4. RunInv
  BY DEF RunInv, LocalInv, Nothing
<1>5. PublishedIsTranslated /\ NoneForgotten
  BY DEF PublishedIsTranslated, NoneForgotten
<1>6. RememberedIsReviewed /\ AcceptedIsSaved
  BY DEF RememberedIsReviewed, AcceptedIsSaved
<1> QED BY <1>2, <1>3, <1>4, <1>5, <1>6 DEF PipelineInv

LEMMA PipelineStep == ASSUME PipelineInv, [Next]_vars PROVE PipelineInv'
<1>1. ASSUME NEW s \in Shards, RunStep(s) PROVE PipelineInv'
  BY <1>1, SaveArticlesStep, BuildTranslationsStep, SaveSummariesStep, LookUpCompleteStep,
     PublishArticlesStep, SaveReviewsStep, RememberStep DEF RunStep
<1>2. ASSUME UNCHANGED vars PROVE PipelineInv'
  BY <1>2 DEF vars, pipelineState, tables, locals, history, PipelineInv, TableTypes, NewestInv,
     LocalTypes, RunInv, LocalInv, Reviewed, Accepted, Decided, Present, PublishedIsTranslated,
     NoneForgotten, Publishing, UrlsOf, Translated, Complete, RememberedIsReviewed, AcceptedIsSaved
<1> QED BY <1>1, <1>2, RefreshStep, BacklogStep, CutOffStep DEF Next

LEMMA PipelineKept == Spec => []PipelineInv
BY PipelineStart, PipelineStep, PTL DEF Spec

LEMMA TypeOfPipeline == ASSUME PipelineInv PROVE TypeOK
<1> USE DEF PipelineInv
<1> DEFINE places(u) == {i \in DOMAIN newest : newest[i] = u}
<1>1. ASSUME NEW u \in Articles
      PROVE  Cardinality(places(u)) = IF status[u] = "absent" THEN 0 ELSE 1
  <2>1. CASE status[u] = "absent"
    <3>1. places(u) = {}
      BY <2>1 DEF TableTypes, NewestInv, Present
    <3> QED BY <2>1, <3>1, FS_EmptySet
  <2>2. CASE status[u] # "absent"
    <3>1. u \in Present
      BY <2>2 DEF Present
    <3>2. PICK j \in DOMAIN newest : \A i \in DOMAIN newest : newest[i] = u <=> i = j
      BY <3>1 DEF TableTypes, NewestInv
    <3>3. places(u) = {j}
      BY <3>2
    <3> QED BY <2>2, <3>3, FS_Singleton
  <2> QED BY <2>1, <2>2
<1> QED BY <1>1 DEF TypeOK, TableTypes, LocalTypes

\* Every call, lost answer and end of a run leaves a state of the types, in which every
\* article of the table has one place in the order it is read in (refreshArticles,
\* translateSummaryBacklog).
THEOREM PipelineTyped == Spec => []TypeOK
BY PipelineKept, TypeOfPipeline, PTL

\* No article is on the site in fewer languages than the worker promises
\* (publishArticlesBatch, getArticlePublishTranslationReadiness).
THEOREM PublishedAreTranslated == Spec => []PublishedIsTranslated
<1>1. PipelineInv => PublishedIsTranslated
  BY DEF PipelineInv
<1> QED BY <1>1, PipelineKept, PTL

\* No two runs leave a complete article to each other (getFullyTranslatedOriginalUrls,
\* loadExistingSummaryLanguageCodes after the save).
THEOREM NoArticleForgotten == Spec => []NoneForgotten
<1>1. PipelineInv => NoneForgotten
  BY DEF PipelineInv
<1> QED BY <1>1, PipelineKept, PTL

\* What KV keeps from being looked at again has been reviewed (rememberProcessedUrlsInKv).
THEOREM RememberedAreReviewed == Spec => []RememberedIsReviewed
<1>1. PipelineInv => RememberedIsReviewed
  BY DEF PipelineInv
<1> QED BY <1>1, PipelineKept, PTL

\* An accepting review stands without its article only when the call that saves articles
\* has failed (saveArticleReviewsBatch after saveAcceptedArticlesBatch).
THEOREM AcceptedAreSaved == Spec => []AcceptedIsSaved
<1>1. PipelineInv => AcceptedIsSaved
  BY DEF PipelineInv
<1> QED BY <1>1, PipelineKept, PTL

-----------------------------------------------------------------------------
(* The refinement. *)

LEMMA PromiseStart == ASSUME Init PROVE Promise!Init
BY DEF Init, Promise!Init

LEMMA PromiseStep == ASSUME PipelineInv, [Next]_vars PROVE [Promise!Next]_Promise!vars
<1> USE DEF PipelineInv
<1> DEFINE Same == UNCHANGED <<status, summaries>>
<1>1. Same => [Promise!Next]_Promise!vars
  BY DEF Promise!vars
<1>2. ASSUME NEW s \in Shards, NEW outcome \in Outcomes, SaveArticles(s, outcome)
      PROVE  Same \/ Promise!Next
  <2>1. summaries' = summaries
    BY <1>2 DEF SaveArticles
  <2>2. CASE outcome = "failed"
    BY <1>2, <2>1, <2>2 DEF SaveArticles
  <2>3. CASE outcome # "failed"
    <3> DEFINE batch == Accepted(s)
    <3>1. batch \in SUBSET Articles
      BY DEF Accepted, Decided
    <3>2. status' = [u \in Articles |-> IF u \in batch /\ status[u] = "absent"
                                       THEN "translation_pending" ELSE status[u]]
      BY <1>2, <2>3, <3>1 DEF SaveArticles, ArticleRows, Inserted, InitialStatus, Present
    <3>3. Promise!Accept(batch)
      BY <2>1, <3>2 DEF Promise!Accept
    <3> QED BY <3>1, <3>3 DEF Promise!Next
  <2> QED BY <2>2, <2>3
<1>3. ASSUME NEW s \in Shards, NEW outcome \in Outcomes, SaveSummaries(s, outcome)
      PROVE  Same \/ Promise!Next
  <2>1. status' = status
    BY <1>3 DEF SaveSummaries
  <2>2. CASE outcome = "failed"
    BY <1>3, <2>1, <2>2 DEF SaveSummaries
  <2>3. CASE outcome # "failed"
    <3>1. summaries' = summaries \cup rows[s]
      BY <1>3, <2>3 DEF SaveSummaries
    <3>2. rows[s] \subseteq Present \X Languages
      BY DEF RunInv, LocalInv
    <3>3. \A row \in rows[s] : status[row[1]] # "absent"
      BY <3>2 DEF Present
    <3>4. rows[s] \in SUBSET (Articles \X Languages)
      BY <3>2 DEF Present
    <3>5. Promise!Translate(rows[s])
      BY <2>1, <3>1, <3>3 DEF Promise!Translate
    <3> QED BY <3>4, <3>5 DEF Promise!Next
  <2> QED BY <2>2, <2>3
<1>4. ASSUME NEW s \in Shards, NEW outcome \in Outcomes, PublishArticles(s, outcome)
      PROVE  Same \/ Promise!Next
  <2>1. summaries' = summaries
    BY <1>4 DEF PublishArticles
  <2> DEFINE batch == IF outcome = "failed" THEN {} ELSE Publishable(s)
  <2>2. batch \in SUBSET Articles
    BY DEF Publishable, Present
  <2>3. status' = [u \in Articles |-> IF u \in batch THEN "published" ELSE status[u]]
    BY <1>4 DEF PublishArticles
  <2>4. \A u \in batch : status[u] # "absent" /\ Promise!Translated(u)
    BY DEF Publishable, Present, Translated, Complete, Promise!Translated
  <2>5. Promise!Publish(batch)
    BY <2>1, <2>3, <2>4 DEF Promise!Publish
  <2> QED BY <2>2, <2>5 DEF Promise!Next
<1>5. ASSUME NEW s \in Shards, RunStep(s) PROVE Same \/ Promise!Next
  <2>1. BuildTranslations(s) => Same
    BY DEF BuildTranslations, tables
  <2>2. ASSUME NEW answered \in BOOLEAN, LookUpComplete(s, answered) PROVE Same
    BY <2>2 DEF LookUpComplete, tables
  <2>3. ASSUME NEW outcome \in Outcomes \cup {"deferred"}, SaveReviews(s, outcome) PROVE Same
    BY <2>3 DEF SaveReviews
  <2>4. ASSUME NEW saved \in BOOLEAN, Remember(s, saved) PROVE Same
    BY <2>4 DEF Remember, tables
  <2> QED BY <1>2, <1>3, <1>4, <1>5, <2>1, <2>2, <2>3, <2>4 DEF RunStep
<1>6. ASSUME NEW s \in Shards, Refresh(s) \/ Backlog(s) \/ CutOff(s) PROVE Same
  BY <1>6 DEF Refresh, Backlog, CutOff, tables
<1>7. UNCHANGED vars => Same
  BY DEF vars, pipelineState, tables
<1> QED BY <1>1, <1>5, <1>6, <1>7 DEF Next

\* The runs of the worker's shards, with their failures, keep what the worker promises
\* about an accepted article (refreshArticles, translateSummaryBacklog).
THEOREM PipelineImplementsPromise == Spec => ImplementsPromise
<1>1. Init /\ faults = 0 => Promise!Init
  BY PromiseStart
<1>2. PipelineInv /\ [Next]_vars => [Promise!Next]_Promise!vars
  BY PromiseStep
<1> QED BY <1>1, <1>2, PipelineKept, PTL DEF Spec, ImplementsPromise, Promise!Spec
=============================================================================
