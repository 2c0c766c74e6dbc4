----------------------------- MODULE ArticlePromise -----------------------------
(***************************************************************************)
(* What the ingestion worker promises about an accepted article            *)
(* (docs and tests of worker/src/index.ts): it waits until its summary     *)
(* exists in every language, is then published, and neither is ever taken  *)
(* back.                                                                   *)
(***************************************************************************)
CONSTANTS Articles, Languages

VARIABLES
    stage,      \* "absent", "translation_pending" or "published", for each article
    summaries   \* the article and language of each summary there is

vars == <<stage, summaries>>

Translated(u) == {u} \X Languages \subseteq summaries

Init ==
    /\ stage = [u \in Articles |-> "absent"]
    /\ summaries = {}

\* A batch of accepted articles; the ones that are there stay as they are.
Accept(batch) ==
    /\ stage' = [u \in Articles |-> IF u \in batch /\ stage[u] = "absent"
                                    THEN "translation_pending" ELSE stage[u]]
    /\ UNCHANGED summaries

Translate(rows) ==
    /\ \A row \in rows : stage[row[1]] # "absent"
    /\ summaries' = summaries \cup rows
    /\ UNCHANGED stage

Publish(batch) ==
    /\ \A u \in batch : stage[u] # "absent" /\ Translated(u)
    /\ stage' = [u \in Articles |-> IF u \in batch THEN "published" ELSE stage[u]]
    /\ UNCHANGED summaries

Next ==
    \/ \E batch \in SUBSET Articles : Accept(batch) \/ Publish(batch)
    \/ \E rows \in SUBSET (Articles \X Languages) : Translate(rows)

Spec == Init /\ [][Next]_vars
=============================================================================
