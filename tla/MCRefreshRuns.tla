----------------------------- MODULE MCRefreshRuns -----------------------------
(* Instances of RefreshRuns for TLC: two shards whose feeds share an article. *)
EXTENDS RefreshRuns

CONSTANTS s1, s2, r1, r2, r3, t1, u1, u2

MCShardOf == [r \in Refreshers \cup Translators |-> IF r = r3 THEN s2 ELSE s1]
MCFeed == [s \in Shards |-> IF s = s1 THEN Articles ELSE {u1} \cap Articles]
=============================================================================
