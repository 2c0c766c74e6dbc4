------------------------------ MODULE MCPipeline ------------------------------
(* An instance of ArticlePipeline whose articles outnumber the lookback, for TLC. *)
EXTENDS ArticlePipeline

CONSTANTS s1, u1, u2, fr
=============================================================================
