----------------------------- MODULE MCPipeline -----------------------------
(* Small universes (2 pixels each, at most 3 of them, numbered to 5): one   *)
(* universe, two, too many, and numbers that run out.                       *)
EXTENDS Pipeline
=============================================================================
