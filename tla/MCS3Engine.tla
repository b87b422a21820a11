----------------------------- MODULE MCS3Engine -----------------------------
(* S3Engine for TLC: a cache for one large block, or a small one and a block *)
(* in between, and calls with one or two blocks, the same one twice as well. *)
EXTENDS S3Engine, TLC

CONSTANTS small, middle, large

Sizes == small :> 1 @@ middle :> 2 @@ large :> 3
OneOrTwo == UNION {[1..n -> Blocks] : n \in 1..2}
=============================================================================
