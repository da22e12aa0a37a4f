----------------------------- MODULE MCPipeline -----------------------------
(***************************************************************************)
(* Two sales, one refusal, one unknown SKU and a benchmark; the two sales   *)
(* share their id, as they may on two shards.                              *)
(***************************************************************************)
EXTENDS Pipeline, TLC

CONSTANTS r1, r2, r3, r4, r5

MCStatus == r1 :> 1 @@ r2 :> 1 @@ r3 :> 2 @@ r4 :> 0 @@ r5 :> 1
MCIds == r1 :> 1 @@ r2 :> 1 @@ r3 :> 3 @@ r4 :> 4 @@ r5 :> 5
MCSkus == r1 :> "k1" @@ r2 :> "k2" @@ r3 :> "k1" @@ r4 :> "k3" @@ r5 :> "k1"
=============================================================================
