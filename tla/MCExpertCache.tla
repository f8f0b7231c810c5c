---------------------------- MODULE MCExpertCache -----------------------------
(***************************************************************************)
(* Four routed projections of three weights, one too large for the limit,  *)
(* an unrouted NVFP4 projection and a BF16 one.                            *)
(***************************************************************************)
EXTENDS ExpertCacheLru, TLC

CONSTANTS k1, k2, k3, k4, big, shared, bf16

MCRouted == {k1, k2, k3, k4, big}
MCUnrouted == {shared, bf16}
MCScaled == MCRouted \cup {shared}
MCCharge == k1 :> 1 @@ k2 :> 2 @@ k3 :> 2 @@ k4 :> 3 @@ big :> 6
MCTiles == [k \in MCRouted \cup MCUnrouted |-> IF k \in {k1, shared} THEN 2 ELSE 1]
===============================================================================
