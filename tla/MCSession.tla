------------------------------- MODULE MCSession -------------------------------
(***************************************************************************)
(* Models of two layers, one dense and one routed, one local and one       *)
(* global, in both orders of width: local heads wider than the global ones *)
(* and the other way round, dense rows wider than those of the experts and *)
(* the other way round.  Weight buffers of exactly the widest row, of one  *)
(* byte less and of more.                                                  *)
(***************************************************************************)
EXTENDS Session

\* Local layers are wider; the dense layer is the global one.
Wide ==
  [max_length |-> 4, vocab |-> 6, unpadded |-> 5, hidden |-> 16, layers |-> 2,
   heads |-> 2, kv_heads |-> 1, head_dim |-> 8, swa_heads |-> 4, swa_kv_heads |-> 2,
   swa_head_dim |-> 12, window |-> 2, local |-> {1}, relative |-> 2, extent |-> 3,
   dense_idx |-> 1, dense |-> 12, expert |-> 16, routed |-> 3, shared |-> 1,
   per_token |-> 2, packed |-> {"w13", "down"}]

\* Global layers are wider; the dense layer is the local one.
Narrow ==
  [Wide EXCEPT !.swa_heads = 1, !.swa_kv_heads = 1, !.swa_head_dim = 4, !.local = {0},
               !.dense = 40, !.window = 3, !.extent = 2, !.packed = {"down"}]

\* Three heads cannot share two key and value heads.
Uneven == [Wide EXCEPT !.swa_heads = 3]

\* Groups of 16 columns do not fit into an expert of 24.
Unstorable == [Wide EXCEPT !.expert = 24]

Text(config, trunk) ==
  [kind |-> "text", config |-> config, trunk |-> trunk, layer |-> 0, shards |-> <<FALSE, TRUE>>]

MCWays ==
  {Text(Wide, FALSE), Text(Narrow, TRUE), Text(Uneven, FALSE), Text(Unstorable, FALSE),
   [Text(Narrow, FALSE) EXCEPT !.kind = "layer", !.layer = 1]}

MCOptions ==
  {[max_tokens |-> m, weight_bytes |-> w, incremental |-> i] :
     m \in 1..3, w \in {79, 80, 96}, i \in BOOLEAN}
===============================================================================
