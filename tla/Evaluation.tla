------------------------------ MODULE Evaluation -------------------------------
(***************************************************************************)
(* The evaluation functions of src/model/inkling_forward.c as the accesses *)
(* that they make: which buffer of the context or vector of the model, and *)
(* how many of its elements.  The numbers are nowhere here.  Rows of a     *)
(* matrix pass through the weight buffer, at least one at a time.          *)
(*                                                                         *)
(* The functions nest: each of them reserves its rows, and what it hands   *)
(* to the next one are pointers it has read before that one reserves.      *)
(***************************************************************************)
EXTENDS ContextBuffers

LayerAt(k) == model.layers[k]
MatrixAt(k, name) == model.layers[k].matrices[name]

\* inkling_project(): the weight buffer has a row, and NVFP4 a factor per expert.
Projection(c, k, name) ==
  {Access(c, "weights", 0, RowBytes(MatrixAt(k, name)))}
  \cup (IF MatrixAt(k, name).kind = "BF16" THEN {}
        ELSE {Access("model", Scales[name], k, MatrixAt(k, name).experts)})
Projections(c, k, names) == UNION {Projection(c, k, name) : name \in names}

\* Accesses to vectors of a layer; conv4 has four taps and three of history.
OfLayer(k, name, count) == Access("model", name, k, count)

\* Heads share a key and value head; this is where that of the last head ends.
GroupEnd(layer) ==
  LET group == layer.heads \div layer.kv_heads
  IN ((layer.heads - 1) \div group + 1) * layer.head_dim

\* Relative biases of `distances` distances, those beyond the extent being zero.
BiasEnd(layer, distances) ==
  (model.config.relative - 1) * layer.extent + Min({distances, layer.extent})

\* Input and output are rows of the caller, or arguments from norm and block.
Passed(c, nested, tokens) ==
  IF nested THEN {Argument(c, "norm", tokens * Hidden), Argument(c, "block", tokens * Hidden)}
  ELSE {}

-------------------------------------------------------------------------------
\* What a query, a key and a value of `tokens` rows need, whatever the path.
AttentionUses(c, k, tokens, distances) ==
  LET layer == LayerAt(k)
      q == MatrixAt(k, "q").rows
      kv == MatrixAt(k, "k").rows
  IN Projections(c, k, {"q", "k", "v", "r", "o"})
     \cup {Access(c, "q", 0, tokens * q), Access(c, "heads", 0, tokens * q),
           Access(c, "k", 0, tokens * kv), Access(c, "v", 0, tokens * kv),
           Access(c, "relative", 0, tokens * MatrixAt(k, "r").rows),
           Access(c, "bias", 0, distances), Access(c, "scores", 0, distances)}
     \cup {OfLayer(k, "q_norm", layer.head_dim), OfLayer(k, "k_norm", layer.head_dim),
           OfLayer(k, "k_conv", 4 * kv), OfLayer(k, "v_conv", 4 * kv),
           OfLayer(k, "relative", BiasEnd(layer, distances))}

\* inkling_attention_forward()
AttentionCall(c, k, tokens, nested) ==
  LET kv == MatrixAt(k, "k").rows
      last == (tokens - 1) * kv + GroupEnd(LayerAt(k))
  IN <<Reserve(tokens),
       Use(AttentionUses(c, k, tokens, tokens)
           \cup {Access(c, "history", 0, 3 * kv), Access(c, "k", 0, last), Access(c, "v", 0, last)}
           \cup Passed(c, nested, tokens))>>

\* expert_forward(): a pair of rows per element of the activation.
ExpertUses(c, k, up, down) ==
  Projections(c, k, {up, down})
  \cup {Access(c, "pair", 0, MatrixAt(k, up).rows),
        Access(c, "activation", 0, MatrixAt(k, up).rows \div 2),
        Access(c, "activation", 0, MatrixAt(k, down).columns),
        Access(c, "expert", 0, MatrixAt(k, down).rows)}

RoutedUses(c, k) ==
  ExpertUses(c, k, "w13", "down") \cup ExpertUses(c, k, "shared_w13", "shared_down")
  \cup Projection(c, k, "router")
  \cup {Access(c, "router", 0, RouterWidth), Access(c, "mixture", 0, MixtureWidth),
        Access(c, "selected", 0, model.config.per_token),
        Access(c, "routed", 0, Hidden), Access(c, "shared", 0, Hidden),
        OfLayer(k, "correction", model.config.routed)}

\* inkling_mlp_forward()
MlpCall(c, k, tokens, nested) ==
  <<Reserve(tokens),
    Use((IF LayerAt(k).dense THEN ExpertUses(c, k, "w13", "down") ELSE RoutedUses(c, k))
        \cup Passed(c, nested, tokens))>>

\* inkling_layer_forward(): norm and block are handed to the nested calls.
LayerCall(c, k, tokens, outer) ==
  LET rows == {Access(c, "norm", 0, tokens * Hidden), Access(c, "block", 0, tokens * Hidden),
               Access(c, "history", 0, 3 * Hidden)} \cup outer
      half(norm, conv) ==
        Use(rows \cup {OfLayer(k, norm, Hidden), OfLayer(k, conv, 4 * Hidden)})
  IN <<Reserve(tokens), [half("attn_norm", "attn_conv") EXCEPT !.pin = {"norm", "block"}]>>
     \o AttentionCall(c, k, tokens, TRUE)
     \o <<[half("mlp_norm", "mlp_conv") EXCEPT !.pin = {"norm", "block"}]>>
     \o MlpCall(c, k, tokens, TRUE)
     \o <<Use(rows)>>

-------------------------------------------------------------------------------
\* inkling_context_reset()
Reset(c) ==
  LET kv(k) == MatrixAt(k, "k").rows
      histories(k) ==
        {Access(c, "key_history", k, 3 * kv(k)), Access(c, "value_history", k, 3 * kv(k)),
         Access(c, "attn_history", k, 3 * Hidden), Access(c, "mlp_history", k, 3 * Hidden)}
  IN [Item EXCEPT
        !.uses = {Access(c, "history", 0, 3 * Wider(Hidden, KvWidth))}
                 \cup (IF options[c].incremental
                         THEN UNION {histories(k) : k \in DOMAIN model.layers} ELSE {}),
        !.position = IF options[c].incremental THEN 0 ELSE Invalid]

\* The embedding of `tokens` tokens into hidden0, a row at a time.
EmbedUses(c, tokens) ==
  {Access(c, "weights", 0, 2 * Hidden), Access(c, "hidden0", 0, tokens * Hidden),
   Access("model", "embed_norm", 0, Hidden)}

\* The last layer leaves its output in hidden0 or hidden1.
LogitsUses(c, tokens) ==
  LET current == IF Len(model.layers) % 2 = 0 THEN "hidden0" ELSE "hidden1"
  IN {Access(c, current, 0, tokens * Hidden), Access("model", "final_norm", 0, Hidden),
      Access(c, "weights", 0, 2 * Hidden)}

\* Mutant: the rows of the prefix are left to the layers.
ForwardCallUnreserved(c, tokens) ==
  LET outer == {Argument(c, "hidden0", tokens * Hidden), Argument(c, "hidden1", tokens * Hidden)}
  IN <<Reset(c), [Use(EmbedUses(c, tokens)) EXCEPT !.pin = {"hidden0", "hidden1"}]>>
     \o FlattenSeq([k \in DOMAIN model.layers |-> LayerCall(c, k, tokens, outer)])
     \o <<Use(LogitsUses(c, tokens))>>

\* forward_rows()
ForwardCall(c, tokens) ==
  LET outer == {Argument(c, "hidden0", tokens * Hidden), Argument(c, "hidden1", tokens * Hidden)}
  IN <<Reset(c), Reserve(tokens),
       [Use(EmbedUses(c, tokens)) EXCEPT !.pin = {"hidden0", "hidden1"}]>>
     \o FlattenSeq([k \in DOMAIN model.layers |-> LayerCall(c, k, tokens, outer)])
     \o <<Use(LogitsUses(c, tokens))>>

-------------------------------------------------------------------------------
\* token_layer() and token_attention(): one row, and the rings of the sequence.
TokenLayer(c, k, at) ==
  LET layer == LayerAt(k)
      kv == MatrixAt(k, "k").rows
      ring == RingCapacity(layer, options[c])
      filled == (Min({at, ring - 1})) * kv
      half(norm, conv, history) ==
        {OfLayer(k, norm, Hidden), OfLayer(k, conv, 4 * Hidden), Access(c, history, k, 3 * Hidden)}
      rows == {Access(c, name, 0, Hidden) : name \in {"norm", "block"}}
              \cup {Argument(c, "hidden0", Hidden), Argument(c, "hidden1", Hidden)}
  IN <<[Use(AttentionUses(c, k, 1, at + 1) \cup rows
            \cup half("attn_norm", "attn_conv", "attn_history")
            \cup {Access(c, "key_history", k, 3 * kv), Access(c, "value_history", k, 3 * kv)}
            \cup {Access(c, ring_name, k, count) :
                    ring_name \in {"keys", "values"},
                    count \in {(at % ring) * kv + kv, filled + GroupEnd(layer)}})
        EXCEPT !.pin = {"norm", "block"}]>>
     \o MlpCall(c, k, 1, TRUE)
     \o <<Use(rows \cup half("mlp_norm", "mlp_conv", "mlp_history"))>>

\* token_forward(): the token at position `at`, counted from 0.
TokenCall(c, at) ==
  <<[Use(EmbedUses(c, 1)) EXCEPT !.pin = {"hidden0", "hidden1"}]>>
  \o FlattenSeq([k \in DOMAIN model.layers |-> TokenLayer(c, k, at)])
  \o <<[Use(LogitsUses(c, 1)) EXCEPT !.position = at + 1]>>

\* inkling_prefill(), which starts with a reset, and inkling_decode().
PrefillCall(c, tokens) ==
  <<Reset(c)>> \o FlattenSeq([n \in 1..tokens |-> TokenCall(c, n - 1)])
===============================================================================
