----------------------------- MODULE ContextBuffers ----------------------------
(***************************************************************************)
(* The buffers of a context (src/model/inkling_forward.c): what creation   *)
(* checks and allocates, how scratch_reserve() replaces the nine buffers   *)
(* that have one row per token, what inkling_context_free() frees, and     *)
(* which elements of them the evaluation functions touch.                  *)
(*                                                                         *)
(* A model is a record [config, layers, complete]; options are a record    *)
(* [max_tokens, weight_bytes, incremental].  The buffers of the expert     *)
(* cache are in ExpertCache.                                               *)
(***************************************************************************)
EXTENDS ModelOpen, FiniteSetsExt

VARIABLES
  model,     (* the published model, NoModel if there is none              *)
  options,   (* per context, its options                                   *)
  scratch,   (* per context, scratch_capacity                              *)
  position   (* per context, the position of its sequence, Invalid         *)

contextData == <<model, options, scratch, position>>

NoModel == [config |-> <<>>, layers |-> <<>>, complete |-> FALSE]
Invalid == -2

Model(way) ==
  [config |-> way.config,
   layers |-> [k \in DOMAIN LayerIds(way) |-> Layer(way.config, LayerIds(way)[k])],
   complete |-> ~Extracted(way)]

\* The widest matrix of this name in any layer.
Widest(name) == Max({model.layers[k].matrices[name].rows : k \in DOMAIN model.layers})
Wider(m, n) == Max({m, n})

Hidden == model.config.hidden
RouterWidth == model.config.routed + model.config.shared
MixtureWidth == model.config.per_token + model.config.shared
PairWidth == Wider(Widest("w13"), Widest("shared_w13"))
KvWidth == Widest("k")

-------------------------------------------------------------------------------
\* matrix_row_fits()
RowFits(matrix, bytes) == matrix.rows > 0 => RowBytes(matrix) <= bytes

\* The checks of inkling_context_create_with_options().
Creatable(o) ==
  /\ o.max_tokens \in 1..model.config.max_length
  /\ o.weight_bytes >= 2 * Hidden
  /\ \A k \in DOMAIN model.layers : \A name \in MatrixNames :
       RowFits(model.layers[k].matrices[name], o.weight_bytes)

-------------------------------------------------------------------------------
RowWidths ==
  [hidden0 |-> Hidden, hidden1 |-> Hidden, norm |-> Hidden, block |-> Hidden,
   q |-> Widest("q"), k |-> KvWidth, v |-> KvWidth, relative |-> Widest("r"),
   heads |-> Widest("q")]
RowNames == <<"hidden0", "hidden1", "norm", "block", "q", "k", "v", "relative", "heads">>

Rows(c, tokens) == [i \in 1..9 |-> Block(c, RowNames[i], 0, tokens * RowWidths[RowNames[i]])]
RowsHeld(c) == {b \in held[c] : b.name \in Range(RowNames)}

\* Mutant: every buffer replaces its predecessor as soon as it is allocated.
RowItemsInPlace(c, tokens) ==
  LET new == Rows(c, tokens)
  IN [i \in 1..9 |->
        [Keep(new[i], {}) EXCEPT
           !.drop = {b \in RowsHeld(c) : b.name = RowNames[i]},
           !.scratch = IF i = 9 THEN tokens ELSE -1]]

\* scratch_reserve(), beyond its early return: nine allocations, which are
\* undone together, and then the exchange.
RowItems(c, tokens) ==
  LET new == Rows(c, tokens)
  IN [i \in 1..9 |-> Alloc(new[i], {new[j] : j \in 1..i - 1})]
     \o <<[Item EXCEPT !.drop = RowsHeld(c), !.own = Range(new), !.scratch = tokens]>>

Reserved(c, tokens) == tokens <= scratch[c]

-------------------------------------------------------------------------------
\* The buffers of fixed size, in the order of their allocation.
FixedBlocks(c, o) ==
  LET kv == KvWidth
      sizes == <<<<"scores", o.max_tokens>>, <<"bias", o.max_tokens>>,
                 <<"history", 3 * Wider(Hidden, kv)>>,
                 <<"pair", PairWidth>>, <<"activation", PairWidth \div 2>>,
                 <<"expert", Hidden>>, <<"routed", Hidden>>, <<"shared", Hidden>>,
                 <<"router", RouterWidth>>, <<"mixture", MixtureWidth>>>>
  IN [i \in DOMAIN sizes |-> Block(c, sizes[i][1], 0, sizes[i][2])]

\* Positions of a layer that the ring buffers of its keys and values hold.
RingCapacity(layer, o) ==
  IF layer.window # 0 /\ layer.window < o.max_tokens THEN layer.window ELSE o.max_tokens

SequenceBlocks(c, o) ==
  LET kv(k) == model.layers[k].matrices["k"].rows
      ring(k) == RingCapacity(model.layers[k], o)
      layer(k) == <<Block(c, "keys", k, ring(k) * kv(k)), Block(c, "values", k, ring(k) * kv(k)),
                    Block(c, "key_history", k, 3 * kv(k)), Block(c, "value_history", k, 3 * kv(k)),
                    Block(c, "attn_history", k, 3 * Hidden), Block(c, "mlp_history", k, 3 * Hidden)>>
  IN <<Block(c, "sequence", 0, 1), Block(c, "sequence layers", 0, Len(model.layers))>>
     \o FlattenSeq([k \in DOMAIN model.layers |-> layer(k)])

\* The allocations of inkling_context_create_with_options(): selected and
\* weights are the caller's locals until all of them are there.
CreateItems(c, o) ==
  LET selected == Block(c, "selected", 0, model.config.per_token)
      weights == Block(c, "weights", 0, o.weight_bytes)
      keep(blocks, undo) == [i \in DOMAIN blocks |-> Keep(blocks[i], undo)]
  IN <<Keep(Block(c, "context", 0, 1), {}), Reserve(IF o.incremental THEN 1 ELSE o.max_tokens)>>
     \o keep(FixedBlocks(c, o), {})
     \o <<Alloc(selected, {}), Alloc(weights, {selected})>>
     \o (IF o.incremental THEN keep(SequenceBlocks(c, o), {selected, weights}) ELSE <<>>)
     \o <<Become({selected, weights})>>

\* prepare() of src/model/inkling_generate.c, once per context.
GenerationItems(c) ==
  LET usable == Min({options[c].max_tokens, model.config.max_length})
      width == model.config.unpadded
      new == <<Block(c, "generation", 0, 1), Block(c, "prefix", 0, usable),
               Block(c, "logits", 0, width), Block(c, "candidates", 0, width)>>
  IN IF new[1] \in held[c] THEN <<>>
     ELSE [i \in 1..4 |-> Alloc(new[i], {new[j] : j \in 1..i - 1})] \o <<Become(Range(new))>>

\* The fields that inkling_context_free(), sequence_free() and
\* inkling_generation_free() free.
FreedNames ==
  Range(RowNames)
  \cup {"scores", "bias", "history", "pair", "activation", "expert", "routed", "shared",
        "router", "mixture", "selected", "weights"}
  \cup {"generation", "prefix", "logits", "candidates"}
  \cup {"keys", "values", "key_history", "value_history", "attn_history", "mlp_history"}
  \cup {"sequence layers", "sequence", "context"}
===============================================================================
