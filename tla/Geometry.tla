------------------------------- MODULE Geometry --------------------------------
(***************************************************************************)
(* What a configuration says of the shapes of a model: the checks of       *)
(* src/io/inkling_config.c and the dimensions that bind_layer() of         *)
(* src/model/inkling_bind.c gives the matrices and vectors of a layer.     *)
(*                                                                         *)
(* A configuration is a record of the fields that sizes depend on.  Its    *)
(* field `packed` is the checkpoint's: the routed matrices it stores as    *)
(* NVFP4, the others being BF16.                                           *)
(***************************************************************************)
EXTENDS Integers, FiniteSets

\* The fields that must not be zero.
Positive(config) ==
  /\ \A n \in {config.max_length, config.vocab, config.hidden, config.layers, config.heads,
               config.kv_heads, config.head_dim, config.relative, config.extent,
               config.dense, config.expert, config.routed, config.per_token} : n > 0
  /\ \A n \in {config.swa_heads, config.swa_kv_heads, config.swa_head_dim,
               config.unpadded, config.shared} : n > 0

\* inkling_config_is_valid() and execution_config(): the checks between fields.
Valid(config) ==
  /\ Positive(config)
  /\ config.hidden = config.heads * config.head_dim
  /\ config.heads % config.kv_heads = 0
  /\ config.swa_heads % config.swa_kv_heads = 0
  /\ config.per_token <= config.routed
  /\ config.window <= config.max_length /\ (config.local # {} => config.window > 0)
  /\ config.local \subseteq 0..config.layers - 1
  /\ config.dense_idx <= config.layers /\ config.unpadded <= config.vocab

Matrix(experts, rows, columns) ==
  [experts |-> experts, rows |-> rows, columns |-> columns, kind |-> "BF16"]

\* A matrix the layer does not have: zeroes, from the memset() of the layers.
Absent == Matrix(0, 0, 0)

\* matrix(): the dtype of the stored tensor decides.
Stored(config, name, matrix) ==
  IF name \in config.packed THEN [matrix EXCEPT !.kind = "NVFP4"] ELSE matrix

\* NVFP4 scales a group of 16 columns.
Storable(matrix) == matrix.kind = "NVFP4" => matrix.columns % 16 = 0

\* Bytes of a row with its scales, as inkling_project() loads it.
RowBytes(matrix) ==
  IF matrix.kind = "BF16" THEN 2 * matrix.columns
  ELSE matrix.columns \div 2 + matrix.columns \div 16

-------------------------------------------------------------------------------
AttentionNames == {"q", "k", "v", "r", "o"}
MlpNames == {"w13", "down", "shared_w13", "shared_down", "router"}
MatrixNames == AttentionNames \cup MlpNames

\* The scales of a matrix, a factor per expert.
Scales ==
  [q |-> "q scales", k |-> "k scales", v |-> "v scales", r |-> "r scales", o |-> "o scales",
   w13 |-> "w13 scales", down |-> "down scales", shared_w13 |-> "shared_w13 scales",
   shared_down |-> "shared_down scales", router |-> "router scales"]

Joined(attention, mlp) ==
  [name \in MatrixNames |-> IF name \in AttentionNames THEN attention[name] ELSE mlp[name]]

\* A layer as bind_layer() fills it.
Attention(h, q, kv, r) ==
  [q |-> Matrix(1, q, h), k |-> Matrix(1, kv, h), v |-> Matrix(1, kv, h),
   r |-> Matrix(1, r, h), o |-> Matrix(1, h, q)]

DenseMlp(config) ==
  [w13 |-> Matrix(1, 2 * config.dense, config.hidden),
   down |-> Matrix(1, config.hidden, config.dense),
   shared_w13 |-> Absent, shared_down |-> Absent, router |-> Absent]

RoutedMlp(config) ==
  [w13 |-> Stored(config, "w13", Matrix(config.routed, 2 * config.expert, config.hidden)),
   down |-> Stored(config, "down", Matrix(config.routed, config.hidden, config.expert)),
   shared_w13 |-> Matrix(config.shared, 2 * config.expert, config.hidden),
   shared_down |-> Matrix(config.shared, config.hidden, config.expert),
   router |-> Matrix(1, config.routed + config.shared, config.hidden)]

Vectors(h, dim, kv, relative) ==
  [q_norm |-> dim, k_norm |-> dim, relative |-> relative,
   k_conv |-> 4 * kv, v_conv |-> 4 * kv, attn_norm |-> h, mlp_norm |-> h,
   attn_conv |-> 4 * h, mlp_conv |-> 4 * h]

Layer(config, id) ==
  LET local == id \in config.local
      heads == IF local THEN config.swa_heads ELSE config.heads
      kv_heads == IF local THEN config.swa_kv_heads ELSE config.kv_heads
      dim == IF local THEN config.swa_head_dim ELSE config.head_dim
      window == IF local THEN config.window ELSE 0
      extent == IF local THEN window ELSE config.extent
      dense == id < config.dense_idx
  IN [heads |-> heads, kv_heads |-> kv_heads, head_dim |-> dim,
      window |-> window, extent |-> extent, dense |-> dense,
      matrices |-> Joined(Attention(config.hidden, heads * dim, kv_heads * dim,
                                    heads * config.relative),
                          IF dense THEN DenseMlp(config) ELSE RoutedMlp(config)),
      vectors |-> Vectors(config.hidden, dim, kv_heads * dim, config.relative * extent)]
===============================================================================
