------------------------------- MODULE ModelOpen -------------------------------
(***************************************************************************)
(* open_model() of src/model/inkling_bind.c, from the first allocation to  *)
(* the published model, as the items of Allocations, and what              *)
(* inkling_model_close() frees.                                            *)
(*                                                                         *)
(* A way to open is a record: kind is "production", "text" (the text       *)
(* fixture) or "layer" (one layer out of extracted ranges), trunk says     *)
(* whether a packed trunk is selected, config is the configuration, layer  *)
(* the layer of the manifest, and shards the shards in the order of the    *)
(* index, TRUE for the MTP shard.  What the header of a shard, the packed  *)
(* trunk and the manifest say is the matter of Catalogue, PackedTrunk and  *)
(* TensorReads; here each is a test that may fail.                         *)
(***************************************************************************)
EXTENDS Geometry, Allocations, SequencesExt

CONSTANT BlobCount   (* ranges in a manifest *)

Own(name, index, size) == Block("model", name, index, size)
Temp(name) == Own(name, 0, 1)

Extracted(way) == way.kind = "layer"

\* The layers that are bound, by their original numbers.
LayerIds(way) ==
  IF Extracted(way) THEN <<way.layer>> ELSE [k \in 1..way.config.layers |-> k - 1]

-------------------------------------------------------------------------------
\* inkling_config_load(): the list of local layers outlives the document.
ConfigItems(way) ==
  LET ids == Own("local_layer_ids", 0, Cardinality(way.config.local))
      valid == Valid(way.config)
  IN <<Alloc(Temp("path"), {}), Alloc(Temp("document"), {Temp("path")})>>
     \o (IF ids.size = 0
           THEN <<Free({Temp("document")}), Test(valid, {Temp("path")})>>
           ELSE <<Alloc(ids, {Temp("document"), Temp("path")}),
                  Free({Temp("document")}),
                  Test(valid, {ids, Temp("path")}),
                  Become({ids})>>)
     \o <<Free({Temp("path")}), Test(TRUE, {})>>

\* inkling_index_load(): entries and slots, or neither.
IndexItems ==
  LET entries == Own("entries", 0, 1)
      slots == Own("slots", 0, 1)
      input == {Temp("path"), Temp("document")}
  IN <<Alloc(Temp("path"), {}), Alloc(Temp("document"), {Temp("path")}),
       Alloc(entries, input), Alloc(slots, input \cup {entries}),
       Test(TRUE, input \cup {entries, slots}),
       Free({Temp("document")}), Become({entries, slots}), Free({Temp("path")})>>

\* load_shards(), one shard: its path, its header, and in the extracted case a
\* parse of the header for the length that the shard would have.
ShardItems(way, k) ==
  LET path == Own("shard path", k, 1)
      header == Temp("header")
  IN IF Extracted(way)
       THEN <<Alloc(Temp("base"), {}), Keep(path, {Temp("base")}), Free({Temp("base")}),
              Alloc(header, {}), Alloc(Temp("document"), {header}),
              Test(TRUE, {Temp("document"), header}), Free({Temp("document")}),
              Test(TRUE, {header}), Free({header})>>
       ELSE <<Keep(path, {}), Alloc(header, {}), Test(TRUE, {header}), Free({header})>>

Skipped(way, k) == ~Extracted(way) /\ way.shards[k]

ShardsItems(way) ==
  <<Keep(Own("shards", 0, Len(way.shards)), {})>>
  \o FlattenSeq([k \in 1..Len(way.shards) |->
                   IF Skipped(way, k) THEN <<>> ELSE ShardItems(way, k)])
  \o <<Test(TRUE, {})>>

\* quantization()
QuantizationItems ==
  <<Alloc(Temp("path"), {}), Alloc(Temp("document"), {Temp("path")}), Free({Temp("path")}),
    Test(TRUE, {Temp("document")}), Free({Temp("document")})>>

-------------------------------------------------------------------------------
\* Mutant: a blob whose file has another length leaves the directory behind.
BlobItemsLeak(k) ==
  LET around == {Temp("document"), Temp("directory")}
      resolved == Own("blob path", k, 1)
  IN <<Test(TRUE, around),
       Alloc(Temp("parent"), around), Alloc(Temp("joined"), around \cup {Temp("parent")}),
       Alloc(resolved, around \cup {Temp("parent"), Temp("joined")}), Free({Temp("joined")}),
       Test(TRUE, around \cup {Temp("parent"), resolved}), Free({Temp("parent")}),
       Become({resolved}), Test(TRUE, {Temp("document")})>>

\* load_manifest(), one range: its checks, blob_path(), the length of its file.
BlobItems(k) ==
  LET around == {Temp("document"), Temp("directory")}
      resolved == Own("blob path", k, 1)
  IN <<Test(TRUE, around),
       Alloc(Temp("parent"), around), Alloc(Temp("joined"), around \cup {Temp("parent")}),
       Alloc(resolved, around \cup {Temp("parent"), Temp("joined")}), Free({Temp("joined")}),
       Test(TRUE, around \cup {Temp("parent"), resolved}), Free({Temp("parent")}),
       Become({resolved}), Test(TRUE, around)>>

ManifestItems ==
  <<Alloc(Temp("document"), {}), Test(TRUE, {Temp("document")}),
    Alloc(Temp("directory"), {Temp("document")}),
    Keep(Own("blobs", 0, BlobCount), {Temp("directory"), Temp("document")})>>
  \o FlattenSeq([k \in 1..BlobCount |-> BlobItems(k)])
  \o <<Free({Temp("directory")}), Test(TRUE, {Temp("document")}), Free({Temp("document")})>>

-------------------------------------------------------------------------------
\* floats(): the values, and the bytes they are decoded from.
FloatsItems(values) ==
  <<Alloc(values, {}), Alloc(Temp("raw"), {values}), Test(TRUE, {Temp("raw"), values}),
    Free({Temp("raw")})>>

\* vector(): the field is set when the values are there.
VectorItems(values) == <<Test(TRUE, {})>> \o FloatsItems(values) \o <<Become({values})>>

\* scalar(): the values are freed once the first is taken.
ScalarItems ==
  <<Test(TRUE, {})>> \o FloatsItems(Temp("scalar")) \o <<Free({Temp("scalar")})>>

\* matrix(): only NVFP4 reads anything, and keeps a factor per expert.
MatrixItems(name, index, matrix) ==
  IF matrix.kind = "BF16" THEN <<Test(TRUE, {})>>
  ELSE <<Test(Storable(matrix), {})>>
       \o VectorItems(Own(Scales[name], index, matrix.experts))
       \o <<Test(TRUE, {})>> \o ScalarItems \o <<Test(TRUE, {})>>

\* bind_layer()
LayerItems(config, id, index) ==
  LET layer == Layer(config, id)
      matrices(names) ==
        FlattenSeq([k \in DOMAIN names |->
                      MatrixItems(names[k], index, layer.matrices[names[k]])])
      vectors(names) ==
        FlattenSeq([k \in DOMAIN names |->
                      VectorItems(Own(names[k], index, layer.vectors[names[k]]))])
  IN matrices(<<"q", "k", "v", "r", "o">>)
     \o vectors(<<"q_norm", "k_norm", "relative", "k_conv", "v_conv",
                  "attn_norm", "mlp_norm", "attn_conv", "mlp_conv">>)
     \o (IF layer.dense THEN matrices(<<"w13", "down">>)
         ELSE matrices(<<"w13", "down", "shared_w13", "shared_down", "router">>)
              \o VectorItems(Own("correction", index, config.routed)))
     \o ScalarItems

LayersItems(way) ==
  <<Keep(Own("layers", 0, Len(LayerIds(way))), {})>>
  \o FlattenSeq([k \in DOMAIN LayerIds(way) |->
                   LayerItems(way.config, LayerIds(way)[k], k)])

\* Embedding, output and their norms, for a model that evaluates text.
TextItems(config) ==
  <<Test(TRUE, {}), Test(TRUE, {})>>
  \o VectorItems(Own("embed_norm", 0, config.hidden))
  \o VectorItems(Own("final_norm", 0, config.hidden))

\* open_model(), after inkling_verify_model_quiet().
OpenItems(way) ==
  <<Keep(Own("model", 0, 1), {})>>
  \o ConfigItems(way) \o IndexItems \o ShardsItems(way) \o QuantizationItems
  \o (IF way.trunk THEN <<Keep(Own("packed", 0, 1), {})>> ELSE <<>>)
  \o (IF Extracted(way) THEN ManifestItems ELSE <<>>)
  \o LayersItems(way)
  \o (IF Extracted(way) THEN <<>> ELSE TextItems(way.config))

-------------------------------------------------------------------------------
\* The fields that inkling_model_close() frees, of every layer, shard and blob.
ClosedNames ==
  {"q_norm", "k_norm", "relative", "k_conv", "v_conv", "attn_norm", "mlp_norm",
   "attn_conv", "mlp_conv", "correction"}
  \cup {Scales[name] : name \in MatrixNames}
  \cup {"shard path", "blob path", "shards", "blobs", "layers", "embed_norm", "final_norm",
        "packed", "local_layer_ids", "entries", "slots", "model"}
===============================================================================
