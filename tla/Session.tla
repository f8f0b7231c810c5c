-------------------------------- MODULE Session --------------------------------
(***************************************************************************)
(* A session with the library: a model is opened, contexts are created on  *)
(* it, evaluated, freed, and the model is closed.  Any allocation and any  *)
(* check on the way may fail.                                              *)
(*                                                                         *)
(* The caller keeps to the contract: one call at a time, contexts are      *)
(* freed before their model is closed (include/inkling/inkling_model.h).   *)
(***************************************************************************)
EXTENDS Evaluation

CONSTANTS
  Contexts,   (* the contexts of the session                               *)
  Ways,       (* the ways to open a model                                  *)
  Options     (* the options that contexts are created with                *)

Configurations ==
  [max_length : Nat, vocab : Nat, unpadded : Nat, hidden : Nat, layers : Nat, heads : Nat,
   kv_heads : Nat, head_dim : Nat, swa_heads : Nat, swa_kv_heads : Nat, swa_head_dim : Nat,
   window : Nat, local : SUBSET Nat, relative : Nat, extent : Nat, dense_idx : Nat,
   dense : Nat, expert : Nat, routed : Nat, shared : Nat, per_token : Nat,
   packed : SUBSET STRING]

ASSUME SessionAssumption ==
  /\ "model" \notin Contexts /\ BlobCount \in Nat
  /\ Ways \subseteq [kind : {"production", "text", "layer"}, config : Configurations,
                    trunk : BOOLEAN, layer : Nat, shards : Seq(BOOLEAN)]
  /\ Options # {}
  /\ Options \subseteq [max_tokens : Nat, weight_bytes : Nat, incremental : BOOLEAN]

VARIABLES
  stage,      (* per owner: "none", "building" or "live"                   *)
  doing,      (* the call in progress                                      *)
  way         (* the way the model was opened last                         *)

session == <<allocations, contextData, stage, doing, way>>

Owners == {"model"} \cup Contexts

SessionInit ==
  /\ heap = {} /\ held = [o \in Owners |-> {}] /\ by = "model" /\ todo = <<>>
  /\ pins = {} /\ misuse = {}
  /\ model = NoModel /\ way \in Ways
  /\ options = [c \in Contexts |-> CHOOSE o \in Options : TRUE]
  /\ scratch = [c \in Contexts |-> 0] /\ position = [c \in Contexts |-> Invalid]
  /\ stage = [o \in Owners |-> "none"] /\ doing = "nothing"

Ready == doing = "nothing"

Begin(owner, call, items) ==
  /\ by' = owner /\ doing' = call /\ todo' = items
  /\ UNCHANGED <<heap, held, pins, misuse>>

-------------------------------------------------------------------------------
OpenModel ==
  /\ Ready /\ stage["model"] = "none"
  /\ \E w \in Ways : way' = w /\ Begin("model", "open", OpenItems(w))
  /\ stage' = [stage EXCEPT !["model"] = "building"]
  /\ UNCHANGED contextData

CreateContext(c) ==
  /\ Ready /\ stage["model"] = "live" /\ stage[c] = "none"
  /\ \E o \in Options :
       /\ Creatable(o)
       /\ options' = [options EXCEPT ![c] = o]
       /\ Begin(c, "create", CreateItems(c, o))
  /\ stage' = [stage EXCEPT ![c] = "building"]
  /\ UNCHANGED <<model, scratch, position, way>>

Evaluate(c, call, items) ==
  /\ Ready /\ stage[c] = "live"
  /\ Begin(c, call, items)
  /\ UNCHANGED <<contextData, stage, way>>

\* block_args() wants a layer of the model and at most max_tokens rows.
Blocks(c) ==
  \E k \in DOMAIN model.layers, tokens \in 1..options[c].max_tokens :
    \/ Evaluate(c, "attention", AttentionCall(c, k, tokens, FALSE))
    \/ Evaluate(c, "mlp", MlpCall(c, k, tokens, FALSE))
    \/ Evaluate(c, "layer", LayerCall(c, k, tokens, {}))

Forward(c) ==
  /\ model.complete
  /\ \E tokens \in 1..options[c].max_tokens : Evaluate(c, "forward", ForwardCall(c, tokens))

Prefill(c) ==
  /\ model.complete /\ options[c].incremental
  /\ \E tokens \in 1..options[c].max_tokens : Evaluate(c, "prefill", PrefillCall(c, tokens))

Decode(c) ==
  /\ model.complete /\ options[c].incremental
  /\ position[c] \in 0..options[c].max_tokens - 1
  /\ Evaluate(c, "decode", TokenCall(c, position[c]))

\* A decode that is refused, for lack of room or of a sequence.
DecodeRefused(c) ==
  /\ Ready /\ stage[c] = "live" /\ options[c].incremental
  /\ position' = [position EXCEPT ![c] = Invalid]
  /\ UNCHANGED <<allocations, model, options, scratch, stage, doing, way>>

\* inkling_generate(), before its first evaluation.
Prepare(c) == model.complete /\ Evaluate(c, "prepare", GenerationItems(c))

-------------------------------------------------------------------------------
\* scratch_reserve(): nothing to do, or its items come first.
ReserveRows ==
  /\ todo # <<>> /\ Head(todo).rows > 0
  /\ todo' = (IF Reserved(by, Head(todo).rows) THEN <<>> ELSE RowItems(by, Head(todo).rows))
             \o Tail(todo)
  /\ UNCHANGED <<heap, held, by, pins, misuse, contextData, stage, doing, way>>

Noted(f, value) == IF value = -1 THEN f ELSE [f EXCEPT ![by] = value]

Succeed ==
  /\ todo # <<>> /\ Head(todo).rows = 0 /\ Head(todo).pass
  /\ Done(Head(todo))
  /\ scratch' = Noted(scratch, Head(todo).scratch)
  /\ position' = Noted(position, Head(todo).position)
  /\ todo' = Tail(todo)
  /\ UNCHANGED <<by, model, options, stage, doing, way>>

ReleasedNames == IF by = "model" THEN ClosedNames ELSE FreedNames
Released == {b \in held[by] : b.name \in ReleasedNames}

\* An open or a create that fails leaves nothing behind.
FailWhole ==
  /\ todo # <<>> /\ Head(todo).may /\ stage[by] = "building"
  /\ Undone(Head(todo), Released)
  /\ stage' = [stage EXCEPT ![by] = "none"]
  /\ scratch' = (IF by = "model" THEN scratch ELSE [scratch EXCEPT ![by] = 0])
  /\ todo' = <<>> /\ doing' = "nothing" /\ pins' = {}
  /\ UNCHANGED <<by, model, options, position, way>>

\* Any other call leaves its context, with an unusable sequence if it was one
\* of prefill and decode.
FailCall ==
  /\ todo # <<>> /\ Head(todo).may /\ stage[by] = "live"
  /\ Undone(Head(todo), {})
  /\ position' = (IF doing \in {"prefill", "decode"} THEN [position EXCEPT ![by] = Invalid]
                  ELSE position)
  /\ todo' = <<>> /\ doing' = "nothing" /\ pins' = {}
  /\ UNCHANGED <<by, model, options, scratch, stage, way>>

\* A call returns 1: a model or a context is published; creation ends in a reset.
Return ==
  /\ doing # "nothing" /\ todo = <<>>
  /\ stage' = [stage EXCEPT ![by] = "live"]
  /\ model' = (IF doing = "open" THEN Model(way) ELSE model)
  /\ position' = (IF doing = "create" /\ options[by].incremental
                    THEN [position EXCEPT ![by] = 0] ELSE position)
  /\ doing' = "nothing" /\ pins' = {}
  /\ UNCHANGED <<heap, held, by, todo, misuse, options, scratch, way>>

-------------------------------------------------------------------------------
\* What close and free give back; the owner is no more.
Release(owner, names) ==
  /\ LET blocks == {b \in held[owner] : b.name \in names}
     IN heap' = heap \ blocks /\ misuse' = misuse \cup (blocks \ heap)
  /\ held' = [held EXCEPT ![owner] = {}]
  /\ stage' = [stage EXCEPT ![owner] = "none"]
  /\ UNCHANGED <<by, todo, pins, doing, way>>

FreeContext(c) ==
  /\ Ready /\ stage[c] = "live"
  /\ Release(c, FreedNames)
  /\ scratch' = [scratch EXCEPT ![c] = 0] /\ position' = [position EXCEPT ![c] = Invalid]
  /\ UNCHANGED <<model, options>>

CloseModel ==
  /\ Ready /\ stage["model"] = "live" /\ \A c \in Contexts : stage[c] = "none"
  /\ Release("model", ClosedNames)
  /\ model' = NoModel
  /\ UNCHANGED <<options, scratch, position>>

SessionNext ==
  \/ OpenModel \/ CloseModel
  \/ \E c \in Contexts :
       \/ CreateContext(c) \/ FreeContext(c)
       \/ Blocks(c) \/ Forward(c) \/ Prefill(c) \/ Decode(c) \/ DecodeRefused(c) \/ Prepare(c)
  \/ ReserveRows \/ Succeed \/ FailWhole \/ FailCall \/ Return

SessionSpec == SessionInit /\ [][SessionNext]_session
-------------------------------------------------------------------------------
Live == {o \in Owners : stage[o] = "live"}

\* Wherever an open, a creation or a reservation fails, nothing leaks, nothing
\* is freed twice and no field keeps a pointer to what was freed: between calls
\* the heap is what the published model and the contexts own, and nothing is
\* left when they are gone.
HeapAccounted ==
  /\ misuse = {}
  /\ \A o \in Owners : held[o] \subseteq heap
  /\ Ready => heap = UNION {held[o] : o \in Live}

\* The nine buffers with a row per token are exchanged together: at any moment
\* all of them hold scratch_capacity rows of the widest layer, or the context
\* has none yet.
RowsTogether ==
  \A c \in Contexts :
    RowsHeld(c) = IF scratch[c] = 0 THEN {} ELSE Range(Rows(c, scratch[c]))

\* Whatever a context was used for before, and with the smallest weight buffer
\* that creation admits, an evaluation stays inside the buffers of the context
\* and the vectors of the model, and the rows that a layer hands to attention
\* and MLP are still there when those have reserved theirs.
AccessesFit ==
  todo # <<>> => \A access \in Head(todo).uses : Inside(access)
===============================================================================
