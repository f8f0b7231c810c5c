------------------------------- MODULE Sequence -------------------------------
(***************************************************************************)
(* The incremental state of one context (src/model/inkling_forward.c): per *)
(* layer a ring of key/value rows and four convolution histories, and one  *)
(* position and validity flag for the sequence.  inkling_prefill and       *)
(* inkling_decode feed tokens through it, inkling_forward recomputes a     *)
(* prefix without it, and all of them, like inkling_context_reset, start   *)
(* from or end in a state the next call must be able to rely on.           *)
(*                                                                         *)
(* A computed row is named by the text it was computed from.  The model is *)
(* causal, so whatever is computed at position p of a sequence is a        *)
(* function of its first p+1 tokens: the value of a row IS that prefix as  *)
(* long as everything that went into it was right, and Garbage as soon as  *)
(* one operand (a history, a ring slot, the input of the layer) was not    *)
(* what the complete-prefix path would have used.  Equal texts give equal  *)
(* rows, also across sequences.                                            *)
(*                                                                         *)
(* A token passes each layer in six stages, the points between which the   *)
(* code can fail with part of the layer's state already changed.           *)
(***************************************************************************)
EXTENDS Integers, Sequences

CONSTANTS
  Ids,       (* token IDs callers pass                                     *)
  Tokens,    (* those below vocab_size                                     *)
  Prompts,   (* token sequences callers pass to prefill and forward        *)
  Capacity,  (* context->capacity, the max_tokens option                   *)
  NLayers,   (* layers of the model                                        *)
  Window,    (* attention window of each, 0 for a global layer             *)
  Zero,      (* a cleared history entry                                    *)
  Garbage    (* anything that is not the row of a prefix                   *)

Layers == 1..NLayers

Prefixes == Seq(Tokens) \ {<<>>}
Rows == Prefixes \cup {Zero, Garbage}

ASSUME SequenceAssumption ==
  /\ Tokens \subseteq Ids
  /\ Prompts \subseteq Seq(Ids)
  /\ Capacity \in Nat \ {0} /\ NLayers \in Nat \ {0}
  /\ Window \in [Layers -> Nat]
  /\ Zero \notin Seq(Tokens) /\ Garbage \notin Seq(Tokens) /\ Zero # Garbage

Convs == {"key", "value", "attn", "mlp"}
Stages == {"key", "value", "store", "attend", "attn", "mlp"}

VARIABLES
  incremental,  (* the option the context was created with                 *)
  position,     (* sequence->position                                      *)
  valid,        (* sequence->valid                                         *)
  slots,        (* per layer, the ring of key/value rows                   *)
  history,      (* per layer and convolution, its last three inputs        *)
  ids,          (* tokens the call in progress has still to consume        *)
  layer,        (* the layer the current token is in, 0 between tokens     *)
  stage,        (* and its stage                                           *)
  x,            (* hidden row entering the layer                           *)
  y,            (* row computed inside the layer                           *)
  logits,       (* row the last call projected its logits from, or Zero    *)
  fed           (* history variable: tokens consumed since the last reset  *)

sequence == <<position, valid, slots, history>>
progress == <<layer, stage, x, y>>
vars == <<incremental, sequence, ids, progress, logits, fed>>

\* sequence_create(): a local layer keeps a window, never more than the context.
RingSize(l) == IF Window[l] # 0 /\ Window[l] < Capacity THEN Window[l] ELSE Capacity

ClearedHistory == <<Zero, Zero, Zero>>
TornHistory == <<Garbage, Garbage, Garbage>>

-------------------------------------------------------------------------------
\* Rows of a text, named by its prefixes.
Row(text, n) == IF n > 0 THEN SubSeq(text, 1, n) ELSE Zero

\* The three inputs a convolution has seen before the row of this text, and
\* after it.
PastOf(text) == [i \in 1..3 |-> Row(text, Len(text) - 4 + i)]
HistoryOf(text) == [i \in 1..3 |-> Row(text, Len(text) - 3 + i)]

\* inkling_conv4 on one token: three old inputs and the current one.
Convolve(h, row) == IF row \in Prefixes /\ h = PastOf(row) THEN row ELSE Garbage
Shift(h, row) == <<h[2], h[3], row>>

\* The keys the complete-prefix path lets position t attend to (its mask), and
\* the ones the incremental path reads out of a ring.
MaskWindow(l, t) == {s \in 0..t : Window[l] = 0 \/ t - s < Window[l]}
RingStart(l, t) == IF t + 1 > RingSize(l) THEN t + 1 - RingSize(l) ELSE 0
RingWindow(l, t) == RingStart(l, t)..t

Slot(l, s) == s % RingSize(l)

\* The attention row: right if the query is, if the positions read are those
\* of the mask, and if each slot holds the row of its position in this text.
Attention(l, row) ==
  IF /\ row \in Prefixes
     /\ RingWindow(l, position) = MaskWindow(l, Len(row) - 1)
     /\ \A s \in RingWindow(l, position) : slots[l][Slot(l, s)] = SubSeq(row, 1, s + 1)
  THEN row ELSE Garbage

-------------------------------------------------------------------------------
Idle == ids = <<>>

ClearedState ==
  [l \in Layers |-> [c \in Convs |-> ClearedHistory]]

\* Mutant: a reset forgets the MLP histories.
ResetButMlp ==
  IF incremental
    THEN /\ position' = 0 /\ valid' = TRUE
         /\ history' = [l \in Layers |-> [ClearedState[l] EXCEPT !["mlp"] = history[l]["mlp"]]]
         /\ UNCHANGED slots
    ELSE UNCHANGED sequence

\* inkling_context_reset: the histories are zeroed and the slots are not.
ResetState ==
  IF incremental
    THEN /\ position' = 0 /\ valid' = TRUE
         /\ history' = ClearedState
         /\ UNCHANGED slots
    ELSE UNCHANGED sequence

NoToken == layer' = 0 /\ stage' = "key" /\ x' = Zero /\ y' = Zero

Init ==
  /\ incremental \in BOOLEAN
  /\ position = 0
  /\ valid = incremental
  /\ slots = [l \in Layers |-> [s \in 0..(RingSize(l) - 1) |-> Garbage]]
  /\ history = ClearedState
  /\ ids = <<>> /\ fed = <<>>
  /\ layer = 0 /\ stage = "key" /\ x = Zero /\ y = Zero
  /\ logits = Zero

Reset ==
  /\ Idle
  /\ ResetState
  /\ fed' = <<>> /\ logits' = Zero
  /\ UNCHANGED <<incremental, ids, progress>>

ValidPrompt(text) ==
  /\ Len(text) \in 1..Capacity
  /\ \A i \in 1..Len(text) : text[i] \in Tokens

\* inkling_prefill resets before it looks at its arguments.
Prefill(text) ==
  /\ Idle /\ incremental /\ ValidPrompt(text)
  /\ ResetState
  /\ ids' = text /\ fed' = <<>> /\ logits' = Zero
  /\ UNCHANGED <<incremental, progress>>

\* Refused: bad buffers (any text), a bad length or a bad token; the reset has
\* happened and sequence_failure follows it.
PrefillRefused ==
  /\ Idle /\ incremental
  /\ position' = 0 /\ valid' = FALSE
  /\ history' = ClearedState
  /\ fed' = <<>> /\ logits' = Zero
  /\ UNCHANGED <<incremental, slots, ids, progress>>

\* Mutant: the context may be full.
CanDecodeFull(id) == incremental /\ valid /\ id \in Tokens /\ position <= Capacity

CanDecode(id) == incremental /\ valid /\ id \in Tokens /\ position < Capacity

Decode(id) ==
  /\ Idle /\ CanDecode(id)
  /\ ids' = <<id>> /\ logits' = Zero
  /\ UNCHANGED <<incremental, sequence, progress, fed>>

\* Refused, because of its state or its arguments: this too ends the sequence.
DecodeRefused ==
  /\ Idle /\ incremental
  /\ position' = 0 /\ valid' = FALSE
  /\ fed' = <<>> /\ logits' = Zero
  /\ UNCHANGED <<incremental, slots, history, ids, progress>>

\* inkling_forward, inkling_forward_last: a reset, then work on scratch alone.
\* The row it returns is the reference the incremental path is compared with.
Forward(text) ==
  /\ Idle
  /\ ResetState
  /\ fed' = <<>>
  /\ \/ logits' = Zero
     \/ ValidPrompt(text) /\ logits' = text
  /\ UNCHANGED <<incremental, ids, progress>>

-------------------------------------------------------------------------------
\* token_forward: the embedding of the next token enters layer 1.
Embed ==
  /\ ids # <<>> /\ layer = 0
  /\ x' = Append(fed, Head(ids))
  /\ layer' = 1 /\ stage' = "key"
  /\ UNCHANGED <<incremental, sequence, ids, y, logits, fed>>

At(s) == layer \in Layers /\ stage = s

\* One convolution: its history moves on and its output is the next row.
ThroughConv(c, row) ==
  /\ history' = [history EXCEPT ![layer][c] = Shift(@, row)]
  /\ UNCHANGED <<incremental, position, valid, slots, ids, logits, fed>>

ConvKey ==
  /\ At("key")
  /\ ThroughConv("key", x)
  /\ y' = Convolve(history[layer]["key"], x)
  /\ stage' = "value"
  /\ UNCHANGED <<layer, x>>

\* A ring row is right if its key and its value are.
ConvValue ==
  /\ At("value")
  /\ ThroughConv("value", x)
  /\ y' = IF y = x THEN Convolve(history[layer]["value"], x) ELSE Garbage
  /\ stage' = "store"
  /\ UNCHANGED <<layer, x>>

Store ==
  /\ At("store")
  /\ slots' = [slots EXCEPT ![layer][Slot(layer, position)] = y]
  /\ stage' = "attend"
  /\ UNCHANGED <<incremental, position, valid, history, ids, layer, x, y, logits, fed>>

Attend ==
  /\ At("attend")
  /\ y' = Attention(layer, x)
  /\ stage' = "attn"
  /\ UNCHANGED <<incremental, sequence, ids, layer, x, logits, fed>>

ConvAttn ==
  /\ At("attn")
  /\ ThroughConv("attn", y)
  /\ y' = Convolve(history[layer]["attn"], y)
  /\ stage' = "mlp"
  /\ UNCHANGED <<layer, x>>

ConvMlp ==
  /\ At("mlp")
  /\ ThroughConv("mlp", y)
  /\ x' = Convolve(history[layer]["mlp"], y)
  /\ layer' = layer + 1
  /\ stage' = "key" /\ y' = Zero

\* After the last layer: the logits if this is the call's last token, then the
\* position moves.
Commit ==
  /\ layer = NLayers + 1
  /\ logits' = IF Len(ids) = 1 THEN x ELSE Zero
  /\ position' = position + 1
  /\ ids' = Tail(ids)
  /\ fed' = Append(fed, Head(ids))
  /\ NoToken
  /\ UNCHANGED <<incremental, valid, slots, history>>

\* Mutant: a failed token does not end the sequence.
FailKeepsSequence ==
  /\ ids # <<>>
  /\ \/ UNCHANGED history
     \/ layer \in Layers /\ stage \in Convs
        /\ history' = [history EXCEPT ![layer][stage] = TornHistory]
  /\ ids' = <<>> /\ logits' = Zero
  /\ NoToken
  /\ UNCHANGED <<incremental, position, valid, slots, fed>>

\* Any stage may fail: a read, a projection, a non-finite value.  The history
\* the stage was moving may be torn; sequence_failure ends the sequence.
Fail ==
  /\ ids # <<>>
  /\ position' = 0 /\ valid' = FALSE
  /\ \/ UNCHANGED history
     \/ layer \in Layers /\ stage \in Convs
        /\ history' = [history EXCEPT ![layer][stage] = TornHistory]
  /\ ids' = <<>> /\ fed' = <<>> /\ logits' = Zero
  /\ NoToken
  /\ UNCHANGED <<incremental, slots>>

Call ==
  \/ Reset
  \/ PrefillRefused
  \/ DecodeRefused
  \/ \E text \in Prompts : Prefill(text) \/ Forward(text)
  \/ \E id \in Ids : Decode(id)

Token ==
  Embed \/ ConvKey \/ ConvValue \/ Store \/ Attend \/ ConvAttn \/ ConvMlp \/ Commit \/ Fail

Next == Call \/ Token

Spec == Init /\ [][Next]_vars

-------------------------------------------------------------------------------
\* inkling_context_position tells the truth: it counts the tokens consumed since
\* the last reset or failure, and tokens in flight never overrun the context.
PositionHonest ==
  /\ (IF valid THEN position ELSE 0) = Len(fed)
  /\ position + Len(ids) <= Capacity

\* What a sequence has left behind is of its text alone, whatever earlier
\* sequences, failed tokens and wrap-arounds have put in the same memory: each
\* ring holds the rows of the last RingSize positions in the slots where attention
\* looks for them, and each convolution has seen the last three rows, with zeros
\* before the first.
StateIsOfText ==
  layer = 0 /\ valid =>
    \A l \in Layers :
      /\ \A s \in 0..(position - 1) :
           position - s <= RingSize(l) => slots[l][Slot(l, s)] = SubSeq(fed, 1, s + 1)
      /\ \A c \in Convs : history[l][c] = HistoryOf(fed)

\* The context implements Continuation: it remembers exactly the tokens fed to
\* it since it was last reset, or nothing, and answers for that text only.
Context == INSTANCE Continuation WITH
             text <- IF incremental /\ ~valid THEN Garbage ELSE fed,
             answer <- logits,
             Broken <- Garbage,
             NoAnswer <- Zero

ImplementsContinuation == Context!Spec
===============================================================================
