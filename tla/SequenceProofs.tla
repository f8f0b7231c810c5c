---------------------------- MODULE SequenceProofs ----------------------------
(***************************************************************************)
(* The incremental sequence, for every vocabulary, capacity, number of     *)
(* layers and windows: what it keeps is of its text alone, its position is *)
(* honest, and it implements Continuation.                                 *)
(*                                                                         *)
(* The invariant follows the token in flight.  Each ring and each history  *)
(* is of the text without that token until the token has passed the stage  *)
(* that changes it, and of the text with it from then on; the row that the *)
(* stages hand on is the whole text.                                       *)
(***************************************************************************)
EXTENDS Sequence, TLAPS, SequenceTheorems

Typed ==
  /\ incremental \in BOOLEAN /\ valid \in BOOLEAN /\ position \in Nat
  /\ ids \in Seq(Tokens) /\ fed \in Seq(Tokens)
  /\ layer \in 0..(NLayers + 1) /\ stage \in Stages
  /\ x \in Rows /\ y \in Rows /\ logits \in Prefixes \cup {Zero}
  /\ history \in [Layers -> [Convs -> [1..3 -> Rows]]]
  /\ DOMAIN slots = Layers
  /\ \A l \in Layers : slots[l] \in [0..(RingSize(l) - 1) -> Rows]

\* The order of the stages, and whether the token in flight has left stage s of
\* layer l behind.
Number(s) ==
  CASE s = "key" -> 1 [] s = "value" -> 2 [] s = "store" -> 3
    [] s = "attend" -> 4 [] s = "attn" -> 5 [] s = "mlp" -> 6

Passed(l, s) == layer > l \/ (layer = l /\ Number(stage) > Number(s))

\* The text that what stage s of layer l changes is now of.
TextAt(l, s) == IF Passed(l, s) THEN Append(fed, Head(ids)) ELSE fed

\* A ring holds the last rows of a text where attention looks for them.
RingHolds(ring, l, text) ==
  \A s \in 0..(Len(text) - 1) :
    Len(text) - s <= RingSize(l) => ring[Slot(l, s)] = SubSeq(text, 1, s + 1)

StateInv ==
  valid => \A l \in Layers :
             /\ RingHolds(slots[l], l, TextAt(l, "store"))
             /\ \A c \in Convs : history[l][c] = HistoryOf(TextAt(l, c))

\* The rows that the stages hand on.
RowInv ==
  /\ layer = 0 \/ layer = NLayers + 1 => stage = "key"
  /\ layer > 0 => ids # <<>> /\ x = Append(fed, Head(ids))
  /\ stage # "key" => y = x

CallInv ==
  /\ valid => incremental /\ position = Len(fed)
  /\ ~valid => position = 0 /\ fed = <<>> /\ ids = <<>>
  /\ position + Len(ids) <= Capacity

IInv == Typed /\ StateInv /\ RowInv /\ CallInv

-------------------------------------------------------------------------------
\* Two positions less than a ring apart have slots of their own.
LEMMA SlotsDiffer ==
  ASSUME NEW r \in Nat \ {0}, NEW s \in Nat, NEW t \in Nat, s < t, t - s < r
  PROVE  s % r # t % r
<1> SUFFICES ASSUME s % r = t % r PROVE FALSE
  OBVIOUS
<1> DEFINE a == s \div r
           b == t \div r
<1>1. a \in Nat /\ s % r \in Int /\ s = r * a + (s % r)
  OBVIOUS
<1>2. b \in Nat /\ t % r \in Int /\ t = r * b + (t % r)
  OBVIOUS
<1> HIDE DEF a, b
<1>3. r * a \in Int /\ r * b \in Int
  BY <1>1, <1>2
<1>4. r * b > r * a /\ r * b - r * a < r
  BY <1>1, <1>2, <1>3
<1>5. CASE b <= a
  <2>1. r * b <= r * a
    BY <1>1, <1>2, <1>5
  <2>2. QED
    BY <1>3, <1>4, <2>1
<1>6. CASE b >= a + 1
  <2>1. r * b >= r * (a + 1) /\ r * (a + 1) = r * a + r
    BY <1>1, <1>2, <1>6
  <2>2. QED
    BY <1>3, <1>4, <2>1
<1>7. QED
  BY <1>1, <1>2, <1>5, <1>6

\* A ring has at least one slot and no more than the context has positions.
LEMMA RingSizes ==
  ASSUME NEW l \in Layers
  PROVE  RingSize(l) \in Nat \ {0} /\ RingSize(l) <= Capacity
BY SequenceAssumption DEF RingSize

\* The positions that the incremental path reads out of a ring are the ones that
\* the mask of the complete-prefix path lets through, up to the last position.
LEMMA WindowIsMask ==
  ASSUME NEW l \in Layers, NEW t \in Nat, t < Capacity
  PROVE  RingWindow(l, t) = MaskWindow(l, t)
<1>1. Window[l] \in Nat /\ Capacity \in Nat
  BY SequenceAssumption
<1>2. CASE Window[l] # 0 /\ Window[l] < Capacity
  BY <1>1, <1>2 DEF RingWindow, RingStart, MaskWindow, RingSize
<1>3. CASE ~(Window[l] # 0 /\ Window[l] < Capacity)
  <2>1. RingStart(l, t) = 0
    BY <1>1, <1>3 DEF RingStart, RingSize
  <2>2. \A s \in 0..t : Window[l] = 0 \/ t - s < Window[l]
    BY <1>1, <1>3
  <2>3. QED
    BY <2>1, <2>2 DEF RingWindow, MaskWindow
<1>4. QED
  BY <1>2, <1>3

-------------------------------------------------------------------------------
\* A text with one more token, and its prefixes.
LEMMA Longer ==
  ASSUME NEW text \in Seq(Tokens), NEW id \in Tokens
  PROVE  /\ Append(text, id) \in Prefixes /\ Append(text, id) \in Seq(Tokens)
         /\ Len(Append(text, id)) = Len(text) + 1
         /\ SubSeq(Append(text, id), 1, Len(text) + 1) = Append(text, id)
         /\ \A n \in 0..Len(text) : SubSeq(Append(text, id), 1, n) = SubSeq(text, 1, n)
<1> DEFINE u == Append(text, id)
<1>1. u \in Seq(Tokens) /\ Len(u) = Len(text) + 1 /\ Len(text) \in Nat
      /\ \A i \in 1..Len(text) : u[i] = text[i]
  OBVIOUS
<1>2. u # <<>>
  BY <1>1
<1>3. SubSeq(u, 1, Len(text) + 1) = u
  BY <1>1, SubSeqFull
<1>4. ASSUME NEW n \in 0..Len(text) PROVE SubSeq(u, 1, n) = SubSeq(text, 1, n)
  <2>1. \A i \in 1..n : u[i] \in Tokens /\ text[i] \in Tokens /\ u[i] = text[i]
    BY <1>1, ElementOfSeq
  <2>2. /\ SubSeq(u, 1, n) \in Seq(Tokens) /\ Len(SubSeq(u, 1, n)) = n
        /\ \A i \in 1..n : SubSeq(u, 1, n)[i] = u[i]
    <3>1. \A i \in 1..n : u[i] \in Tokens
      BY <2>1
    <3>2. QED
      BY <3>1, SubSeqProperties
  <2>3. /\ SubSeq(text, 1, n) \in Seq(Tokens) /\ Len(SubSeq(text, 1, n)) = n
        /\ \A i \in 1..n : SubSeq(text, 1, n)[i] = text[i]
    <3>1. \A i \in 1..n : text[i] \in Tokens
      BY <2>1
    <3>2. QED
      BY <3>1, SubSeqProperties
  <2>4. QED
    BY <2>1, <2>2, <2>3, SeqEqual
<1>5. QED
  BY <1>1, <1>2, <1>3, <1>4 DEF Prefixes

\* The rows of a text are rows, and the rows before it do not change when it grows.
LEMMA RowType ==
  ASSUME NEW text \in Seq(Tokens), NEW n \in Int, n <= Len(text)
  PROVE  Row(text, n) \in Rows
<1>1. CASE n > 0
  <2>1. \A i \in 1..n : text[i] \in Tokens
    BY <1>1
  <2>2. SubSeq(text, 1, n) \in Seq(Tokens) /\ Len(SubSeq(text, 1, n)) = n
    BY <1>1, <2>1, SubSeqProperties
  <2>3. QED
    BY <1>1, <2>2 DEF Row, Rows, Prefixes
<1>2. CASE ~(n > 0)
  BY <1>2 DEF Row, Rows
<1>3. QED
  BY <1>1, <1>2

\* A token that is appended changes none of the rows before it.
LEMMA RowStays ==
  ASSUME NEW text \in Seq(Tokens), NEW id \in Tokens, NEW n \in Int, n <= Len(text)
  PROVE  Row(Append(text, id), n) = Row(text, n)
<1>1. CASE n > 0
  <2>1. n \in 0..Len(text)
    BY <1>1
  <2>2. QED
    BY <2>1, Longer DEF Row
<1>2. CASE ~(n > 0)
  BY <1>2 DEF Row
<1>3. QED
  BY <1>1, <1>2

\* What a convolution remembers of a text are three rows.
LEMMA HistoryType ==
  ASSUME NEW text \in Seq(Tokens)
  PROVE  HistoryOf(text) \in [1..3 -> Rows]
<1>1. \A i \in 1..3 : Row(text, Len(text) - 3 + i) \in Rows
  BY RowType
<1>2. QED
  BY <1>1 DEF HistoryOf

\* The three inputs before the row of a longer text are the last three of the text.
LEMMA PastIsHistory ==
  ASSUME NEW text \in Seq(Tokens), NEW id \in Tokens
  PROVE  PastOf(Append(text, id)) = HistoryOf(text)
<1>1. Len(Append(text, id)) = Len(text) + 1 /\ Len(text) \in Nat
  BY Longer
<1>2. ASSUME NEW i \in 1..3
      PROVE  Row(Append(text, id), Len(Append(text, id)) - 4 + i) = Row(text, Len(text) - 3 + i)
  BY <1>1, RowStays
<1>3. QED
  BY <1>2 DEF PastOf, HistoryOf

\* A convolution that has seen a text is right on the next row, and has then seen
\* the longer text.
LEMMA ConvolveRight ==
  ASSUME NEW text \in Seq(Tokens), NEW id \in Tokens
  PROVE  Convolve(HistoryOf(text), Append(text, id)) = Append(text, id)
BY Longer, PastIsHistory DEF Convolve

\* Shifting the longer text into the history of a text gives the history of the longer one.
LEMMA ShiftMovesOn ==
  ASSUME NEW text \in Seq(Tokens), NEW id \in Tokens
  PROVE  Shift(HistoryOf(text), Append(text, id)) = HistoryOf(Append(text, id))
<1> DEFINE u == Append(text, id)
           h == HistoryOf(u)
<1>1. Len(u) = Len(text) + 1 /\ Len(text) \in Nat /\ Row(u, Len(text) + 1) = u
  BY Longer DEF Row
<1>2. /\ HistoryOf(text)[2] = Row(text, Len(text) - 1)
      /\ HistoryOf(text)[3] = Row(text, Len(text))
  BY <1>1 DEF HistoryOf
<1>3. Row(u, Len(text) - 1) = Row(text, Len(text) - 1) /\ Row(u, Len(text)) = Row(text, Len(text))
  BY <1>1, RowStays
<1>4. h[1] = Row(u, Len(text) - 1) /\ h[2] = Row(u, Len(text)) /\ h[3] = u
  BY <1>1 DEF HistoryOf
<1>5. h = <<h[1], h[2], h[3]>>
  BY DEF HistoryOf
<1>6. QED
  BY <1>2, <1>3, <1>4, <1>5 DEF Shift

\* A cleared history is the one of the empty text.
LEMMA HistoryOfNothing == HistoryOf(<<>>) = ClearedHistory
<1>1. \A i \in 1..3 : Row(<<>>, Len(<<>>) - 3 + i) = Zero
  BY EmptySeq DEF Row
<1>2. QED
  BY <1>1 DEF HistoryOf, ClearedHistory

-------------------------------------------------------------------------------
\* What every step needs of the invariant: between two tokens nothing is passed,
\* and while a token is in flight the sequence is valid and has room for it.
LEMMA Flight ==
  ASSUME IInv
  PROVE  /\ ids = <<>> => layer = 0 /\ stage = "key"
         /\ ids # <<>> => /\ valid /\ incremental /\ position = Len(fed)
                          /\ Head(ids) \in Tokens /\ position < Capacity
                          /\ Tail(ids) \in Seq(Tokens) /\ Len(Tail(ids)) = Len(ids) - 1
         /\ NLayers \in Nat \ {0} /\ Capacity \in Nat /\ Len(fed) \in Nat /\ Len(ids) \in Nat
<1> USE SequenceAssumption DEF IInv, Typed
<1>1. NLayers \in Nat \ {0} /\ Capacity \in Nat /\ Len(fed) \in Nat /\ Len(ids) \in Nat
  OBVIOUS
<1>2. ids = <<>> => layer = 0 /\ stage = "key"
  BY <1>1 DEF RowInv
<1>3. ASSUME ids # <<>>
      PROVE  /\ valid /\ incremental /\ position = Len(fed)
             /\ Head(ids) \in Tokens /\ position < Capacity
             /\ Tail(ids) \in Seq(Tokens) /\ Len(Tail(ids)) = Len(ids) - 1
  <2>1. Len(ids) > 0 /\ Head(ids) \in Tokens
        /\ Tail(ids) \in Seq(Tokens) /\ Len(Tail(ids)) = Len(ids) - 1
    BY <1>3, EmptySeq, HeadTailProperties
  <2>2. valid /\ incremental /\ position = Len(fed)
    BY <1>3 DEF CallInv
  <2>3. QED
    BY <1>1, <2>1, <2>2 DEF CallInv
<1>4. QED
  BY <1>1, <1>2, <1>3

\* A cleared sequence is of the empty text, whatever its rings hold.
LEMMA FromNothing ==
  ASSUME Typed, history' = ClearedState, slots' = slots, fed' = <<>>, layer' = 0
  PROVE  StateInv' /\ history' \in [Layers -> [Convs -> [1..3 -> Rows]]]
<1>1. NLayers \in Nat \ {0}
  BY SequenceAssumption
<1>2. \A l \in Layers, s \in Stages : TextAt(l, s)' = <<>>
  BY <1>1 DEF TextAt, Passed, Layers
<1>3. Convs \subseteq Stages /\ "store" \in Stages
  BY DEF Convs, Stages
<1>4. \A l \in Layers, c \in Convs : history'[l][c] = ClearedHistory
  BY DEF ClearedState
<1>5. \A l \in Layers : RingHolds(slots[l], l, <<>>)
  BY EmptySeq DEF RingHolds
<1>6. StateInv'
  BY <1>2, <1>3, <1>4, <1>5, HistoryOfNothing DEF StateInv
<1>7. ClearedHistory \in [1..3 -> Rows]
  BY HistoryOfNothing, HistoryType, EmptySeq
<1>8. QED
  BY <1>6, <1>7 DEF ClearedState

\* A call that resets, or that fails, leaves an empty text.
LEMMA ClearedInvariant ==
  ASSUME IInv, history' = ClearedState, slots' = slots, position' = 0, valid' \in BOOLEAN,
         valid' => incremental, fed' = <<>>, layer = 0,
         UNCHANGED <<incremental, layer, stage, x, y>>, ids' \in Seq(Tokens), ~valid' => ids' = <<>>, Len(ids') <= Capacity,
         logits' \in Prefixes \cup {Zero}
  PROVE  IInv'
<1>1. /\ layer' = 0 /\ stage' = "key" /\ x' = x /\ y' = y /\ incremental' = incremental
      /\ stage = "key" /\ Capacity \in Nat /\ NLayers \in Nat \ {0}
  BY SequenceAssumption DEF IInv, RowInv
<1>2. StateInv' /\ history' \in [Layers -> [Convs -> [1..3 -> Rows]]]
  BY <1>1, FromNothing DEF IInv
<1>3. Typed'
  BY <1>1, <1>2, EmptySeq DEF IInv, Typed
<1>4. RowInv'
  BY <1>1 DEF RowInv
<1>5. CallInv'
  <2>1. Len(<<>>) = 0 /\ Len(ids') \in Nat
    BY EmptySeq
  <2>2. QED
    BY <1>1, <2>1 DEF CallInv
<1>6. QED
  BY <1>2, <1>3, <1>4, <1>5 DEF IInv

\* A context begins cleared.
LEMMA InitInvariant == Init => IInv
<1> SUFFICES ASSUME Init PROVE IInv
  OBVIOUS
<1>1. NLayers \in Nat \ {0} /\ Capacity \in Nat \ {0}
  BY SequenceAssumption
<1>2. \A l \in Layers, s \in Stages : TextAt(l, s) = <<>>
  BY <1>1 DEF Init, TextAt, Passed, Layers
<1>3. Convs \subseteq Stages /\ "store" \in Stages /\ "key" \in Stages
  BY DEF Convs, Stages
<1>4. ClearedHistory \in [1..3 -> Rows] /\ Zero \in Rows /\ Garbage \in Rows
  BY HistoryOfNothing, HistoryType, EmptySeq DEF Rows
<1>5. Typed
  <2>1. \A l \in Layers : slots[l] \in [0..(RingSize(l) - 1) -> Rows]
    BY <1>4 DEF Init
  <2>2. history \in [Layers -> [Convs -> [1..3 -> Rows]]]
    BY <1>4 DEF Init, ClearedState
  <2>3. QED
    BY <1>1, <1>3, <1>4, <2>1, <2>2, EmptySeq DEF Init, Typed
<1>6. StateInv
  <2>1. \A l \in Layers : RingHolds(slots[l], l, <<>>)
    BY EmptySeq DEF RingHolds
  <2>2. \A l \in Layers, c \in Convs : history[l][c] = HistoryOf(<<>>)
    BY HistoryOfNothing DEF Init, ClearedState
  <2>3. QED
    BY <1>2, <1>3, <2>1, <2>2 DEF StateInv
<1>7. RowInv
  BY <1>1 DEF Init, RowInv
<1>8. CallInv
  BY <1>1, EmptySeq DEF Init, CallInv
<1>9. QED
  BY <1>5, <1>6, <1>7, <1>8 DEF IInv

\* Whatever a caller does between two tokens: it resets, refuses, takes over
\* tokens of the vocabulary that fit, or evaluates a prefix on scratch.
LEMMA CallInvariant == IInv /\ Call => IInv'
<1> SUFFICES ASSUME IInv, Call PROVE IInv'
  OBVIOUS
<1>1. Idle
  BY DEF Call, Reset, PrefillRefused, DecodeRefused, Prefill, Forward, Decode
<1>2. /\ ids = <<>> /\ layer = 0 /\ stage = "key" /\ Capacity \in Nat \ {0}
      /\ <<>> \in Seq(Tokens) /\ Len(<<>>) = 0 /\ NLayers \in Nat \ {0}
  BY <1>1, Flight, EmptySeq, SequenceAssumption DEF Idle
<1>3. ASSUME ResetState, fed' = <<>>, ids' = <<>>, logits' \in Prefixes \cup {Zero},
             UNCHANGED <<incremental, layer, stage, x, y>>
      PROVE  IInv'
  <2>1. CASE incremental
    <3>1. history' = ClearedState /\ slots' = slots /\ position' = 0 /\ valid' = TRUE
      BY <1>3, <2>1 DEF ResetState
    <3>2. QED
      BY <1>2, <1>3, <2>1, <3>1, ClearedInvariant
  <2>2. CASE ~incremental
    <3>1. /\ position' = position /\ valid' = valid /\ slots' = slots /\ history' = history
          /\ ~valid /\ position = 0
      BY <1>3, <2>2 DEF ResetState, sequence, IInv, CallInv
    <3>2. Typed'
      BY <1>2, <1>3, <3>1 DEF IInv, Typed
    <3>3. StateInv' /\ RowInv' /\ CallInv'
      BY <1>2, <1>3, <3>1 DEF StateInv, RowInv, CallInv
    <3>4. QED
      BY <3>2, <3>3 DEF IInv
  <2>3. QED
    BY <2>1, <2>2
<1>4. Zero \in Prefixes \cup {Zero}
  OBVIOUS
<1>5. ASSUME NEW text \in Seq(Ids), ValidPrompt(text)
      PROVE  text \in Prefixes /\ text \in Seq(Tokens) /\ Len(text) <= Capacity
  <2>1. Len(text) \in 1..Capacity /\ text \in [1..Len(text) -> Tokens]
    BY <1>5 DEF ValidPrompt
  <2>2. text \in Seq(Tokens)
    BY <1>2, <2>1
  <2>3. QED
    BY <1>2, <2>1, <2>2 DEF Prefixes
<1>6. CASE Reset
  <2>1. /\ ResetState /\ fed' = <<>> /\ logits' = Zero /\ ids' = <<>>
        /\ UNCHANGED <<incremental, layer, stage, x, y>>
    BY <1>2, <1>6 DEF Reset, progress
  <2>2. QED
    BY <1>3, <2>1
<1>7. CASE PrefillRefused
  <2>1. /\ history' = ClearedState /\ slots' = slots /\ position' = 0 /\ valid' = FALSE
        /\ fed' = <<>> /\ logits' = Zero /\ ids' = <<>>
        /\ UNCHANGED <<incremental, layer, stage, x, y>>
    BY <1>2, <1>7 DEF PrefillRefused, progress
  <2>2. Len(ids') <= Capacity
    BY <1>2, <2>1
  <2>3. valid' \in BOOLEAN /\ ~valid'
    BY <2>1
  <2>4. QED
    BY <1>2, <1>4, <2>1, <2>2, <2>3, ClearedInvariant
<1>8. CASE DecodeRefused
  <2>1. /\ UNCHANGED <<incremental, slots, history, ids, layer, stage, x, y>>
        /\ position' = 0 /\ valid' = FALSE /\ fed' = <<>> /\ logits' = Zero
    BY <1>8 DEF DecodeRefused, progress
  <2>2. Typed'
    BY <1>2, <2>1 DEF IInv, Typed
  <2>3. StateInv' /\ RowInv' /\ CallInv'
    BY <1>2, <2>1 DEF StateInv, RowInv, CallInv
  <2>4. QED
    BY <2>2, <2>3 DEF IInv
<1>9. ASSUME NEW text \in Prompts, Prefill(text) PROVE IInv'
  <2>1. /\ history' = ClearedState /\ slots' = slots /\ position' = 0 /\ valid' = TRUE
        /\ incremental /\ ids' = text /\ fed' = <<>> /\ logits' = Zero
        /\ UNCHANGED <<incremental, layer, stage, x, y>>
    BY <1>9 DEF Prefill, ResetState, progress
  <2>2. text \in Seq(Tokens) /\ Len(text) <= Capacity
    BY <1>5, <1>9, SequenceAssumption DEF Prefill
  <2>3. QED
    BY <1>2, <1>4, <2>1, <2>2, ClearedInvariant
<1>10. ASSUME NEW text \in Prompts, Forward(text) PROVE IInv'
  <2>1. /\ ResetState /\ fed' = <<>> /\ ids' = <<>>
        /\ UNCHANGED <<incremental, layer, stage, x, y>>
        /\ logits' = Zero \/ (ValidPrompt(text) /\ logits' = text)
    BY <1>2, <1>10 DEF Forward, progress
  <2>2. logits' \in Prefixes \cup {Zero}
    BY <1>5, <2>1, SequenceAssumption
  <2>3. QED
    BY <1>3, <2>1, <2>2
<1>11. ASSUME NEW id \in Ids, Decode(id) PROVE IInv'
  <2>1. /\ UNCHANGED <<incremental, position, valid, slots, history, layer, stage, x, y, fed>>
        /\ ids' = <<id>> /\ logits' = Zero
        /\ incremental /\ valid /\ id \in Tokens /\ position < Capacity
    BY <1>11 DEF Decode, CanDecode, sequence, progress
  <2>2. <<id>> \in Seq(Tokens) /\ Len(<<id>>) = 1
    BY <2>1
  <2>3. Typed' /\ CallInv'
    BY <1>2, <2>1, <2>2 DEF IInv, Typed, CallInv
  <2>4. \A l \in Layers, s \in Stages : TextAt(l, s) = fed /\ TextAt(l, s)' = fed
    BY <1>2, <2>1 DEF TextAt, Passed, Layers
  <2>5. Convs \subseteq Stages /\ "store" \in Stages
    BY DEF Convs, Stages
  <2>6. StateInv'
    BY <2>1, <2>4, <2>5 DEF IInv, StateInv
  <2>7. RowInv'
    BY <1>2, <2>1 DEF IInv, RowInv
  <2>8. QED
    BY <2>3, <2>6, <2>7 DEF IInv
<1>12. QED
  BY <1>6, <1>7, <1>8, <1>9, <1>10, <1>11 DEF Call

-------------------------------------------------------------------------------
\* A stage of the token in flight is left: what it changes is of the longer text
\* from now on, and nothing else is.
StageLeft ==
  \A l \in Layers, s \in Stages :
    TextAt(l, s)' = IF l = layer /\ s = stage THEN Append(fed, Head(ids)) ELSE TextAt(l, s)

\* The stages within a layer follow each other in the order of their numbers, and
\* the last one leads to the first stage of the next layer.
LEMMA Leaving ==
  ASSUME IInv, layer \in Layers, UNCHANGED <<ids, fed>>, stage' \in Stages,
         \/ layer' = layer /\ Number(stage') = Number(stage) + 1
         \/ layer' = layer + 1 /\ stage = "mlp" /\ stage' = "key"
  PROVE  StageLeft /\ TextAt(layer, stage) = fed
<1>1. layer \in Nat /\ stage \in Stages /\ NLayers \in Nat
  BY SequenceAssumption DEF IInv, Typed, Layers
<1>2. \A s \in Stages : Number(s) \in 1..6
  BY DEF Stages, Number
<1>3. \A s, t \in Stages : Number(s) = Number(t) => s = t
  BY DEF Stages, Number
<1>4. TextAt(layer, stage) = fed
  BY <1>1, <1>2 DEF TextAt, Passed
<1>5. ASSUME NEW l \in Layers, NEW s \in Stages
      PROVE  Passed(l, s)' <=> Passed(l, s) \/ (l = layer /\ s = stage)
  <2>1. l \in Nat
    BY <1>1 DEF Layers
  <2>2. CASE layer' = layer /\ Number(stage') = Number(stage) + 1
    BY <1>1, <1>2, <1>3, <2>1, <2>2 DEF Passed
  <2>3. CASE layer' = layer + 1 /\ stage = "mlp" /\ stage' = "key"
    <3>1. Number(stage) = 6 /\ Number(stage') = 1
      BY <2>3 DEF Number
    <3>2. QED
      BY <1>1, <1>2, <1>3, <2>1, <2>3, <3>1 DEF Passed
  <2>4. QED
    BY <2>2, <2>3
<1>6. StageLeft
  BY <1>5 DEF StageLeft, TextAt
<1>7. QED
  BY <1>4, <1>6

\* What a step in a layer leaves alone, whatever else it does.
LEMMA LayerFrame ==
  ASSUME IInv, layer \in Layers, UNCHANGED <<incremental, position, valid, ids, logits, fed>>,
         layer' \in 1..(NLayers + 1), stage' \in Stages, x' = x,
         layer' = NLayers + 1 => stage' = "key", stage' # "key" => y' = x, y' \in Rows,
         history' \in [Layers -> [Convs -> [1..3 -> Rows]]], DOMAIN slots' = Layers,
         \A l \in Layers : slots'[l] \in [0..(RingSize(l) - 1) -> Rows]
  PROVE  Typed' /\ RowInv' /\ CallInv'
<1>1. NLayers \in Nat /\ layer > 0 /\ layer \in Nat
  BY SequenceAssumption DEF Layers
<1>2. Typed'
  BY <1>1 DEF IInv, Typed
<1>3. RowInv'
  BY <1>1 DEF IInv, RowInv
<1>4. CallInv'
  BY DEF IInv, CallInv
<1>5. QED
  BY <1>2, <1>3, <1>4

\* A convolution on the row of the longer text: its history moves on, and its
\* output is that row again.
LEMMA Conv ==
  ASSUME IInv, layer \in Layers, stage \in Convs, NEW row, row = Append(fed, Head(ids)),
         ThroughConv(stage, row), StageLeft, TextAt(layer, stage) = fed
  PROVE  /\ Convolve(history[layer][stage], row) = row
         /\ StateInv' /\ history' \in [Layers -> [Convs -> [1..3 -> Rows]]]
         /\ UNCHANGED <<incremental, position, valid, slots, ids, logits, fed>>
<1>1. ids # <<>> /\ valid /\ Head(ids) \in Tokens /\ fed \in Seq(Tokens)
  <2>1. layer > 0
    BY SequenceAssumption DEF Layers
  <2>2. QED
    BY <2>1, Flight DEF IInv, RowInv, Typed
<1>2. history[layer][stage] = HistoryOf(fed)
  BY <1>1 DEF IInv, StateInv
<1>3. Convolve(history[layer][stage], row) = row
  BY <1>1, <1>2, ConvolveRight
<1>4. /\ UNCHANGED <<incremental, position, valid, slots, ids, logits, fed>>
      /\ history' = [history EXCEPT ![layer][stage] = Shift(history[layer][stage], row)]
  BY DEF ThroughConv
<1>5. Shift(history[layer][stage], row) = HistoryOf(row)
  BY <1>1, <1>2, ShiftMovesOn
<1>6. history \in [Layers -> [Convs -> [1..3 -> Rows]]]
  BY DEF IInv, Typed
<1>7. HistoryOf(row) \in [1..3 -> Rows]
  BY <1>1, Longer, HistoryType
<1>8. history' \in [Layers -> [Convs -> [1..3 -> Rows]]]
  BY <1>4, <1>5, <1>6, <1>7
<1>9. \A l \in Layers, c \in Convs :
        history'[l][c] = IF l = layer /\ c = stage THEN HistoryOf(row) ELSE history[l][c]
  BY <1>4, <1>5, <1>6
<1>10. StateInv'
  <2>1. Convs \subseteq Stages /\ "store" \in Stages \ Convs
    BY DEF Convs, Stages
  <2>2. ASSUME NEW l \in Layers PROVE RingHolds(slots'[l], l, TextAt(l, "store")')
    <3>1. TextAt(l, "store")' = TextAt(l, "store")
      BY <2>1 DEF StageLeft
    <3>2. RingHolds(slots[l], l, TextAt(l, "store"))
      BY <1>1 DEF IInv, StateInv
    <3>3. QED
      BY <1>4, <3>1, <3>2
  <2>3. ASSUME NEW l \in Layers, NEW c \in Convs
        PROVE  history'[l][c] = HistoryOf(TextAt(l, c)')
    <3>1. TextAt(l, c)' = IF l = layer /\ c = stage THEN row ELSE TextAt(l, c)
      BY <2>1 DEF StageLeft
    <3>2. history[l][c] = HistoryOf(TextAt(l, c))
      BY <1>1 DEF IInv, StateInv
    <3>3. QED
      BY <1>9, <3>1, <3>2
  <2>4. QED
    BY <2>2, <2>3 DEF StateInv
<1>11. QED
  BY <1>3, <1>4, <1>8, <1>10

\* A row that is stored takes the slot of a position that is a ring or more behind,
\* so the others keep theirs.
LEMMA RingMovesOn ==
  ASSUME NEW l \in Layers, NEW text \in Seq(Tokens), NEW id \in Tokens, NEW ring,
         DOMAIN ring = 0..(RingSize(l) - 1), RingHolds(ring, l, text)
  PROVE  RingHolds([ring EXCEPT ![Slot(l, Len(text))] = Append(text, id)], l, Append(text, id))
<1> DEFINE u == Append(text, id)
           new == [ring EXCEPT ![Slot(l, Len(text))] = u]
           r == RingSize(l)
<1>1. r \in Nat \ {0} /\ Len(text) \in Nat /\ Len(u) = Len(text) + 1
      /\ SubSeq(u, 1, Len(text) + 1) = u
  BY RingSizes, Longer
<1>2. ASSUME NEW s \in Nat PROVE Slot(l, s) \in 0..(r - 1)
  BY <1>1 DEF Slot
<1>3. ASSUME NEW s \in 0..(Len(u) - 1), Len(u) - s <= r
      PROVE  new[Slot(l, s)] = SubSeq(u, 1, s + 1)
  <2>1. CASE s = Len(text)
    BY <1>1, <1>2, <2>1
  <2>2. CASE s < Len(text)
    <3>1. s \in Nat /\ s \in 0..(Len(text) - 1) /\ Len(text) - s < r
      BY <1>1, <1>3, <2>2
    <3>2. Slot(l, s) # Slot(l, Len(text))
      BY <1>1, <2>2, <3>1, SlotsDiffer DEF Slot
    <3>3. new[Slot(l, s)] = ring[Slot(l, s)]
      BY <1>1, <1>2, <3>1, <3>2
    <3>4. ring[Slot(l, s)] = SubSeq(text, 1, s + 1)
      BY <1>1, <3>1 DEF RingHolds
    <3>5. SubSeq(u, 1, s + 1) = SubSeq(text, 1, s + 1)
      BY <1>1, <3>1, Longer
    <3>6. QED
      BY <3>3, <3>4, <3>5
  <2>3. QED
    BY <1>1, <1>3, <2>1, <2>2
<1>4. QED
  BY <1>3 DEF RingHolds

-------------------------------------------------------------------------------
\* A token enters the first layer as the text with it.
LEMMA EmbedInvariant == ASSUME IInv, Embed PROVE IInv'
<1>1. /\ ids # <<>> /\ layer = 0 /\ x' = Append(fed, Head(ids)) /\ layer' = 1 /\ stage' = "key"
      /\ UNCHANGED <<incremental, position, valid, slots, history, ids, y, logits, fed>>
  BY DEF Embed, sequence
<1>2. Head(ids) \in Tokens /\ fed \in Seq(Tokens) /\ NLayers \in Nat \ {0}
  BY <1>1, Flight DEF IInv, Typed
<1>3. x' \in Rows /\ "key" \in Stages
  BY <1>1, <1>2, Longer DEF Rows, Stages
<1>4. Typed' /\ CallInv'
  BY <1>1, <1>2, <1>3 DEF IInv, Typed, CallInv
<1>5. RowInv'
  BY <1>1, <1>2 DEF RowInv
<1>6. StateInv'
  <2>1. Convs \subseteq Stages /\ "store" \in Stages
    BY DEF Convs, Stages
  <2>2. \A s \in Stages : Number(s) >= 1 /\ Number("key") = 1 /\ Number(s) \in Nat
    BY DEF Stages, Number
  <2>3. \A l \in Layers, s \in Stages : ~Passed(l, s) /\ ~Passed(l, s)'
    BY <1>1, <1>2, <2>2 DEF Passed, Layers
  <2>4. \A l \in Layers, s \in Stages : TextAt(l, s)' = TextAt(l, s)
    BY <1>1, <2>3 DEF TextAt
  <2>5. QED
    BY <1>1, <2>1, <2>4 DEF IInv, StateInv
<1>7. QED
  BY <1>4, <1>5, <1>6 DEF IInv

\* What the stages in a layer work on: the row of the text with the token.
LEMMA InLayer ==
  ASSUME IInv, layer \in Layers
  PROVE  /\ valid /\ ids # <<>> /\ x = Append(fed, Head(ids)) /\ x \in Prefixes
         /\ Head(ids) \in Tokens /\ fed \in Seq(Tokens)
         /\ position = Len(fed) /\ position < Capacity /\ Len(x) = position + 1
         /\ layer \in 1..(NLayers + 1) /\ layer # NLayers + 1
         /\ layer + 1 \in 1..(NLayers + 1) /\ Len(fed) \in Nat
<1>1. layer > 0 /\ layer \in 1..NLayers /\ NLayers \in Nat \ {0}
  BY SequenceAssumption DEF Layers
<1>2. ids # <<>> /\ x = Append(fed, Head(ids)) /\ fed \in Seq(Tokens)
  BY <1>1 DEF IInv, RowInv, Typed
<1>3. valid /\ Head(ids) \in Tokens /\ position = Len(fed) /\ position < Capacity /\ Len(fed) \in Nat
  BY <1>2, Flight
<1>4. x \in Prefixes /\ Len(x) = position + 1
  BY <1>2, <1>3, Longer
<1>5. QED
  BY <1>1, <1>2, <1>3, <1>4

\* The four convolutions: each is of the text without the token, and then of the
\* text with it.
LEMMA ConvInvariant ==
  ASSUME IInv, ConvKey \/ ConvValue \/ ConvAttn \/ ConvMlp
  PROVE  IInv'
<1>1. layer \in Layers /\ stage \in Convs /\ stage \in Stages
  BY DEF ConvKey, ConvValue, ConvAttn, ConvMlp, At, Convs, Stages
<1>2. /\ valid /\ ids # <<>> /\ x = Append(fed, Head(ids)) /\ x \in Rows /\ x \in Prefixes
      /\ layer \in 1..(NLayers + 1) /\ layer # NLayers + 1 /\ layer + 1 \in 1..(NLayers + 1)
  BY <1>1, InLayer DEF Rows
<1>3. stage # "key" => y = x
  BY DEF IInv, RowInv
<1>4. "key" \in Stages /\ "value" \in Stages /\ "store" \in Stages /\ "mlp" \in Stages
      /\ Zero \in Rows
  BY DEF Stages, Rows
<1>5. ThroughConv(stage, x)
  BY <1>3 DEF ConvKey, ConvValue, ConvAttn, ConvMlp, At
<1>6. /\ stage' \in Stages
      /\ \/ layer' = layer /\ Number(stage') = Number(stage) + 1
         \/ layer' = layer + 1 /\ stage = "mlp" /\ stage' = "key"
  BY <1>4 DEF ConvKey, ConvValue, ConvAttn, ConvMlp, At, Number
<1>7. UNCHANGED <<ids, fed>>
  BY <1>5 DEF ThroughConv
<1>8. StageLeft /\ TextAt(layer, stage) = fed
  BY <1>1, <1>6, <1>7, Leaving
<1>9. /\ Convolve(history[layer][stage], x) = x /\ StateInv'
      /\ history' \in [Layers -> [Convs -> [1..3 -> Rows]]]
      /\ UNCHANGED <<incremental, position, valid, slots, ids, logits, fed>>
  BY <1>1, <1>2, <1>5, <1>8, Conv
<1>10. x' = x /\ (stage' # "key" => y' = x) /\ y' \in Rows
  <2>1. CASE ConvKey
    BY <1>2, <1>9, <2>1 DEF ConvKey, At
  <2>2. CASE ConvValue
    BY <1>2, <1>3, <1>9, <2>2 DEF ConvValue, At
  <2>3. CASE ConvAttn
    BY <1>2, <1>3, <1>9, <2>3 DEF ConvAttn, At
  <2>4. CASE ConvMlp
    BY <1>2, <1>3, <1>4, <1>9, <2>4 DEF ConvMlp, At
  <2>5. QED
    BY <2>1, <2>2, <2>3, <2>4
<1>11. layer' \in 1..(NLayers + 1) /\ (layer' = NLayers + 1 => stage' = "key")
  BY <1>2, <1>6
<1>12. DOMAIN slots' = Layers /\ \A l \in Layers : slots'[l] \in [0..(RingSize(l) - 1) -> Rows]
  BY <1>9 DEF IInv, Typed
<1>13. Typed' /\ RowInv' /\ CallInv'
  BY <1>1, <1>6, <1>9, <1>10, <1>11, <1>12, LayerFrame
<1>14. QED
  BY <1>9, <1>13 DEF IInv

\* The row of the token takes its slot.
LEMMA StoreInvariant == ASSUME IInv, Store PROVE IInv'
<1>1. /\ layer \in Layers /\ stage = "store" /\ stage' = "attend"
      /\ slots' = [slots EXCEPT ![layer][Slot(layer, position)] = y]
      /\ UNCHANGED <<incremental, position, valid, history, ids, layer, x, y, logits, fed>>
  BY DEF Store, At
<1>2. /\ valid /\ ids # <<>> /\ x = Append(fed, Head(ids)) /\ x \in Rows
      /\ Head(ids) \in Tokens /\ fed \in Seq(Tokens) /\ position = Len(fed)
      /\ layer \in 1..(NLayers + 1) /\ layer # NLayers + 1
  BY <1>1, InLayer DEF Rows
<1>3. y = x
  BY <1>1 DEF IInv, RowInv
<1>4. StageLeft /\ TextAt(layer, stage) = fed
  BY <1>1, Leaving DEF Number, Stages
<1>5. DOMAIN slots = Layers /\ \A l \in Layers : slots[l] \in [0..(RingSize(l) - 1) -> Rows]
  BY DEF IInv, Typed
<1> DEFINE new == [slots[layer] EXCEPT ![Slot(layer, Len(fed))] = x]
<1>6. /\ DOMAIN slots' = Layers /\ slots'[layer] = new
      /\ \A l \in Layers \ {layer} : slots'[l] = slots[l]
  BY <1>1, <1>2, <1>3, <1>5
<1>7. \A l \in Layers : slots'[l] \in [0..(RingSize(l) - 1) -> Rows]
  BY <1>1, <1>2, <1>5, <1>6
<1> HIDE DEF new
<1>8. Typed' /\ RowInv' /\ CallInv'
  <2>1. "attend" \in Stages /\ history \in [Layers -> [Convs -> [1..3 -> Rows]]]
    BY DEF Stages, IInv, Typed
  <2>2. QED
    BY <1>1, <1>2, <1>3, <1>6, <1>7, <2>1, LayerFrame
<1>9. StateInv'
  <2>1. Convs \subseteq Stages /\ "store" \in Stages \ Convs
    BY DEF Convs, Stages
  <2>2. \A l \in Layers : RingHolds(slots[l], l, TextAt(l, "store"))
    BY <1>2 DEF IInv, StateInv
  <2>3. RingHolds(new, layer, x)
    BY <1>1, <1>2, <1>4, <1>5, <2>2, RingMovesOn DEF new
  <2>4. ASSUME NEW l \in Layers PROVE RingHolds(slots'[l], l, TextAt(l, "store")')
    <3>1. TextAt(l, "store")' = IF l = layer THEN x ELSE TextAt(l, "store")
      BY <1>1, <1>2, <1>4, <2>1 DEF StageLeft
    <3>2. CASE l = layer
      BY <1>6, <2>3, <3>1, <3>2
    <3>3. CASE l # layer
      BY <1>6, <2>2, <3>1, <3>3
    <3>4. QED
      BY <3>2, <3>3
  <2>5. ASSUME NEW l \in Layers, NEW c \in Convs PROVE history'[l][c] = HistoryOf(TextAt(l, c)')
    <3>1. TextAt(l, c)' = TextAt(l, c)
      BY <1>1, <1>4, <2>1 DEF StageLeft
    <3>2. QED
      BY <1>1, <1>2, <3>1 DEF IInv, StateInv
  <2>6. QED
    BY <2>4, <2>5 DEF StateInv
<1>10. QED
  BY <1>8, <1>9 DEF IInv

\* Attention reads the positions of the mask, and each of them is where it looks.
LEMMA AttentionRight ==
  ASSUME IInv, layer \in Layers, stage = "attend"
  PROVE  Attention(layer, x) = x
<1>1. /\ valid /\ x = Append(fed, Head(ids)) /\ x \in Prefixes
      /\ position = Len(fed) /\ position < Capacity /\ Len(x) = position + 1 /\ position \in Nat
  BY InLayer
<1>2. RingWindow(layer, position) = MaskWindow(layer, Len(x) - 1)
  BY <1>1, WindowIsMask
<1>3. TextAt(layer, "store") = x
  <2>1. Passed(layer, "store")
    BY DEF Passed, Number
  <2>2. QED
    BY <1>1, <2>1 DEF TextAt
<1>4. RingHolds(slots[layer], layer, x)
  BY <1>1, <1>3 DEF IInv, StateInv
<1>5. ASSUME NEW s \in RingWindow(layer, position)
      PROVE  slots[layer][Slot(layer, s)] = SubSeq(x, 1, s + 1)
  <2>1. RingSize(layer) \in Nat \ {0}
    BY RingSizes
  <2>2. s \in 0..(Len(x) - 1) /\ Len(x) - s <= RingSize(layer)
    BY <1>1, <2>1 DEF RingWindow, RingStart
  <2>3. QED
    BY <1>4, <2>2 DEF RingHolds
<1>6. QED
  BY <1>1, <1>2, <1>5 DEF Attention

\* Attention reads what the ring holds of the text, and gives the row of the whole text.
LEMMA AttendInvariant == ASSUME IInv, Attend PROVE IInv'
<1>1. /\ layer \in Layers /\ stage = "attend" /\ stage' = "attn" /\ y' = Attention(layer, x)
      /\ UNCHANGED <<incremental, position, valid, slots, history, ids, layer, x, logits, fed>>
  BY DEF Attend, At, sequence
<1>2. y' = x /\ x \in Rows /\ layer \in 1..(NLayers + 1) /\ layer # NLayers + 1 /\ valid
  BY <1>1, AttentionRight, InLayer DEF Rows
<1>3. StageLeft
  BY <1>1, Leaving DEF Number, Stages
<1>4. Typed' /\ RowInv' /\ CallInv'
  <2>1. /\ "attn" \in Stages /\ history \in [Layers -> [Convs -> [1..3 -> Rows]]]
        /\ DOMAIN slots = Layers /\ \A l \in Layers : slots[l] \in [0..(RingSize(l) - 1) -> Rows]
    BY DEF Stages, IInv, Typed
  <2>2. QED
    BY <1>1, <1>2, <2>1, LayerFrame
<1>5. StateInv'
  <2>1. Convs \subseteq Stages \ {"attend"} /\ "store" \in Stages \ {"attend"}
    BY DEF Convs, Stages
  <2>2. \A l \in Layers, s \in Stages \ {"attend"} : TextAt(l, s)' = TextAt(l, s)
    BY <1>1, <1>3 DEF StageLeft
  <2>3. QED
    BY <1>1, <1>2, <2>1, <2>2 DEF IInv, StateInv
<1>6. QED
  BY <1>4, <1>5 DEF IInv

\* The token is part of the text that everything is of by then.
LEMMA CommitInvariant == ASSUME IInv, Commit PROVE IInv'
<1>1. /\ layer = NLayers + 1 /\ layer' = 0 /\ stage' = "key" /\ x' = Zero /\ y' = Zero
      /\ logits' = (IF Len(ids) = 1 THEN x ELSE Zero)
      /\ position' = position + 1 /\ ids' = Tail(ids) /\ fed' = Append(fed, Head(ids))
      /\ UNCHANGED <<incremental, valid, slots, history>>
  BY DEF Commit, NoToken
<1>2. ids # <<>> /\ x = Append(fed, Head(ids)) /\ NLayers \in Nat \ {0}
  BY <1>1, SequenceAssumption DEF IInv, RowInv
<1>3. /\ valid /\ incremental /\ position = Len(fed) /\ Head(ids) \in Tokens
      /\ Tail(ids) \in Seq(Tokens) /\ Len(Tail(ids)) = Len(ids) - 1 /\ fed \in Seq(Tokens)
      /\ Len(ids) \in Nat /\ Len(fed) \in Nat /\ Capacity \in Nat
  BY <1>2, Flight DEF IInv, Typed
<1>4. x \in Prefixes /\ fed' \in Seq(Tokens) /\ Len(fed') = Len(fed) + 1
  BY <1>1, <1>2, <1>3, Longer
<1>5. Typed'
  <2>1. "key" \in Stages /\ Zero \in Rows
    BY DEF Stages, Rows
  <2>2. QED
    BY <1>1, <1>2, <1>3, <1>4, <2>1 DEF IInv, Typed
<1>6. CallInv'
  BY <1>1, <1>3, <1>4 DEF IInv, CallInv
<1>7. RowInv'
  BY <1>1, <1>2 DEF RowInv
<1>8. StateInv'
  <2>1. \A l \in Layers, s \in Stages : TextAt(l, s) = fed' /\ TextAt(l, s)' = fed'
    <3>1. \A l \in Layers, s \in Stages : Passed(l, s) /\ ~Passed(l, s)'
      BY <1>1, <1>2 DEF Passed, Layers
    <3>2. QED
      BY <1>1, <3>1 DEF TextAt
  <2>2. Convs \subseteq Stages /\ "store" \in Stages
    BY DEF Convs, Stages
  <2>3. ASSUME NEW l \in Layers PROVE RingHolds(slots[l], l, fed')
    BY <1>3, <2>1, <2>2 DEF IInv, StateInv
  <2>4. ASSUME NEW l \in Layers, NEW c \in Convs PROVE history[l][c] = HistoryOf(fed')
    BY <1>3, <2>1, <2>2 DEF IInv, StateInv
  <2>5. QED
    BY <1>1, <2>1, <2>2, <2>3, <2>4 DEF StateInv
<1>9. QED
  BY <1>5, <1>6, <1>7, <1>8 DEF IInv

\* A failure may leave a torn history, in a sequence that is no longer valid.
LEMMA FailInvariant == ASSUME IInv, Fail PROVE IInv'
<1>1. /\ ids # <<>> /\ position' = 0 /\ valid' = FALSE /\ ids' = <<>> /\ fed' = <<>> /\ logits' = Zero
      /\ layer' = 0 /\ stage' = "key" /\ x' = Zero /\ y' = Zero
      /\ UNCHANGED <<incremental, slots>>
      /\ \/ history' = history
         \/ layer \in Layers /\ stage \in Convs
            /\ history' = [history EXCEPT ![layer][stage] = TornHistory]
  BY DEF Fail, NoToken
<1>2. history' \in [Layers -> [Convs -> [1..3 -> Rows]]]
  <2>1. TornHistory \in [1..3 -> Rows]
    BY DEF TornHistory, Rows
  <2>2. history \in [Layers -> [Convs -> [1..3 -> Rows]]]
    BY DEF IInv, Typed
  <2>3. CASE history' = history
    BY <2>2, <2>3
  <2>4. CASE /\ layer \in Layers /\ stage \in Convs
             /\ history' = [history EXCEPT ![layer][stage] = TornHistory]
    BY <2>1, <2>2, <2>4
  <2>5. QED
    BY <1>1, <2>3, <2>4
<1>3. Zero \in Rows /\ "key" \in Stages /\ NLayers \in Nat \ {0} /\ Capacity \in Nat
  BY SequenceAssumption DEF Rows, Stages
<1>4. Typed'
  <2>1. valid' \in BOOLEAN
    BY <1>1
  <2>2. QED
    BY <1>1, <1>2, <1>3, <2>1, EmptySeq DEF IInv, Typed
<1>5. StateInv' /\ RowInv' /\ CallInv'
  BY <1>1, <1>3, EmptySeq DEF StateInv, RowInv, CallInv
<1>6. QED
  BY <1>4, <1>5 DEF IInv

\* IInv is inductive.
THEOREM Invariance == Spec => []IInv
<1>1. Init => IInv
  BY InitInvariant
<1>2. IInv /\ [Next]_vars => IInv'
  <2> SUFFICES ASSUME IInv, [Next]_vars PROVE IInv'
    OBVIOUS
  <2>1. CASE Call
    BY <2>1, CallInvariant
  <2>2. CASE Token
    BY <2>2, EmbedInvariant, ConvInvariant, StoreInvariant, AttendInvariant, CommitInvariant,
       FailInvariant DEF Token
  <2>3. CASE UNCHANGED vars
    <3>1. UNCHANGED <<incremental, position, valid, slots, history, ids, layer, stage, x, y, logits, fed>>
      BY <2>3 DEF vars, sequence, progress
    <3>2. QED
      BY <3>1 DEF IInv, Typed, StateInv, TextAt, Passed, RowInv, CallInv
  <2>4. QED
    BY <2>1, <2>2, <2>3 DEF Next
<1>3. QED
  BY <1>1, <1>2, PTL DEF Spec

\* inkling_context_position tells the truth: it counts the tokens consumed since
\* the last reset or failure, and what a call has taken over fits in the context.
THEOREM HonestPosition == Spec => []PositionHonest
<1>1. IInv => PositionHonest
  <2> SUFFICES ASSUME IInv PROVE PositionHonest
    OBVIOUS
  <2>1. fed = <<>> => Len(fed) = 0
    BY EmptySeq
  <2>2. QED
    BY <2>1 DEF IInv, CallInv, Typed, PositionHonest
<1>2. QED
  BY <1>1, Invariance, PTL

\* Between two tokens of a valid sequence every ring and every history is of the
\* text fed to it, whatever the same memory held before.
THEOREM StateOfTextAlone == Spec => []StateIsOfText
<1>1. IInv => StateIsOfText
  <2> SUFFICES ASSUME IInv, layer = 0, valid, NEW l \in Layers
               PROVE  /\ \A s \in 0..(position - 1) : position - s <= RingSize(l)
                           => slots[l][Slot(l, s)] = SubSeq(fed, 1, s + 1)
                      /\ \A c \in Convs : history[l][c] = HistoryOf(fed)
    BY DEF StateIsOfText
  <2>1. \A s \in Stages : TextAt(l, s) = fed
    BY SequenceAssumption DEF TextAt, Passed, Layers
  <2>2. Convs \subseteq Stages /\ "store" \in Stages /\ position = Len(fed)
    BY DEF Convs, Stages, IInv, CallInv
  <2>3. QED
    BY <2>1, <2>2 DEF IInv, StateInv, RingHolds
<1>2. QED
  BY <1>1, Invariance, PTL

-------------------------------------------------------------------------------
\* Every call and every token is one step of Continuation, or none.
Remembered == IF incremental /\ ~valid THEN Garbage ELSE fed

\* A call that begins resets the abstract context, breaks it, asks it or recomputes a prefix.
LEMMA CallImplements ==
  ASSUME IInv, Call
  PROVE  Context!Restart \/ Context!Ask \/ Context!Break
         \/ \E prefix \in Context!Texts : Context!Recompute(prefix)
<1> USE DEF Context!Restart, Context!Ask, Context!Break, Context!Recompute
<1>1. ASSUME ResetState, fed' = <<>>, incremental' = incremental
      PROVE  Remembered' = <<>>
  <2>1. CASE incremental
    BY <1>1, <2>1 DEF ResetState, Remembered
  <2>2. CASE ~incremental
    BY <1>1, <2>2 DEF Remembered
  <2>3. QED
    BY <2>1, <2>2
<1>2. CASE Reset
  <2>1. Remembered' = <<>> /\ logits' = Zero
    BY <1>1, <1>2 DEF Reset
  <2>2. Context!Restart
    BY <2>1 DEF Remembered
  <2>3. QED
    BY <2>2
<1>3. CASE PrefillRefused
  BY <1>3 DEF PrefillRefused
<1>4. CASE DecodeRefused
  BY <1>4 DEF DecodeRefused
<1>5. ASSUME NEW text \in Prompts, Prefill(text) PROVE Context!Restart
  <2>1. Remembered' = <<>> /\ logits' = Zero
    BY <1>1, <1>5 DEF Prefill
  <2>2. QED
    BY <2>1 DEF Remembered
<1>6. ASSUME NEW text \in Prompts, Forward(text)
      PROVE  Context!Restart \/ \E prefix \in Context!Texts : Context!Recompute(prefix)
  <2>1. Remembered' = <<>> /\ (logits' = Zero \/ (ValidPrompt(text) /\ logits' = text))
    BY <1>1, <1>6 DEF Forward
  <2>2. CASE logits' = Zero
    BY <2>1, <2>2 DEF Remembered
  <2>3. CASE ValidPrompt(text) /\ logits' = text
    <3>1. text \in Seq(Ids)
      BY SequenceAssumption
    <3>2. Len(text) \in 1..Capacity /\ text \in [1..Len(text) -> Tokens]
      BY <2>3, <3>1 DEF ValidPrompt
    <3>3. text \in Context!Texts
      BY <3>2 DEF Context!Texts
    <3>4. Context!Recompute(text)
      BY <2>1, <2>3 DEF Remembered
    <3>5. QED
      BY <3>3, <3>4
  <2>4. QED
    BY <2>1, <2>2, <2>3
<1>7. ASSUME NEW id \in Ids, Decode(id) PROVE Context!Ask
  BY <1>7 DEF Decode, CanDecode, sequence
<1>8. QED
  BY <1>2, <1>3, <1>4, <1>5, <1>6, <1>7 DEF Call

\* Only the commit of a token and a failure are seen by the caller.
LEMMA TokenImplements ==
  ASSUME IInv, Token
  PROVE  \/ Context!Break
         \/ \E id \in Tokens : Context!Consume(id)
         \/ Remembered' = Remembered /\ logits' = logits
<1>1. CASE Fail
  <2>1. incremental
    BY <1>1, Flight DEF Fail
  <2>2. QED
    BY <1>1, <2>1 DEF Fail, Context!Break
<1>2. CASE Commit
  <2>1. /\ layer = NLayers + 1 /\ NLayers \in Nat
        /\ logits' = (IF Len(ids) = 1 THEN x ELSE Zero)
        /\ fed' = Append(fed, Head(ids)) /\ UNCHANGED <<incremental, valid>>
    BY <1>2, SequenceAssumption DEF Commit
  <2>2. ids # <<>> /\ x = Append(fed, Head(ids))
    BY <2>1 DEF IInv, RowInv
  <2>3. valid /\ position = Len(fed) /\ position < Capacity /\ Head(ids) \in Tokens
    BY <2>2, Flight
  <2>4. Remembered = fed /\ Remembered' = fed' /\ fed # Garbage
    BY <2>1, <2>3, SequenceAssumption DEF Remembered, IInv, Typed
  <2>5. Context!Consume(Head(ids))
    BY <2>1, <2>2, <2>3, <2>4 DEF Context!Consume, Remembered
  <2>6. QED
    BY <2>3, <2>5
<1>3. CASE Embed \/ ConvKey \/ ConvValue \/ Store \/ Attend \/ ConvAttn \/ ConvMlp
  <2>1. UNCHANGED <<incremental, valid, fed, logits>>
    BY <1>3 DEF Embed, ConvKey, ConvValue, Store, Attend, ConvAttn, ConvMlp, ThroughConv, sequence
  <2>2. QED
    BY <2>1 DEF Remembered
<1>4. QED
  BY <1>1, <1>2, <1>3 DEF Token

\* The context implements Continuation, for every model and every mix of calls.
THEOREM Implementation == Spec => ImplementsContinuation
<1>1. Init => Context!Init
  BY DEF Init, Context!Init
<1>2. IInv /\ [Next]_vars => [Context!Next]_<<Remembered, logits>>
  <2> SUFFICES ASSUME IInv, [Next]_vars
               PROVE  Context!Next \/ (Remembered' = Remembered /\ logits' = logits)
    OBVIOUS
  <2>1. CASE Call
    BY <2>1, CallImplements DEF Context!Next
  <2>2. CASE Token
    BY <2>2, TokenImplements DEF Context!Next
  <2>3. CASE UNCHANGED vars
    BY <2>3 DEF vars, sequence, Remembered
  <2>4. QED
    BY <2>1, <2>2, <2>3 DEF Next
<1>3. QED
  BY <1>1, <1>2, Invariance, PTL DEF Spec, ImplementsContinuation, Context!Spec, Remembered
===============================================================================
