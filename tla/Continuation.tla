----------------------------- MODULE Continuation -----------------------------
(***************************************************************************)
(* What an inference context promises its callers                          *)
(* (include/inkling/inkling_model.h, docs/MEMORY.md "Incremental           *)
(* contexts"): it remembers one text or admits that it does not, a token   *)
(* extends a text it remembers, and every logits row it returns is the row *)
(* of a whole text, the remembered one or the one the caller passed.       *)
(***************************************************************************)
EXTENDS Integers, Sequences

CONSTANTS
  Tokens,    (* the vocabulary                                             *)
  Capacity,  (* the most tokens a context can hold                         *)
  Broken,    (* no text: continuation is refused                           *)
  NoAnswer   (* no logits row                                              *)

VARIABLES
  text,      (* the text a decoded token would extend, or Broken           *)
  answer     (* the text whose logits the last call returned, or NoAnswer  *)

Texts == UNION {[1..n -> Tokens] : n \in 1..Capacity}

\* A reset, also the first thing a prefill and a complete-prefix call do.
Restart == text' = <<>> /\ answer' = NoAnswer

\* Another call takes over the caller's row.
Ask == answer' = NoAnswer /\ UNCHANGED text

\* One token is consumed; if it is the last of its call the row is returned.
Consume(id) ==
  /\ text # Broken /\ Len(text) < Capacity
  /\ text' = Append(text, id)
  /\ answer' \in {NoAnswer, text'}

\* A complete prefix is evaluated from nothing and nothing is remembered.
Recompute(prefix) == text' = <<>> /\ answer' = prefix

\* A failed incremental call.
Break == text' = Broken /\ answer' = NoAnswer

Init == text = <<>> /\ answer = NoAnswer

Next ==
  \/ Restart \/ Ask \/ Break
  \/ \E id \in Tokens : Consume(id)
  \/ \E prefix \in Texts : Recompute(prefix)

Spec == Init /\ [][Next]_<<text, answer>>
===============================================================================
