------------------------------- MODULE Sampler --------------------------------
(***************************************************************************)
(* inkling_generate_options() and inkling_sample()                         *)
(* (src/model/inkling_generate.c): greedy choice, or ranking, top-k,       *)
(* nucleus and one draw from the masses that are left.                     *)
(*                                                                         *)
(* A row of logits is a sequence of integers, the logit of token k at      *)
(* k + 1; masses are integers and exact, so what rounding does to a sum is *)
(* left out.  top_p is a number of parts of Whole.                         *)
(***************************************************************************)
EXTENDS Integers, Sequences, FiniteSets, FiniteSetsExt

CONSTANTS
  Mass(_, _),  (* of a gap to the best logit and a temperature; may be 0   *)
  Whole,       (* top_p = 1                                                *)
  Words        (* how many values the draw has: 2^53                       *)

ASSUME SamplerAssumption == Whole \in Nat \ {0} /\ Words \in Nat \ {0}

ValidOptions(options) ==
  /\ options.temperature >= 0 /\ options.top_k >= 0
  /\ options.top_p > 0 /\ options.top_p <= Whole

\* inkling_generate_options(), of options that are valid.
Effective(options, width) ==
  IF options.temperature = 0 THEN [options EXCEPT !.top_k = 1, !.top_p = Whole]
  ELSE [options EXCEPT !.top_k = IF @ = 0 \/ @ > width THEN width ELSE @]

\* rank_candidate(): the higher logit first, of equal logits the first position.
Better(logits, j, k) == logits[j] > logits[k] \/ (logits[j] = logits[k] /\ j < k)

\* The positions as qsort leaves them: no two compare equal, so there is one order.
Ranked(logits) ==
  CHOOSE order \in [DOMAIN logits -> DOMAIN logits] :
    \A i, j \in DOMAIN logits : i < j => Better(logits, order[i], order[j])

\* What the gaps of a row weigh: nothing less than 0, and more than that without a gap.
Weighable(logits, temperature) ==
  \A j, k \in DOMAIN logits : logits[j] >= logits[k] =>
    LET mass == Mass(logits[j] - logits[k], temperature)
    IN mass \in Nat /\ (logits[j] = logits[k] => mass > 0)

Weight(masses, chosen) == MapThenSumSet(LAMBDA i : masses[i], chosen)
Upto(masses, n) == Weight(masses, 1..n)

\* What the first top_k candidates weigh.
Masses(logits, options) ==
  LET order == Ranked(logits)
  IN [i \in 1..options.top_k |-> Mass(logits[order[1]] - logits[order[i]], options.temperature)]

\* How many of them the nucleus keeps.
Retained(masses, top_p) ==
  LET enough == {n \in DOMAIN masses :
                   Upto(masses, n) * Whole >= top_p * Upto(masses, Len(masses))}
  IN IF top_p = Whole THEN Len(masses) ELSE Min(enough)

\* The place of the candidate that the word falls on.
Place(masses, kept, word) ==
  LET weighty == {i \in 1..kept : masses[i] > 0}
      beyond == {i \in weighty : Upto(masses, i) * Words > word * Upto(masses, kept)}
  IN IF beyond = {} THEN Max(weighty) ELSE Min(beyond)

Best(logits) == Min({k \in DOMAIN logits : \A j \in DOMAIN logits : logits[j] <= logits[k]})

\* inkling_sample(), of finite logits and effective options.
Sample(logits, options, word) ==
  LET masses == Masses(logits, options)
  IN (IF options.temperature = 0 THEN Best(logits)
      ELSE Ranked(logits)[Place(masses, Retained(masses, options.top_p), word)]) - 1

-------------------------------------------------------------------------------
\* What the options ask for, token by token and without an order of the row.
Ahead(logits, t) == {s \in DOMAIN logits : Better(logits, s, t)}

Weights(logits, temperature) ==
  LET peak == Max({logits[t] : t \in DOMAIN logits})
  IN [t \in DOMAIN logits |-> Mass(peak - logits[t], temperature)]

\* Of the tokens with fewer than top_k ahead, those whose better ones have not yet
\* the part top_p of the whole mass.
Nucleus(logits, options) ==
  LET weights == Weights(logits, options.temperature)
      kth == {t \in DOMAIN logits : Cardinality(Ahead(logits, t)) < options.top_k}
  IN {t \in kth : \/ options.top_p = Whole
                  \/ Weight(weights, Ahead(logits, t)) * Whole < options.top_p * Weight(weights, kth)}

\* The token that the options and the word call for: those of the nucleus share the
\* words in proportion to their masses, better ones first.
Called(logits, options, word) ==
  LET weights == Weights(logits, options.temperature)
      nucleus == Nucleus(logits, options)
      mine(t) ==
        /\ Weight(weights, Ahead(logits, t)) * Words <= word * Weight(weights, nucleus)
        /\ word * Weight(weights, nucleus) < Weight(weights, Ahead(logits, t) \cup {t}) * Words
  IN (IF options.temperature = 0 THEN CHOOSE t \in DOMAIN logits : Ahead(logits, t) = {}
      ELSE CHOOSE t \in nucleus : mine(t)) - 1
===============================================================================
