------------------------------ MODULE MCGenerate ------------------------------
(***************************************************************************)
(* Tokens 0 and 1, of which 1 is EOS, and an ID 2 outside the vocabulary.  *)
(* The logits depend on every token before and tie now and then; a mass    *)
(* that is three below the best is nothing at temperature 1; a word        *)
(* depends on the seed and on the draw.                                    *)
(***************************************************************************)
EXTENDS Generate, SequencesExt

MCMass(gap, temperature) == 8 \div (2 ^ ((2 * gap) \div temperature))

MCLogits(row) ==
  LET mixed == FoldLeft(LAMBDA sum, token : 5 * sum + token + 1, 1, row)
  IN [k \in 1..Width |-> (mixed * (3 * k + 2)) % 4]

MCWord(state) == (3 * (state[1] + state[2])) % Words

\* On rows of three logits the sampler gives what the options call for, with ties,
\* masses that vanish, every top_k and top_p, and words at both ends.
ASSUME SamplerMeetsItsOptions ==
  \A logits \in [1..3 -> 0..3], word \in 0..Words - 1 :
    \A temperature \in 0..2, top_k \in 0..4, top_p \in 1..Whole :
      LET asked == Effective([temperature |-> temperature, top_k |-> top_k, top_p |-> top_p], 3)
      IN Sample(logits, asked, word) = Called(logits, asked, word)

Options(temperature, top_k, top_p) ==
  [temperature |-> temperature, top_k |-> top_k, top_p |-> top_p]
Greedy == Options(0, 0, 1)
Free == Options(2, 0, Whole)
Narrow == Options(1, 2, 3)

Request(prompt, max, room, seed, options) ==
  [prompt |-> prompt, max |-> max, room |-> room, seed |-> seed, sane |-> TRUE,
   options |-> options]

\* Served: all stops after one, two or three tokens, EOS at the last requested
\* and at the last possible token, EOS in the prompt, nothing to generate.
MCServed ==
  {Request(<<0>>, 2, 2, 0, Free), Request(<<0>>, 3, 3, 0, Narrow),
   Request(<<0>>, 4, 3, 0, Free), Request(<<0>>, 3, 3, 1, Free),
   Request(<<1, 0>>, 2, 2, 1, Free), Request(<<1, 0>>, 3, 2, 0, Free),
   Request(<<1, 0>>, 4, 3, 0, Greedy), Request(<<1, 0>>, 2, 2, 0, Greedy),
   Request(<<0, 1, 0>>, 2, 1, 1, Narrow), Request(<<0, 1, 0>>, 1, 1, 1, Greedy),
   Request(<<0>>, 0, 0, 0, Greedy), Request(<<0, 0, 0, 0>>, 1, 0, 0, Free)}

\* Refused: no prompt, bad pointers or options, overflow, a long prompt, a small
\* output, a token outside the vocabulary.
MCRefused ==
  {Request(<<>>, 1, 3, 0, Free), [Request(<<0>>, 1, 3, 0, Free) EXCEPT !.sane = FALSE],
   Request(<<0>>, 1, 3, 0, Options(1, 0, 0)),
   Request(<<0>>, SizeMax, 3, 0, Free), Request(<<0, 0, 0, 0, 0>>, 1, 3, 0, Free),
   Request(<<0>>, 4, 2, 0, Free), Request(<<0, 2>>, 1, 3, 0, Free)}

MCRequests == MCServed \cup MCRefused
===============================================================================
