------------------------------- MODULE Generate -------------------------------
(***************************************************************************)
(* Generation (src/model/inkling_generate.c): inkling_generate drives one  *)
(* context through prefill and decode, or through complete prefixes, and   *)
(* publishes the generated IDs and the result once, at the end.            *)
(*                                                                         *)
(* The context is the abstract one of Continuation, which Sequence         *)
(* implements.  Between two generations the caller may use it directly:    *)
(* what a call finds in the sequence, in the scratch buffer of earlier     *)
(* calls and in the RNG is whatever happened before.                       *)
(*                                                                         *)
(* Rows of logits and words of the RNG are arbitrary functions of the text *)
(* and of the state of the RNG; Sampler draws from them.  A greedy request *)
(* leaves the RNG alone.                                                   *)
(***************************************************************************)
EXTENDS Sampler

CONSTANTS
  Tokens,        (* the vocabulary                                         *)
  EOS,           (* eos_token_id                                           *)
  Ids,           (* token IDs callers pass                                 *)
  Capacity,      (* usable tokens: context capacity, at most the model's   *)
  SizeMax,       (* SIZE_MAX                                               *)
  Requests,      (* what callers ask for:                                  *)
                 (* [prompt, max, room, seed, options, sane]               *)
  Seeds,         (* 64-bit seeds                                           *)
  Logits(_),     (* the row of a text: Width integers                      *)
  Width,         (* inkling_model_logits_width()                           *)
  Word(_),       (* the word of a state of the RNG                         *)
  Broken, NoAnswer,  (* as in Continuation                                 *)
  Garbage,       (* an unwritten element of the prefix buffer              *)
  Untouched      (* caller memory no call has written                      *)

VARIABLES
  incremental,   (* the option the context was created with                *)
  text, answer,  (* the context                                            *)
  prefix,        (* generation->prefix, <<>> until it is allocated         *)
  rng,           (* generation->state: a seed and how many words were drawn *)
  pc,            (* where the call in progress is                          *)
  req,           (* its request                                            *)
  count,         (* staged.generated_count                                 *)
  stop,          (* staged.stop_reason                                     *)
  out,           (* the caller's output buffer                             *)
  result,        (* the caller's result: [count, stop]                     *)
  granted        (* history variable: the last request that returned 1     *)

context == <<text, answer>>
scratch == <<prefix, rng>>
caller == <<out, result, granted>>
vars == <<incremental, context, scratch, pc, req, count, stop, caller>>

Context == INSTANCE Continuation

States == Seeds \X (0..Capacity)

ASSUME GenerateAssumption ==
  /\ Tokens \subseteq Ids /\ EOS \in Tokens
  /\ Capacity \in Nat \ {0} /\ SizeMax \in Nat /\ Capacity <= SizeMax
  /\ Requests \subseteq [prompt : Seq(Ids), max : 0..SizeMax, room : 0..SizeMax,
                         seed : Seeds, sane : BOOLEAN,
                         options : [temperature : Nat, top_k : Nat, top_p : Nat]]
  /\ Width \in Nat \ {0} /\ 0..Width - 1 \subseteq Tokens
  /\ \A row \in Context!Texts : Logits(row) \in [1..Width -> Int]
  /\ \A row \in Context!Texts, r \in Requests :
       r.options.temperature > 0 => Weighable(Logits(row), r.options.temperature)
  /\ \A state \in States : Word(state) \in 0..Words - 1
  /\ Broken \notin Seq(Tokens)

Least(m, n) == IF m < n THEN m ELSE n

\* Tokens the call will have to produce, and store, unless EOS comes first.
Required(r) == Least(Capacity - Len(r.prompt), r.max)

\* The checks of inkling_generate; sane stands for those of the pointers and of
\* overlapping ranges.
Acceptable(r) ==
  /\ r.sane /\ r.prompt # <<>>
  /\ ValidOptions(r.options)
  /\ Len(r.prompt) + r.max <= SizeMax
  /\ Len(r.prompt) <= Capacity
  /\ r.room >= Required(r)
  /\ \A i \in 1..Len(r.prompt) : r.prompt[i] \in Tokens

NoRequest == [prompt |-> <<>>, max |-> 0, room |-> 0, sane |-> FALSE]

\* Length of the sequence: the prompt and what was generated so far.
Length == Len(req.prompt) + count

Return == pc' = "idle" /\ req' = NoRequest /\ count' = 0 /\ stop' = "none"

Init ==
  /\ incremental \in BOOLEAN
  /\ Context!Init
  /\ prefix = <<>> /\ rng = <<>>
  /\ pc = "idle" /\ req = NoRequest /\ count = 0 /\ stop = "none"
  /\ out = Untouched /\ result = Untouched /\ granted = NoRequest

-------------------------------------------------------------------------------
\* The caller uses the context itself, with a logits row of its own.  A
\* complete-prefix call leaves the sequence as a reset does.
OtherUse ==
  /\ pc = "idle" /\ answer' = NoAnswer
  /\ \/ Context!Restart
     \/ incremental /\ (Context!Break \/ \E id \in Tokens : Context!Consume(id))
  /\ UNCHANGED <<incremental, scratch, pc, req, count, stop, caller>>

Refuse(r) ==
  /\ pc = "idle" /\ ~Acceptable(r)
  /\ UNCHANGED vars

\* Nothing to generate: no evaluation, and the context stays as it is.
Nothing(r) ==
  /\ pc = "idle" /\ Acceptable(r) /\ Required(r) = 0
  /\ result' = [count |-> 0, stop |-> IF r.max = 0 THEN "length" ELSE "context"]
  /\ granted' = r
  /\ UNCHANGED <<incremental, context, scratch, pc, req, count, stop, out>>

Begin(r) ==
  /\ pc = "idle" /\ Acceptable(r) /\ Required(r) > 0
  /\ pc' = "prepare" /\ req' = r
  /\ count' = 0 /\ stop' = IF r.max = 0 THEN "length" ELSE "context"
  /\ UNCHANGED <<incremental, context, scratch, caller>>

\* The prompt is copied to the front of the buffer; the rest of it keeps the
\* tokens of an earlier call.
WithPrompt(buffer) ==
  [i \in 1..Capacity |-> IF i <= Len(req.prompt) THEN req.prompt[i] ELSE buffer[i]]

Fresh == [i \in 1..Capacity |-> Garbage]

\* Mutant: the RNG goes on where the last call left it.
PrepareKeepsState ==
  /\ pc = "prepare"
  /\ prefix' = WithPrompt(IF prefix = <<>> THEN Fresh ELSE prefix)
  /\ rng' = IF prefix = <<>> THEN <<req.seed, 0>> ELSE rng
  /\ pc' = "evaluate"
  /\ UNCHANGED <<incremental, context, req, count, stop, caller>>

\* prepare(): the scratch is allocated once per context and then reused.
Prepare ==
  /\ pc = "prepare"
  /\ prefix' = WithPrompt(IF prefix = <<>> THEN Fresh ELSE prefix)
  /\ rng' = <<req.seed, 0>>
  /\ pc' = "evaluate"
  /\ UNCHANGED <<incremental, context, req, count, stop, caller>>

PrepareFails ==
  /\ pc = "prepare" /\ prefix = <<>>
  /\ Return
  /\ UNCHANGED <<incremental, context, scratch, caller>>

\* inkling_prefill starts with a reset.
Prefill ==
  /\ pc = "evaluate" /\ incremental /\ count = 0
  /\ Context!Restart
  /\ pc' = "feed"
  /\ UNCHANGED <<incremental, scratch, req, count, stop, caller>>

Decode ==
  /\ pc = "evaluate" /\ incremental /\ count > 0
  /\ Context!Ask
  /\ pc' = "feed"
  /\ UNCHANGED <<incremental, scratch, req, count, stop, caller>>

\* Mutant: decode is handed the place the next token will go to.
NextFedAhead == IF count = 0 THEN prefix[Len(text) + 1] ELSE prefix[Length + 1]

\* The token a running prefill or decode consumes next.
NextFed == IF count = 0 THEN prefix[Len(text) + 1] ELSE prefix[Length]

FeedIsLast == count > 0 \/ Len(text') = Len(req.prompt)

\* The context consumes one token, and answers after the last of its call.
Feed ==
  /\ pc = "feed"
  /\ Context!Consume(NextFed)
  /\ answer' = IF FeedIsLast THEN text' ELSE NoAnswer
  /\ pc' = IF FeedIsLast THEN "sample" ELSE "feed"
  /\ UNCHANGED <<incremental, scratch, req, count, stop, caller>>

FeedFails ==
  /\ pc = "feed"
  /\ Context!Break
  /\ Return
  /\ UNCHANGED <<incremental, scratch, caller>>

ForwardLast ==
  /\ pc = "evaluate" /\ ~incremental
  /\ Context!Recompute(SubSeq(prefix, 1, Length))
  /\ pc' = "sample"
  /\ UNCHANGED <<incremental, scratch, req, count, stop, caller>>

ForwardFails ==
  /\ pc = "evaluate" /\ ~incremental
  /\ Context!Restart
  /\ Return
  /\ UNCHANGED <<incremental, scratch, caller>>

-------------------------------------------------------------------------------
\* Why the loop ends after this token, if it does.
StopAfter(token, n) ==
  IF token = EOS THEN "eos" ELSE IF n = req.max THEN "length" ELSE "context"

\* Mutant: only the requested count ends the loop.
LastTurnLate(token, n) == token = EOS \/ n = req.max

LastTurn(token, n) == token = EOS \/ n = req.max \/ n = Required(req)

\* A draw moves the RNG on, except at temperature 0.
Advanced == IF req.options.temperature = 0 THEN rng ELSE <<rng[1], rng[2] + 1>>

\* inkling_sample() of the row that was evaluated last.
Drawn == Sample(Logits(answer), Effective(req.options, Width), Word(Advanced))

\* Mutant: the token is not counted.
SampleNextUncounted ==
  /\ pc = "sample"
  /\ \E token \in {Drawn} :
       /\ prefix' = [prefix EXCEPT ![Length + 1] = token]
       /\ stop' = StopAfter(token, count)
       /\ pc' = IF LastTurn(token, count) THEN "deliver" ELSE "evaluate"
  /\ rng' = [Advanced EXCEPT ![2] = @ % Capacity]
  /\ UNCHANGED <<incremental, context, req, count, caller>>

\* inkling_sample, the store into the buffer and the stop checks.
SampleNext ==
  /\ pc = "sample"
  /\ \E token \in {Drawn} :
       /\ prefix' = [prefix EXCEPT ![Length + 1] = token]
       /\ stop' = StopAfter(token, count + 1)
       /\ pc' = IF LastTurn(token, count + 1) THEN "deliver" ELSE "evaluate"
  /\ rng' = Advanced
  /\ count' = count + 1
  /\ UNCHANGED <<incremental, context, req, caller>>

\* The sampler rejects non-finite logits (the last kernel already has).
SampleFails ==
  /\ pc = "sample"
  /\ Return
  /\ UNCHANGED <<incremental, context, scratch, caller>>

\* Mutant: the last token is decoded as well.
DeliverDecodes ==
  /\ pc = "deliver"
  /\ out' = SubSeq(prefix, Len(req.prompt) + 1, Length)
  /\ result' = [count |-> count, stop |-> stop]
  /\ granted' = req
  /\ text' = IF incremental THEN SubSeq(prefix, 1, Length) ELSE text
  /\ Return
  /\ UNCHANGED <<incremental, answer, scratch>>

\* Both outputs are written here and nowhere else.
Deliver ==
  /\ pc = "deliver"
  /\ out' = SubSeq(prefix, Len(req.prompt) + 1, Length)
  /\ result' = [count |-> count, stop |-> stop]
  /\ granted' = req
  /\ Return
  /\ UNCHANGED <<incremental, context, scratch>>

Call(r) == Refuse(r) \/ Nothing(r) \/ Begin(r)

Step ==
  \/ Prepare \/ PrepareFails
  \/ Prefill \/ Decode \/ Feed \/ FeedFails
  \/ ForwardLast \/ ForwardFails
  \/ SampleNext \/ SampleFails \/ Deliver

Next == OtherUse \/ (\E r \in Requests : Call(r)) \/ Step

Spec == Init /\ [][Next]_vars
FairSpec == Spec /\ WF_vars(Step)
-------------------------------------------------------------------------------
\* The one sequence a request defines without any context, and why it ends: every
\* token is the one that the options call for in the logits of the text before it,
\* with the RNG freshly seeded, and only the last can be EOS.
Answers(r, ids, reason) ==
  LET n == Len(ids)
      before(i) == r.prompt \o SubSeq(ids, 1, i - 1)
      asked == Effective(r.options, Width)
  IN /\ n <= Required(r)
     /\ \A i \in 1..n : ids[i] = Called(Logits(before(i)), asked, Word(<<r.seed, i>>))
     /\ \A i \in 1..n - 1 : ids[i] # EOS
     /\ CASE n > 0 /\ ids[n] = EOS -> reason = "eos"
          [] n = r.max /\ (n > 0 => ids[n] # EOS) -> reason = "length"
          [] OTHER -> reason = "context" /\ n = Required(r)

\* Whatever the context was used for before and in whichever mode it runs, a
\* successful call returns the IDs its own request defines: generation restarts
\* from its explicit seed, EOS precedes the requested count, which precedes the
\* context limit, and calls that fail later leave both outputs as they were.
OutputIsReference ==
  result # Untouched =>
    LET ids == IF result.count = 0 THEN <<>> ELSE out
    IN result.count = Len(ids) /\ Answers(granted, ids, result.stop)

\* The buffer of usable elements, shared by all calls of the context, is never
\* indexed beyond its end, and no element is read that this call has not
\* written: "every successful sequence fits the usable capacity".
BufferWithinBounds ==
  pc \in {"evaluate", "feed", "sample"} =>
    /\ Length < Capacity /\ count < Required(req)
    /\ \A i \in 1..Length : prefix[i] \in Tokens

\* The context never refuses the generation loop: each token it is fed extends
\* the text, there is room for it, and the row sampled from is that of the
\* whole sequence so far.
ContextFollows ==
  /\ pc = "feed" =>
       /\ text # Broken
       /\ Len(text) < Length
       /\ text = SubSeq(prefix, 1, Len(text))
       /\ count > 0 => Len(text) = Length - 1
  /\ pc = "sample" => answer = SubSeq(prefix, 1, Length)

\* "No extra forward runs after a stop": a generation that succeeds leaves an
\* incremental context one token short of the sequence it returned, ready to
\* decode that token, and leaves it alone when there was nothing to generate.
NoExtraForward ==
  [][granted' # granted =>
       /\ UNCHANGED text
       /\ incremental /\ pc = "deliver" => text = req.prompt \o SubSeq(out', 1, count - 1)]_vars

\* Every generation returns.
CallsReturn == pc # "idle" ~> pc = "idle"
===============================================================================
