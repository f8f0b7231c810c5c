# Inkling in C: TLA+ models, model checking and proofs

This directory holds a formal model of the Inkling C runtime: a CPU-only
inference program that reads a checkpoint of about a terabyte from files, keeps
as little of it in memory as it can, and generates tokens. The numbers it
computes are tested by the repository's own tests. The models here are about
the rest, where a test hardly reaches: caches and rings at their limits, calls
that fail half way, files that are replaced while they are read, processes that
die between two renames, and parsers of untrusted text.

Seventeen modules model components and what they are composed of, three state
what a component promises and show that the component keeps it, eleven `MC*`
modules and twelve `.cfg` files check them with TLC, and eight modules hold proofs
that the TLA+ proof system checks for every value of the constants.

- [1. The system](#1-the-system)
- [2. The plan](#2-the-plan)
- [3. Modules and the code they model](#3-modules-and-the-code-they-model)
- [4. The runs](#4-the-runs)
- [5. Fairness](#5-fairness)
- [6. What is proved](#6-what-is-proved)
- [7. The finding](#7-the-finding)
- [8. Assumptions](#8-assumptions)
- [9. What is not modelled](#9-what-is-not-modelled)
- [10. Running it](#10-running-it)

## 1. The system

Paths are relative to the repository. `context` and `model` are the opaque
types of `include/inkling/inkling_model.h`.

| component | code | state it keeps | operations |
|---|---|---|---|
| weight projection and expert cache | `src/model/inkling_project.c` | a doubly linked list of entries in order of use, `stats`, the shared buffer `context->weights` | `inkling_project`, reset of statistics, free |
| incremental sequence | `src/model/inkling_forward.c` | per layer a ring of key/value rows and four convolution histories; `position`, `valid` | reset, prefill, decode, forward, forward_last |
| generation | `src/model/inkling_generate.c` | scratch of earlier calls (prefix, logits, RNG state), allocated on first use | `inkling_generate` |
| command line and publication | `src/cli/inkling_run.c` | temporary files, `published` flags, the failure of the trace | `run_ids`, `write_logits` |
| packed trunk | `tools/pack_trunk.py`, `src/model/inkling_packed.c` | a file and its descriptor, the table of ranges | pack; open, read, close |
| tensor catalogue | `src/io/inkling_index.c`, `inkling_safetensors.c`, `src/model/inkling_bind.c` | entries, an open-addressing hash table, shard and range of each tensor | load, find, parse a header, bind a shard |
| tensor reads | `src/model/inkling_packed.c`, `inkling_bind.c` | the sorted lists of ranges | `inkling_model_read`, `positional_read` |
| JSON | `src/io/inkling_json.c` | the tree under construction | parse, accessors, free |
| range store | `tools/fetch_model_layers.py` | a manifest and payload files per layer | run, resume, offline run |
| model open and layer binding | `src/model/inkling_bind.c` | layers, matrices, vectors, paths, the list of local layers | the three ways to open, close |
| context creation | `src/model/inkling_forward.c` | nine row buffers and their capacity, twelve buffers of fixed size, rings, histories | create, `scratch_reserve`, free |
| sampler | `src/model/inkling_generate.c` | the RNG | `inkling_sample` |
| configuration | `src/io/inkling_config.c` | none between calls | load, check |
| verification | `src/io/inkling_verify.c` | a census, while it runs | `verify_model` |
| kernels, allocation | `src/core` | none | pure functions |
| metadata and fixture fetchers | `tools/fetch_*.py` | files | one download each |
| references, emitters, checks | `tools/`, `tests/` | none of the program | test oracles |

How they interact:

- A **model** is opened from a directory. The configuration and the index are
  parsed as **JSON**; the index fills the **catalogue**; each shard's header
  is bound to it. If a packed trunk is selected it is opened and validated
  against the digest of the metadata and against every range, with no fallback
  to the shards. A production model is **verified** before: a census reads index
  and headers on its own, and the open then reads them again.
- A **context** belongs to one model and one thread. `inkling_forward`,
  `prefill` and `decode` push tokens through the layers; each matrix product
  goes through **projection**, which reads weights through **tensor reads** or
  finds a routed expert in its **cache**. The allocator and the reads are the
  callbacks through which a call can fail, and they can fail at every use. The
  evaluation functions nest, and each of them may grow the row buffers that its
  caller is working in.
- **Generation** drives one context and publishes its output once. The
  **command line** runs a generation and renames its files into place.
- The **tools** share nothing with the runtime but files: `pack_trunk.py`
  makes trunks, `fetch_model_layers.py` makes the extracted ranges that a
  model can be opened on in place of shards.

What is hard, and what makes each component correct:

| component | hard behaviour | correct means |
|---|---|---|
| expert cache | a miss is a chain of allocation, eviction and two reads, each of which may fail | exact accounting, the limit at every instant, no torn entry, the right rows to the kernel, an LRU cache to its callers |
| sequence | a token that fails in layer *k* has changed layers before *k*; a reset does not clear the ring | what a successful call returns is what a complete recomputation would |
| generation | scratch, context and RNG survive between calls; three stop conditions may coincide | the output is a function of the request alone; failure changes no output |
| publication | three renames, any of which may fail or never happen | no destination ever holds part of a file; exit status and diagnostics are true |
| packed trunk | checkpoint, trunk and path change while other processes read | a stale or damaged trunk is refused; an open model is not redirected |
| catalogue | collisions, wrap-around, headers wrong in the last tensor | all names found, binds all or nothing, a load that succeeds is complete |
| tensor reads | 64-bit sums, first and last range, parts of a tensor in several ranges | the original bytes or an error |
| verification | two readings of the same files by different rules, one shard optional | what it accepts can be loaded |
| sampler | ties, vanishing masses, a nucleus or a draw at its edge | the token that the options call for |
| open, contexts | some hundred points of failure, each with its own clean-up; buffers sized by the widest of unlike layers; nested reservations | nothing leaks or is freed twice; row buffers change together; every access stays in its buffer |
| JSON | any token wrong or any allocation failing deep in a tree | exactly the documents of the grammar, read back as written, no leak |
| range store | killed between payload and manifest, a failing server, a budget over many files | records are backed, resumption is exact, the budget holds |

`PROJECT.json` lists forty hazards of these kinds, each at its line, with the
properties that would notice it going wrong.

## 2. The plan

In the order in which the modules were, or will be, written:

1. `LruCache`, `ExpertCache`, `ExpertCacheLru`, `ExpertCacheProofs`: the only
   component with a resource limit and a data structure of its own. *Done.*
2. `Continuation`, `Sequence`, `SequenceProofs`: the promise of a context and its
   implementation in rings and histories. *Done.*
3. `Generate`, `GenerateProofs`, composed with `Continuation` rather than with
   `Sequence`: a generation may rely on the promise only. *Done.*
4. `Publication`, `PublicationProofs`. *Done.*
5. `PackedTrunk`, `PackedTrunkProofs`. *Done.*
6. `Catalogue`, `TensorReads`, the first part of `ModelProofs`: how a name becomes a range and
   a range becomes bytes. *Done; the proofs of `TensorReads` are the second part
   of `PackedTrunkProofs`, since most of them are about the trunk's reads.*
7. `JsonParser`, `JsonText`. *Done; checked, and out of the prover's reach.*
8. `RangeStore`, `RangeStoreProofs`. *Done.*
9. `Geometry`, `Allocations`, `ModelOpen`, `ContextBuffers`, `Evaluation`,
   composed in `Session`: an open, a creation and a growth are all or nothing, and
   evaluation stays in the buffers. *Done; the proofs of the first two are the
   second part of `ModelProofs`, the third is checked and not proved.*
10. `Sampler`, inside `Generate`; `positional_read` step by step in `TensorReads`;
   `verify_model` as a third caller in `Catalogue`; the logits dump in
   `Publication`; the parsers of the command line in `JsonText`. *Done.*
11. The metadata fetcher, whose manifest comes last. Two range fetchers at
   once. The proofs at the end of this section.
12. `DataLemmas`: sums, sortings and least elements, which the proofs share. *Done.*

Composition: `Session` is one state machine over `ModelOpen`, `ContextBuffers`
and `Evaluation`, which share the heap of `Allocations` and the shapes of
`Geometry`. `Generate` extends `Sampler` and instantiates `Continuation`, which `Sequence`
implements, so that what is checked of generation holds of the real context.
`ExpertCacheLru` maps `ExpertCache` to `LruCache`. `TensorReads` starts from
ranges that `Catalogue` has bound, and its trunk payload is that of a finished
trunk of `PackedTrunk`. `Catalogue` may take names for unique because
`JsonParser` refuses a name that occurs twice. A manifest of `RangeStore` is
where the extracted ranges of `TensorReads` come from.

Theorems worth having, beyond those of section 6: `AccessesFit` of `Session` from
the shapes of `Geometry`;
`n <= (limit - digit) div 10` if and only if `10 n + digit <= limit`, the
overflow test of the integer parsers.

## 3. Modules and the code they model

An operation that runs to completion in the code is cut into one action per
point at which it can fail or at which somebody else can see its state. An
action that the code takes as a whole, with everything it calls, is one action.
`PROJECT.json` ("map") gives the lines behind each definition.

### ExpertCache, LruCache, ExpertCacheLru

`lru` is the list from `expert_cache_head` to the tail, `bytes` and `peak` are
fields of the statistics, `heap` counts live allocations whether linked or not,
and `pc` is where the call is.

| action | code |
|---|---|
| `Project(k)` | `inkling_project` up to the choice between cache and stream |
| `Hit`, `Miss` | the search of `cached_expert`, `promote`, counters; bypass if an entry cannot fit |
| `Evict` | one turn of the eviction loop |
| `Allocate`, `AllocateFails` | `inkling_malloc` of the entry; failure means streaming, not an error |
| `FillData`, `FillFails`, `Publish` | the two reads into the entry, and linking it as head |
| `TileData`, `TileScales`, `TileFails` | reads of a tile into `context->weights` |
| `Multiply`, `MultiplyFails` | the kernel on a tile; the last one ends the call |
| `ResetStats` | `inkling_context_reset_stats` |

A buffer holds the name of what was read into it or `Garbage`. `LruCache` has
four whole operations (a use, an insertion with its evictions, evictions
without an insertion, a bypass), and `ExpertCacheLru` adds a history variable,
the order before the call, because the code evicts entry by entry before it knows
whether the newcomer can be read.

### Continuation, Sequence

`Continuation` has two variables: the text the context continues, or `Broken`,
and the text whose logits it returned last. `Sequence` has the position, the
validity flag, rings and histories, and takes a token through six stages per
layer: `ConvKey`, `ConvValue`, `Store`, `Attend`, `ConvAttn`, `ConvMlp`, then
`Commit`. `Fail` may strike at each of them and is `sequence_failure`.

The value of a row is the prefix it was computed from. Every operator that
combines rows (`Convolve`, `Attention`) gives that prefix only if each operand is
what the complete-prefix path would have used, and otherwise `Garbage`, so a
wrong slot, a stale history or a window off by one shows in the logits.

### Generate

`Refuse`, `Nothing` and `Begin` are the three ways out of the argument checks;
`Prepare` is the lazily allocated scratch; `Prefill`, `Decode` and `ForwardLast`
begin an evaluation, `Feed` gives the incremental context one token, `SampleNext`
draws and decides on stopping in the order of the code, `Deliver` writes both
outputs. `OtherUse` is what a caller may do with the context in between:
anything `Continuation` allows. `Logits` and `Word` are constant operators, so
nothing depends on what the model computes or on which words the generator gives.

### Sampler

`Sample` is `inkling_sample` as a function of a row, of the options after
`Effective` and of a word: `Ranked` is the order of `rank_candidate`, `Retained` the
loop of the nucleus, and the draw passes over masses of zero and falls back to
the last candidate with a mass. `Called` says the same without ranking and
without loops, token by token: who is among the best `top_k`, who is in the
nucleus, and which words are a token's own.

### Publication

A run is the sequence of operations that `run_ids` performs (`Order`), cut to
those its options ask for; `Fail` replaces what remains by the clean-up of the
code, `Crash` by nothing. `torn` is a trace event that could not be written: the
run goes on, and its trace is never finished. A logits dump is a run whose only
file is staged after its evaluation. `Accepted` is the check of the options, of
which `same_destination` is a part. A file is `whole` or `partial`, and belongs to
a run and kind.

### PackedTrunk

The environment replaces shards and metadata (`ReplaceShard`,
`ReplaceMetadata`), truncates and damages trunks. A packer goes through
`Catalogue`, `Alias`, `Identify`, `Stage`, `Copy` (once per tensor), `Seal`,
`Replace`. `Seal` is the second metadata identity with the header that is
written after it. A model goes through `LoadIndex`, `OpenTrunk`, `CheckSource`,
`CheckPayload`, `CheckRanges`. An inode is named by the packer that created it, so
a path that is renamed over and a descriptor that is still open are two things.

### Catalogue, TensorReads

`Catalogue`: `ParseIndex` and `Insert` build the table with the probe loop of
the code; `ReadHeader`, `ParseHeader` and `Bind` are one shard. There are three
callers. `load_shards` goes through the shards in the order of the index, stops at
the first failure and compares the total at the end (`Complete`). Before it,
`verify_model` goes through the pinned shards in their own order (`VerifyHeader`,
`SkipMtp`), compares names, classes, lengths and totals with what is pinned
(`Contract`), and drops its catalogue (`Verify`). Any other caller binds what it
likes and goes on.

`TensorReads`: `Open` sorts and checks a list of ranges; `Halve` is a turn of the
binary search, `Pread` one system call of `positional_read`, which gives any
part of what it was asked for, `PreadInterrupted` an EINTR, `Collect` a turn of
the pass over extracted ranges; sums are taken modulo `Word`, as the code takes
them modulo 2^64.

### JsonParser, JsonText

`JsonParser` is a stack of frames, one per recursive call. `Accept` and `Refuse`
end a text, `NoMemory` fails an allocation, `Unwind` returns through one frame and
frees what that frame owns. `JsonText` consists of pure functions on strings and
numbers, each beside an independent definition of what the text means
(`Meaning`, `Spells`, `IsNumber`, `Value`). It also has the two parsers of the
command line that read digits, `parse_unsigned` and `parse_ids`.

### RangeStore

`Open` loads a layer's manifest, `Fetch` decides between reuse, refusal
(offline, budget) and a request, `Answer` and `Retry` are its outcomes, `Store`
and `Record` write payload and manifest, in that order, each with an atomic
replacement; `Use` reads a payload back; `Complete` writes the manifest once more.
`Stop` is a kill or an I/O error.

### Geometry, Allocations, ModelOpen, ContextBuffers, Evaluation, Session

`Geometry` is what a configuration says of shapes: the checks of
`inkling_config.c` and the dimensions that `bind_layer` gives ten matrices and
ten vectors, which differ between local and global and between dense and
routed layers.

`Allocations` is the vocabulary. A call is a sequence of *items*, each of them a
`malloc`, a test, a `free`, an access, or several of these that nothing can come
between. An item says which blocks it takes, which it leaves in a field of the
model or the context, and which the code frees by hand if it fails there. The
rest is freed with the owner, if the owner was still being built. `heap` is what
is allocated, `held` what the fields point to; a free of what is not allocated is
recorded in `misuse`.

`ModelOpen` spells out `open_model` in such items, one operator per function
(`ConfigItems`, `IndexItems`, `ShardItems`, `BlobItems`, `VectorItems`,
`MatrixItems`, `LayerItems` ...), for the three ways to open. `ClosedNames` are the
fields that `inkling_model_close` frees. `ContextBuffers` has creation with its
checks (`Creatable`), `scratch_reserve` (`RowItems`), the scratch of generation and
`FreedNames`. A JSON document is one block, because `JsonParser` shows that it is
released whole; a packed trunk is one block as well, because
`inkling_packed_open` either leaves it in the model, which owns it, or fails.

`Evaluation` is every evaluation function as the accesses it makes: the buffer
and how many of its elements. Rows that are handed to a nested call are
*arguments* (`pin`): pointers that were read before that call reserves its own
rows, and that must still be allocated when it uses them.

`Session` lets a caller open, create, evaluate single blocks, prefixes, prefills
and decodes in any order, free and close. `ReserveRows`, `Succeed`, `FailWhole`,
`FailCall` and `Return` execute the items of the call.

## 4. The runs

| run | distinct states | checks | bounds |
|---|---|---|---|
| `expert_cache` | 147,138 | `TypeOK Accounted WithinLimit EntriesIntact KernelGetsItsTile`, refinement `ImplementsLru`, liveness `CallsReturn` | routed projections of 1, 2, 2, 3 and 6 units, limit 5; an unrouted NVFP4 and a BF16 one; two tiles for two of them; counters saturate at 2 |
| `sequence` | 648,262 | `PositionHonest StateIsOfText`, refinement `ImplementsContinuation` | a global layer and one with window 2, capacity 4, tokens `a`, `b` and one outside the vocabulary, six prompts |
| `generate` | 228,964 | `OutputIsReference BufferWithinBounds ContextFollows NoExtraForward`, liveness `CallsReturn` | twelve requests to be served, seven to be refused, capacity 4, SIZE_MAX 7, rows of two logits, eight words, both modes |
| `publication` | 44,125 | `DestinationsWhole PublishedInOrder ExitHonest NoLitter` | two runs, three paths, nine choices of destinations |
| `packed_trunk` | 1,319,267 | `DestinationWhole SourceIntact NeverStale ReadsArePinned` | two tensors in two shards, two revisions, three packers, one aimed at a shard |
| `packed_trunk_race` | (violation) | `MetadataUnchanged` | the same |
| `catalogue` | 1,293,392 | `FindsWhatIsIndexed ShardMatchesHeader ReadyIsWhole VerifiedLoads` | three names and a foreign one, hashes 0 and 7, two shards and the MTP shard, ten documents, 165 headers, a pinned checkpoint of three tensors |
| `tensor_reads` | 130,361 | `ReadExact` | two shards of three bytes, every list of up to three ranges in every order, words of 16 values, a `pread` of at most two bytes |
| `json_parser` | 401,624 | `AcceptedIsRead DocumentIsAccepted NothingLeaks` | two names, depth 2, first capacity 1, nine tokens |
| `json_text` | 223,353 | `StringsDecode NumbersAreRead` | see below |
| `range_store` | 4,383 | `RecordsBacked WithinBudget Resumes`, liveness `RunEnds` | two layers, four chunks of which two share a file, budget 6 of 7, three attempts |
| `session` | 37,749 | `HeapAccounted RowsTogether AccessesFit` | five ways to open a model of two layers, capacities 1 to 3, weight buffers of 79, 80 and 96 bytes, both modes, two extracted ranges |

What the runs show, and why the bounds are enough:

- **`expert_cache`**. Charges of 1 to 3 under a limit of 5 make one newcomer evict
  none, one or two entries, leave room unused, and hit at the head, in the
  middle and at the tail; 6 is the projection that never fits. With these, every
  failure in every position of a fill is followed by every later call. TLC
  finds the cache exactly accounted, within its limit while an entry is still
  being filled, never torn, and equal to an ideal LRU cache to its callers.
- **`sequence`**. Capacity 4 with window 2 wraps the local ring twice and fills the
  global one exactly; the four histories are of length three and fill. After a
  failure in any stage of any token in either layer, every call is tried.
  Every successful call leaves and returns what its whole text defines.
- **`generate`**. The requests stop after one, two or three tokens, at EOS at the
  last requested and at the last possible token, with EOS inside the prompt, with
  nothing to generate, and with a full context; the refused ones each fail a
  different check. Any of them may follow any other with use of the context in
  between. They are greedy, free at temperature 2, or cut by `top_k` and `top_p`.
  Output and result are those of the reference definition, or are
  untouched. No forward pass is spent on a token nobody asked for. Rows of two
  logits leave few ties, so the assumption `SamplerMeetsItsOptions`, which TLC
  evaluates before the run, compares sampler and reference on every row of three
  logits from 0 to 3, with temperatures 0 to 2, every `top_k` and `top_p` and
  every word: ties at the edge of `top_k`, masses of zero, a nucleus that ends
  exactly at its threshold, and the first and last word.
- **`publication`**. Two runs on one set of paths, in one order and the other,
  with every operation failing and each process dying at every point. A
  destination is always whole; a run that exits with 0 has replaced all its
  files; one that exits with 1 has named those it did replace, and has left
  no temporary file. Two of the nine choices name a path twice and one asks for a
  dump beside another file; they are refused before anything is staged. A
  third run would only overwrite again.
- **`packed_trunk`**. Two tensors are needed for a copy that sees two revisions;
  two revisions with equal ranges and unequal headers are the case the range
  check cannot tell apart; two packers race to one path and a third is aimed at a
  shard through an alias. `NeverStale` is about checkpoints that were at rest when
  the model compared the metadata, and about packers whose catalogue and
  first identity are of one revision: the exception is the finding.
- **`catalogue`**. Two hash values, one the last slot of a table, make names
  collide and wrap in every combination, with tables of two, four and eight slots.
  The headers have gaps, overlaps, empty tensors at shared offsets, doubled and
  foreign names, missing tensors. The pinned checkpoint has a tensor in each shard;
  four indexes have an MTP tensor, in different orders and with a total or a class
  that may be wrong. What verification accepts, with or without the MTP shard, is
  loaded as long as it stays readable and the same.
- **`tensor_reads`**. Three ranges are the first, the last and one between for the
  binary search; with three bytes they meet, leave a gap, or lie in two shards.
  With words of 16 values some sums wrap. A read of every place and length
  around them gives the original bytes, or fails as the reference definition
  says. With at most two bytes a call, a read of three takes two calls or three,
  any of them short or interrupted.
- **`json_parser`**. Nine tokens are the shortest texts in which an object has two
  members, or one name twice; depth 2 has legal and illegal nesting of both
  containers; a first capacity of 1 makes containers grow. The accepted texts
  are compared with the set of documents of the grammar, generated without the
  parser, in both directions.
- **`json_text`**. Nineteen bytes at the ends of the ranges that UTF-8 tells apart,
  up to four of them, decide every branch of the decoder; sixteen units,
  escapes at the ends of the ranges of the encoder and of the surrogates, up to
  three of them, have pairs with something before or after; six characters have
  every part of a number; integers of up to four characters are compared around
  8-bit limits, which stand for the 64-bit ones (the test has no other constant
  in it), and lists of up to five characters around a largest ID of 25.
- **`range_store`**. Any number of runs, each killed anywhere, offline or not, with
  payloads altered in between. The budget is one byte short of all chunks, so
  which chunk is refused depends on the order of the runs.
- **`session`**. Two configurations differ in which kind of layer is wider: local
  heads wider than global ones or narrower, dense rows wider than those of the
  experts or narrower, so that a buffer that is sized by the first layer, by the
  last or by one kind only is too small in one of them. A third has heads that
  key and value heads cannot share, a fourth has columns that NVFP4 cannot
  store: both are refused, at different depths. One way opens a single layer
  out of extracted ranges. A weight buffer of 80 bytes is exactly the widest row
  of one configuration and 79 is one short. Every allocation and every test of
  every call fails once, and every call is tried afterwards with the rows that
  earlier calls left, from one to the whole capacity. One context is enough: the
  contexts of a model share nothing that a call changes. Two ranges are the
  first and one that is not.

Bounds on counters are named constants (`MaxCount`, `Capacity`, `SizeMax`,
`Attempts`, `Chunk`, `MaxTokens`, `MaxDepth`, `Longest`), and none but `MaxCount` and the lengths of
texts cut off behaviour: the others are parameters of the code.

Every property of a passing run has a mutant in `PROJECT.json`, a change of a
mapped definition such as a plausible mistake in the code would be: a torn entry
is linked, promotion is skipped, `valid` survives a failure, a file is renamed as
soon as it is written, and so on. The operators marked "Mutant" in the modules are
these changes; no specification uses them.

## 5. Fairness

`FairSpec` of `ExpertCache`, `Generate` and `RangeStore` has weak fairness on
`Step`, what a call or run in progress does by itself. The code justifies this: a
synchronous C function on one thread goes on until it returns, and a Python
program until it exits. Nothing is assumed of callers. Failures are disjuncts of
`Step` on equal terms with successes, so no read, allocation or server ever has to
succeed: in `RangeStore` a request either answers or is tried again, because it
has a timeout (`tools/fetch_model_layers.py`), and no fairness is asked of
the answer. `ImplementsLru` and `ImplementsContinuation` are safety only.

`CHECK_DEADLOCK FALSE` is given where a system really stops: command-line runs
that have exited, a load that has ended, a list of ranges that was refused, a
text that has been judged. The other runs check that there is no deadlock, so in
`session` every call returns or can fail at the point it has reached.

## 6. What is proved

All proofs are checked by TLAPS with Z3, Zenon and LS4.

Each invariant is proved from one *inductive* invariant per component, which a
run of TLC checked before it was proved. The provers have no induction over data,
so what would be an induction over a sequence or a set is stated by a function of
running values, or as a smallest counterexample that cannot exist.

### DataLemmas

`LeastNatural` and `Smallest`: a set of numbers that is not empty has a least one,
and a set of finite sets has one that contains no other. Out of them come the sums of the community modules (`SumOfNothing`, `SumOfNext`, `SumsType`, and
the theorem `SumGrows`: a finite set and one element more), and the sortings:
`Arrangement` says that a finite set under a strict total order can be listed in
that order, which is what `qsort` and Python's `sorted` are taken to do.

### ExpertCacheProofs

For every finite or infinite set of projections, every charge, limit, tiling
and counter width that satisfy `ConstantsOK` (charges are positive, routed
projections are NVFP4):

| theorem | says |
|---|---|
| `Invariance` | the inductive invariant |
| `TypeCorrect`, `AccountingExact`, `LimitKept`, `NoTornEntry`, `RightTile` | the invariants of the run |
| `NoNeedlessRead` | weight bytes are read only for a projection that is not resident |
| `VictimAlwaysExists` | the eviction loop, which does not test for NULL, always has a tail |
| `CountersMonotonic` | nothing but a reset lowers a counter |
| `LruImplemented` | the cache implements `LruCache` |

None of these is inductive alone. That an entry that is published fits needs
what the call knew when it allocated, through two reads; that the entry is not
resident already needs what the search found, through all evictions. `Progress`
says this for each `pc`, and `IInv` is the conjunction of `Progress` with the six
invariants. `VictimAlwaysExists` then follows: an empty list weighs nothing, and a
charge never exceeds the limit where the loop is entered.

The weight of a list is not written as a sum. `Weighs(s, n)` says that there is
a function of running totals from 0 to *n*. The lemmas `WeighsPush`,
`WeighsFront` and `WeighsPromote` build such a function for each change the code
makes to the list: a new head, a lost tail, an entry moved to the front. They
rest on `PushShape`, `FrontShape` and `PromoteShape`, which say where each
element goes. `IntactPush`, `IntactFront` and `IntactPromote` do the same for
uniqueness of keys. Then there is one lemma per action.

The refinement is about a call that evicts entry by entry before it knows
whether its newcomer can be read, while `LruCache` evicts once. `Remembered`
bridges the two: the list is a first part of the order the call found, and if
anything has been evicted, the entry lost last was lost for lack of room. So
what is left when the loop ends is the longest first part that leaves room
(`RoomIsMinimal`), whether the newcomer is then linked (`PublishBrings`) or given
up (`FailureGivesUp`).

### SequenceProofs

For every vocabulary, capacity, number of layers and windows:

| theorem | says |
|---|---|
| `Invariance` | the inductive invariant |
| `HonestPosition`, `StateOfTextAlone` | the invariants of the run |
| `Implementation` | `Sequence` implements `Continuation` |

The invariant follows the token in flight. `Passed(l, s)` says that the token has
left stage *s* of layer *l* behind; a history or a ring is of the text with the
token from then on, and of the text without it until then; and the row that the
stages hand on is of the whole text. `SlotsDiffer` is the arithmetic of the ring:
two positions of one window never fall on one slot. `WindowIsMask` says that
the rows it holds are those of the mask of the complete-prefix path.
A sequence that failed is not `valid`, and a reset is right although it
does not clear the rings: no window reaches a slot that has not been stored since.

### GenerateProofs

| theorem | says |
|---|---|
| `SamplerIsRight` | `Sample` is `Called`, for every row of integers, temperature, `top_k`, `top_p` and word |
| `Invariance` | the inductive invariant of the loop |
| `OutputOfRequestAlone`, `BufferSuffices`, `ContextKeepsUp` | the invariants of the run |
| `StopsWithoutForward` | `NoExtraForward` |

`SamplerIsRight` is about values and not about a run. `inkling_sample` goes through a
ranked array with running sums; `Called` speaks of tokens and sets of tokens. The
ranking translates one into the other (`Translation`): the tokens that are ahead
of the token at place *i* are those at the places before *i*, and what they
weigh is what the running sum has reached there. Ties, masses of zero, the edge
of the nucleus and the fallback to the last candidate are cases of this.

In the loop, the buffer holds the prompt and the tokens of this call up to
its count, the context continues all of them but the last one, or all of them before
a draw, and the RNG has been advanced once per token, or never if the request is
greedy; whatever the buffer held before, from an earlier and longer call, is
behind that count.

### PublicationProofs

For any number of runs, paths and choices of destinations:

| theorem | says |
|---|---|
| `Invariance` | the inductive invariant |
| `WholeAtEveryInstant`, `ReportComesLast`, `StatusIsTrue`, `NothingLeftBehind` | the invariants of the run |

The four follow from one invariant about how far each run has come in its
program: a file it was asked for is behind its write, before its rename or behind
it, and temporary file, flags and history agree with that. Only the destinations
are shared, and about these the invariant says two things that no other run can
disturb: what is there is whole, and a run that was asked to put it there did.

### RangeStoreProofs

For every set of chunks, every script of a layer and every budget:

| theorem | says |
|---|---|
| `Invariance` | the inductive invariant |
| `PayloadsPrecedeRecords`, `BudgetKept` | the invariants of the run |
| `RunsResume` | `Resumes` |

The budget is tested when a chunk is asked for, and what is recorded changes
later: the invariant carries the test from the request to the record, through
retries. It also ties what a run has in memory to the manifest of its layer, since
another layer's chunks count against the same budget.

### ModelProofs

The first part is about `Catalogue`. For every index, every hash function, every set of headers and every pinned
checkpoint under `CatalogueAssumption`:

| theorem | says |
|---|---|
| `Invariance` | the inductive invariant |
| `LookupIsRight`, `BindIsAtomic`, `ReadyCatalogueIsWhole`, `WhatIsVerifiedLoads` | the invariants of the run |

- `Table`: every entry is `Reachable`, which means that no slot on the way of
  its probing is empty. Insertion fills an empty slot and leaves the others' ways
  as they were or fuller. That probing ends is a pigeonhole: the table has twice as many slots as
  names, and the proof needs one more (`FreeSlot`, `RoomForNext`).
- `ReadyIsWhole` joins three facts. Sorted ranges that do not overlap and whose
  lengths add up to the payload cover it (`CoveredOnce`); every entry of
  a shard is bound once its header was accepted (`ShardIsCovered`); the loop has
  gone through all the shards (`Finished`).
- `VerifiedLoads` needs what verification saw of shards it will not read again
  (`Seen`, `Verified`), and that a header it compared fits the entries
  (`ComparedFits`, `FitsCompared`): two readings by two rules.

The second part is about `Session`. For every set of contexts, every set of ways to
open a model (any configuration of naturals, valid or not, any number of shards,
extracted or whole, any packed matrices, with a trunk or without) and every set of
options under `SessionAssumption`:

| theorem | says |
|---|---|
| `RowsAreTogether` | `RowsTogether`, from the inductive invariant `SInv` |
| `OpenPlan` | every way to open a model is planned |
| `HeapIsAccounted` | `HeapAccounted`, from the inductive invariant `HInv` |

A call is a list of items, `todo`, and what an invariant must know in the middle of
one is what the items that are left will do. Neither invariant says it item by
item.

- For `RowsTogether` the rest of a call is `Steady` (no item concerns the rows, not
  even when it fails) or `Reserving`: allocations that fail without a loss, one
  exchange of all nine rows, then steady items. The same lemma is proved of every
  list the calls are put together from (`SteadyJoin`, `SteadyFlatten` and those
  named `Idle...`). The rest is in `Staged` and `Sane`: contexts live on a model that is
  live, and a model that is live has a valid configuration, because the open of
  one that is not valid has an item ahead that cannot succeed (`Stops`). A valid
  configuration has widths that are not zero, so that rows for another number of
  tokens are other blocks.
- For `HeapAccounted`, `Plan(w, s, A, B, F)` says that the items *s* of owner *w*
  begin with the loose blocks *A* and end with *B*, that each one frees exactly
  the blocks that are loose where it fails, that what it puts into a field is
  loose by then, and that no two of them fill the same field out of *F*. Plans
  join if their fields differ (`PlanJoin`, `PlanMany`), so `OpenPlan`,
  `CreatePlan` and `GenerationPlan` are put together as the functions of the code
  are: a matrix, a layer, all layers, the checkpoint. `HInv` says that what is left of a
  call is planned from what is loose now (`Straight`), or is what is left of a
  reservation (`Broken`), whose nine new rows are the loose blocks and whose exchange
  swaps them for the rows that are held. A generation that was begun is whole
  (`Begun`), which is why preparing it a second time allocates nothing. With the
  plan used up nothing is loose, and an item that fails frees all that is.

### PackedTrunkProofs

For every number of packers, tensors and revisions, and every assignment of
ranges and headers, under `PackedAssumption`:

| theorem | says |
|---|---|
| `Invariance` | the inductive invariant |
| `TypeCorrect`, `WholeDestination`, `IntactSource` | types; the path never names an unfinished trunk; no shard is destroyed |
| `StaleTrunkRefused` | `NeverStale` |
| `PinnedReads` | an open model reads what it validated, or fails |

`IInv` says how far each packer has come and what its file holds by then, that
the file of a packer that is done is not changed by anyone but truncation and
damage, what a model has verified at each stage, and, for `NeverStale`,
`Fresh(p)`: a packer whose identity is that of its catalogue has copied from
shards at least as new as that, and shards never go back. If the checkpoint is at
rest at that same revision when a model compares the metadata, nothing newer can
have been copied. That argument is where the assumption on the environment enters
(section 8). `Frame`, `Aging` and `ModelFrame` carry the parts that an action
leaves alone.

The second part is about `TensorReads`, for every list of ranges, every order in
which it may be sorted, every size, word and chunk under `ReadAssumption`:

| theorem | says |
|---|---|
| `NoneOverlap` | if no two neighbours of a sorted list overlap, no two ranges do |
| `ReadInvariance` | the inductive invariant of a read |
| `ReadsAreExact` | `ReadExact` |

A byte is in one range of the table at most (`OneHas`), so the range the binary search
ends at is the only one that can have it (`SearchIsMonotonic`, `SearchEnds`), and
the pass over extracted ranges may go through the list once: what a range
passed has lies before the byte that is wanted next. `FlattenedAt` is about the
file of the trunk: the payload of a range is behind the lengths of those before
it, hence what a `pread` gives is what the shard has (`TrunkBytesAre`). `BoundsAre`
is about the checks of a call: written without a sum that could wrap, they say
that the part lies in the tensor and the tensor in its shard.

### Only model-checked

- Liveness (`CallsReturn`, `RunEnds`): fairness and ENABLED are out of the
  prover's reach.
- `JsonParser` and `JsonText`: they use recursive operators, and what a recursive
  definition computes for every input needs induction over data.
- `AccessesFit` of `Session`: it compares products of the dimensions of a
  configuration, element by element of some sixty buffers, and is left to TLC.

## 7. The finding

`packed_trunk_race` shows that `tools/pack_trunk.py` does not always keep what
its message at line 210 says, "source metadata changed during packing". It
reads the index and the shard headers (line 161) *before* it takes the first
identity of the metadata (line 168). If a new revision of the metadata arrives
between the two, both identities are of the new one, the comparison passes, and a
trunk is put in place that has the new identity and the ranges of the old
catalogue. The model's own range check at open catches this if the ranges
differ. Taking the identity before the catalogue closes the window. The other
invariants of the same module hold with the race in it.

## 8. Assumptions

- A checkpoint is not changed while a model reads shards from it
  (`docs/MEMORY.md`), and not between its verification and its load. Native
  reads open a shard by its path each time (`src/model/inkling_bind.c:84`), so a
  shard that is replaced meanwhile is read with the ranges of the old header;
  that is outside this contract, and only the packed trunk pins its file.
  `PackedTrunk` drops the assumption and assumes that revisions only go up,
  shards replaced before the metadata.
- Masses of the sampler are exact numbers.
- Sizes do not overflow `size_t`: in `Session` they are products of small
  numbers. Calls on a model and its contexts do not overlap, and contexts are
  freed before their model is closed (`include/inkling/inkling_model.h`).
- `mkstemp` and the temporary files of Python never give out a name twice;
  `rename` and `os.replace` are atomic. Loss of a machine's power is not
  modelled, only loss of processes.
- SHA-256 tells apart the revisions and payloads that the models tell apart.
- `qsort` gives some sorted order; a hash is any function of names.
- A context is used by one thread at a time, as its header requires.
- One range fetcher works on a store at a time.
- What is computed at a position is a function of the tokens up to it.

The constants carry named assumptions, which TLC evaluates in every run and on which
the proofs rest. They say what the constants are, and nothing about what the code
does with them:

- `Zero`, `Garbage` and `Broken` are values that are no text; `Unbound` and
  `Missing` are no header and no range; `before` is no run.
- `StoreAssumption`: chunks are finitely many and have a size, and a chunk in the script of
  a layer is of that layer.
- `SamplerAssumption`, and `Weighable` in `GenerateAssumption`: logits, weights,
  thresholds and draws are whole numbers, no weight is negative and that of the best
  token is not zero.
- `CatalogueAssumption`: documents and headers have the fields that the parsers
  check, the numbers of slots to choose from contain one that is at least
  twice the length of each index, as powers of two do, and the pinned shards
  have different names, the MTP shard being the last.
- `ReadAssumption`: numbers of calls are values of a `uint64_t`, a shard is shorter
  than the largest of them, and a `pread` is asked for one byte at least.

## 9. What is not modelled

- **Arithmetic of kernels, number formats, reference implementations**:
  floating point is out of TLC's reach. The control that matters (the shift of
  a history, the tiles of a product) is where it is used.
- **Rounding in the sampler**: `exp`, the sums of masses and the comparison with
  `top_p` are in floating point in the code. `parse_decimal` is text to double.
- **Single fields**: reading of JSON fields in `inkling_config.c`, the constants
  of `config.json` and `hf_quant_config.json` that `inkling_verify.c` compares, the
  quantization metadata and the payloads of scalars in `inkling_bind.c`. They are
  straight-line comparisons without state; `Session` has each as a test that
  may fail, `Catalogue` has those on which the load depends.
- **Verification of headers apart from their shards** (`metadata_only`, as used
  before a layer is opened out of extracted ranges): `Session` has it as a
  precondition. `VerifiedLoads` is about whole checkpoints only; `load_shards`
  asks for a header of every shard in the index there, the MTP shard included.
- **Overflow checks of `inkling_alloc.c`**, inspection and the printing of a
  verification.
- **Metadata and fixture fetchers, emitters, check tools**: one-shot programs that
  validate before they write; the request and the atomic write they share with
  the range store are in `RangeStore`.

Parts left out of modelled components are named in the notes of
`PROJECT.json` and in the comment at the head of each module.

## 10. Running it

    tlc -workers 2 -config ExpertCache.cfg MCExpertCache.tla
    tlapm ExpertCacheProofs.tla

and likewise for the others; `PROJECT.json` ("runs") pairs modules with
configurations. No run takes longer than a few minutes on two workers.
