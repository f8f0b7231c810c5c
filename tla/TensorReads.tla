----------------------------- MODULE TensorReads ------------------------------
(***************************************************************************)
(* inkling_model_read(): the bytes of a tensor come from the packed trunk, *)
(* from the original shard or from extracted ranges.                       *)
(*                                                                         *)
(* A packed trunk (src/model/inkling_packed.c) and a manifest of extracted *)
(* ranges (load_manifest() of src/model/inkling_bind.c) both list ranges   *)
(* of shard payloads in an order of their own.  At open the list is sorted *)
(* and refused if ranges overlap; a read finds its range by binary search  *)
(* in the trunk and by one pass over the extracted ranges.  The two are    *)
(* never selected together.                                                *)
(*                                                                         *)
(* A byte is the place in the original shard that it was copied from.      *)
(* Every shard has a payload of Size bytes; Word is the number of values   *)
(* of a uint64_t.                                                          *)
(***************************************************************************)
EXTENDS Integers, Sequences, FiniteSets, SequencesExt, FiniteSetsExt, Functions

CONSTANTS
  Shards,     (* numbers of the shards                                     *)
  Size,       (* bytes of the payload of each shard                        *)
  Word,       (* a uint64_t is less than this                              *)
  Chunk,      (* the most that one pread() is asked for: 1 MiB             *)
  Listings,   (* what a trunk or a manifest lists: Seq([shard, start, bytes]) *)
  Requests    (* the reads: [shard, start, bytes, relative, wanted]        *)

Listing == [shard : Nat, start : Nat, bytes : Nat]
Unsigned == 0..Word - 1
Request == [shard : Nat, start : Unsigned, bytes : Unsigned, relative : Unsigned,
            wanted : Unsigned]

ASSUME ReadAssumption ==
  /\ Shards \subseteq Nat /\ Size \in Nat /\ Word \in Nat /\ Size < Word
  /\ Chunk \in Nat \ {0}
  /\ Listings \subseteq Seq(Listing) /\ Requests \subseteq Request

VARIABLES
  backing,    (* "packed" or "extracted"                                   *)
  listed,     (* the ranges in the order of the file                       *)
  table,      (* the sorted ranges, each with its place in listed          *)
  stage,      (* what is done next                                         *)
  request,    (* the arguments of the call                                 *)
  low, high,  (* the bounds of the binary search                           *)
  next,       (* the extracted range that is looked at next                *)
  start,      (* the next byte of the shard that is wanted                 *)
  output,     (* what the destination has so far                           *)
  answer      (* [from, bytes] of the last call                            *)

readVars == <<backing, listed, table, stage, request, low, high, next, start, output, answer>>
opened == <<backing, listed, table>>

Nobody == [shard |-> 0, start |-> 0, bytes |-> 0, relative |-> 0, wanted |-> 0]
NoAnswer == [from |-> "none", bytes |-> <<>>]
Answer(from, bytes) == [from |-> from, bytes |-> bytes]

ReadInit ==
  /\ backing \in {"packed", "extracted"} /\ listed \in Listings
  /\ table = <<>> /\ stage = "closed"
  /\ request = Nobody /\ low = 0 /\ high = 0 /\ next = 1 /\ start = 0
  /\ output = <<>> /\ answer = NoAnswer

\* The bytes that the original shard has from `first` on.
Original(shard, first, count) == [k \in 1..count |-> <<shard, first + k - 1>>]

-------------------------------------------------------------------------------
\* compare_ranges() and compare_blobs().
NotAfter(r, t) == r.shard < t.shard \/ (r.shard = t.shard /\ r.start <= t.start)

\* qsort(): equal ranges may come in any order.
Sorted ==
  {order \in Bijection(DOMAIN listed, DOMAIN listed) :
     \A k \in 1..Len(listed) - 1 : NotAfter(listed[order[k]], listed[order[k + 1]])}

Overlapping(order) ==
  \E k \in 1..Len(listed) - 1 :
    LET r == listed[order[k]]
        t == listed[order[k + 1]]
    IN r.shard = t.shard /\ t.start - r.start < r.bytes

\* Every range lies in a tensor; the file of an extracted range is not empty.
WellListed ==
  \A k \in DOMAIN listed :
    /\ listed[k].start + listed[k].bytes <= Size
    /\ backing = "extracted" => listed[k].bytes > 0

\* inkling_packed_open() and load_manifest(), from the list on.
Open ==
  /\ stage = "closed"
  /\ \E order \in Sorted :
       IF WellListed /\ ~Overlapping(order)
         THEN /\ table' = [k \in DOMAIN listed |->
                             [range |-> listed[order[k]], place |-> order[k]]]
              /\ stage' = "idle"
         ELSE stage' = "refused" /\ UNCHANGED table
  /\ UNCHANGED <<backing, listed, request, low, high, next, start, output, answer>>

\* The file behind a range: its own, or a part of the payload of the trunk.
TrunkPayload ==
  FlattenSeq([k \in DOMAIN listed |->
                Original(listed[k].shard, listed[k].start, listed[k].bytes)])
Lengths == [k \in DOMAIN listed |-> listed[k].bytes]
Destination(place) == MapThenSumSet(LAMBDA k : Lengths[k], 1..place - 1)
TrunkBytes(place, within, count) ==
  SubSeq(TrunkPayload, Destination(place) + within + 1, Destination(place) + within + count)
BlobBytes(place, within, count) ==
  Original(listed[place].shard, listed[place].start + within, count)

-------------------------------------------------------------------------------
\* The bounds of a call, in the unsigned arithmetic of the code.
InBounds(r) ==
  /\ r.shard \in Shards
  /\ r.relative <= r.bytes
  /\ r.wanted <= (r.bytes - r.relative) % Word
  /\ r.start <= Word - 1 - r.bytes
  /\ (r.start + r.bytes) % Word <= Size

Finish(a) ==
  /\ answer' = a /\ stage' = "answered"
  /\ UNCHANGED <<opened, request, low, high, next, start, output>>

Read ==
  /\ stage = "idle"
  /\ \E r \in Requests :
       /\ request' = r
       /\ \/ ~InBounds(r) /\ stage' = "invalid" /\ UNCHANGED <<high, start>>
          \/ InBounds(r) /\ r.wanted = 0 /\ stage' = "nothing" /\ UNCHANGED <<high, start>>
          \/ /\ InBounds(r) /\ r.wanted > 0
             /\ stage' = (IF backing = "packed" THEN "search" ELSE "collect")
             /\ high' = Len(table) /\ start' = (r.start + r.relative) % Word
  /\ UNCHANGED <<opened, low, next, output, answer>>

Return ==
  /\ stage \in {"invalid", "nothing"}
  /\ Finish(IF stage = "invalid" THEN Answer("error", <<>>) ELSE Answer("nothing", <<>>))

\* The caller is done with the answer.
Forget ==
  /\ stage = "answered"
  /\ stage' = "idle" /\ answer' = NoAnswer
  /\ request' = Nobody /\ low' = 0 /\ high' = 0 /\ next' = 1 /\ start' = 0 /\ output' = <<>>
  /\ UNCHANGED opened

Middle == low + (high - low) \div 2

\* Whether the search goes on behind this range.
GoesRight(r) ==
  r.shard < request.shard \/ (r.shard = request.shard /\ r.start <= start)

\* inkling_packed_read(), one turn of the binary search; the table is counted
\* from 0 there.
Halve ==
  /\ stage = "search" /\ low < high
  /\ IF GoesRight(table[Middle + 1].range)
       THEN low' = Middle + 1 /\ UNCHANGED high
       ELSE high' = Middle /\ UNCHANGED low
  /\ UNCHANGED <<opened, stage, request, next, start, output, answer>>

\* The search has ended: the range before `low` has the byte, or none has.
Handled ==
  /\ low > 0
  /\ table[low].range.shard = request.shard
  /\ start >= table[low].range.start
  /\ start - table[low].range.start < table[low].range.bytes

Remaining == request.wanted - Len(output)

\* The range has the first byte that is wanted; it must have the last one too.
FromTrunk ==
  /\ stage = "search" /\ low = high /\ Handled
  /\ LET available == table[low].range.bytes - (start - table[low].range.start)
     IN IF request.wanted > available THEN Finish(Answer("error", <<>>))
        ELSE /\ stage' = "pread"
             /\ UNCHANGED <<opened, request, low, high, next, start, output, answer>>

\* Mutant: the offset stays when a pread() gives less than it was asked for.
PositionStays == start - table[low].range.start

\* Where the next byte is in the range: behind all that was read so far.
Position == start - table[low].range.start + Len(output)

\* positional_read(): a pread() of at most a chunk gives as much as it likes.
Pread ==
  /\ stage = "pread" /\ Remaining > 0
  /\ \E got \in 1..Min({Chunk, Remaining}) :
       output' = output \o TrunkBytes(table[low].place, Position, got)
  /\ UNCHANGED <<opened, stage, request, low, high, next, start, answer>>

\* EINTR: the same pread() once more.
PreadInterrupted == stage = "pread" /\ Remaining > 0 /\ UNCHANGED readVars

PreadDone ==
  /\ stage = "pread" /\ Remaining = 0
  /\ Finish(Answer("trunk", output))

FromShard ==
  /\ stage = "search" /\ low = high /\ ~Handled
  /\ Finish(Answer("shard", Original(request.shard, start, request.wanted)))

Take(available) == Min({available, Remaining})

\* One turn of the pass over the extracted ranges.
Collect ==
  /\ stage = "collect" /\ Remaining > 0 /\ next <= Len(table)
  /\ LET r == table[next].range
         offset == start - r.start
         take == Take(r.bytes - offset)
     IN IF r.shard = request.shard /\ start >= r.start /\ offset < r.bytes
          THEN /\ output' = output \o BlobBytes(table[next].place, offset, take)
               /\ start' = start + take
          ELSE UNCHANGED <<output, start>>
  /\ next' = next + 1
  /\ UNCHANGED <<opened, stage, request, low, high, answer>>

Collected ==
  /\ stage = "collect" /\ (Remaining = 0 \/ next > Len(table))
  /\ Finish(IF Remaining = 0 THEN Answer("blobs", output) ELSE Answer("error", <<>>))

\* A file cannot be opened or is too short; pread() fails or is at the end.
IoFails ==
  /\ stage \in {"search", "collect", "pread"}
  /\ stage = "search" => low = high /\ ~Handled
  /\ stage = "pread" => Remaining > 0
  /\ Finish(Answer("io", <<>>))

ReadNext ==
  \/ Open \/ Read \/ Return \/ Forget \/ Halve \/ FromTrunk \/ FromShard
  \/ Pread \/ PreadInterrupted \/ PreadDone
  \/ Collect \/ Collected \/ IoFails

ReadSpec == ReadInit /\ [][ReadNext]_readVars
-------------------------------------------------------------------------------
Covers(k, shard, byte) ==
  /\ listed[k].shard = shard
  /\ byte \in listed[k].start..listed[k].start + listed[k].bytes - 1

\* What a read has to give, of the list as it stands in the file.
Reference(r) ==
  LET first == r.start + r.relative
      wanted == first..first + r.wanted - 1
      holders == {k \in DOMAIN listed : Covers(k, r.shard, first)}
      whole == \E k \in holders : \A b \in wanted : Covers(k, r.shard, b)
      pieces == \A b \in wanted : \E k \in DOMAIN listed : Covers(k, r.shard, b)
      from == IF backing = "extracted" THEN (IF pieces THEN "blobs" ELSE "error")
              ELSE IF holders = {} THEN "shard" ELSE IF whole THEN "trunk" ELSE "error"
  IN IF r.shard \notin Shards \/ r.relative + r.wanted > r.bytes \/ r.start + r.bytes > Size
       THEN Answer("error", <<>>)
     ELSE IF r.wanted = 0 THEN Answer("nothing", <<>>)
     ELSE Answer(from, IF from = "error" THEN <<>> ELSE Original(r.shard, first, r.wanted))

\* However the ranges are listed and sorted, a read that meets no I/O error gives
\* the original bytes of the tensor, from the trunk whenever the trunk holds them
\* ("instead of falling back to native trunk bytes", docs/MEMORY.md) and across
\* all the extracted ranges that hold them, and fails if they are nowhere.
ReadExact == stage = "answered" /\ answer.from # "io" => answer = Reference(request)
===============================================================================
