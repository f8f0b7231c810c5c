----------------------------- MODULE ExpertCache ------------------------------
(***************************************************************************)
(* One context's weight projection and its expert cache                    *)
(* (src/model/inkling_project.c): inkling_project with cached_expert,      *)
(* promote, the eviction loop, the two reads that fill an entry, tiled     *)
(* streaming through the shared weight buffer, and the counters.           *)
(*                                                                         *)
(* A call runs to completion on one thread, but almost every line of it    *)
(* can end it: an allocation or a read may fail between two changes of the *)
(* list.  The model therefore makes each of those points a state.          *)
(*                                                                         *)
(* Weights are abstract.  A buffer is either Garbage or holds the bytes of *)
(* a projection, or one tile of them; the kernel's numbers are left out.   *)
(* The argument checks of inkling_project (168-178) return before any      *)
(* change of state, and the products of 115-118 were already computed      *)
(* without overflow when the matrix was bound, so neither has an action.   *)
(***************************************************************************)
EXTENDS Integers, Sequences

CONSTANTS
  Routed,    (* routed NVFP4 projections: pairs (matrix, expert)           *)
  Unrouted,  (* every other projection; inkling_project serves them too    *)
  Scaled,    (* the NVFP4 ones, which have a block of scales to read       *)
  Charge,    (* sizeof(struct InklingExpertCache) + payload, per routed    *)
  Capacity,  (* expert_cache_capacity                                      *)
  Tiles,     (* weight-buffer tiles that cover a projection's rows         *)
  MaxCount,  (* stands for UINT64_MAX, at which the counters saturate      *)
  Garbage,   (* unread or partly read memory                               *)
  NoKey      (* no projection                                              *)

Keys == Routed \cup Unrouted

ASSUME ConstantsOK ==
  /\ Scaled \subseteq Keys /\ Routed \subseteq Scaled
  /\ Charge \in [Routed -> Nat \ {0}]
  /\ Capacity \in Nat
  /\ Tiles \in [Keys -> Nat \ {0}]
  /\ MaxCount \in Nat
  /\ Garbage \notin Keys /\ NoKey \notin Keys

VARIABLES
  lru,      (* the entries, newest first: [key, data, scales]              *)
  bytes,    (* stats.cache_bytes                                           *)
  peak,     (* stats.cache_peak_bytes                                      *)
  count,    (* the other counters                                          *)
  heap,     (* bytes of live cache allocations, published or not           *)
  pc,       (* where the call in progress is                               *)
  key,      (* the projection it asks for                                  *)
  fill,     (* payload of the entry being filled: [data, scales]           *)
  hit,      (* cached_data is set: rows come from the head entry           *)
  tile,     (* current tile                                                *)
  scratch   (* context->weights: [data, scales] of the last tile read      *)

stats == <<bytes, peak, count>>
vars == <<lru, stats, heap, pc, key, fill, hit, tile, scratch>>

Counters == {"hits", "misses", "evictions", "readCalls", "bytesRead"}

Places == {"idle", "lookup", "room", "fillData", "fillScales",
           "tileData", "tileScales", "multiply"}

Blank == [data |-> Garbage, scales |-> Garbage]

\* Mutant: a counter without its saturation.
IncrementUnbounded(n) == n + 1

\* increment(): saturating.
Increment(n) == IF n < MaxCount THEN n + 1 ELSE MaxCount

Bump(c, names) == [n \in Counters |-> IF n \in names THEN Increment(c[n]) ELSE c[n]]

\* inkling_context_read: every call counts, only a good one adds its bytes.
CountRead(ok) == count' = Bump(count, {"readCalls"} \cup (IF ok THEN {"bytesRead"} ELSE {}))

\* Mutant: a first-in first-out cache.
PromoteNothing(s, i) == s

\* promote(): entry i becomes the newest and the others keep their order.
Promote(s, i) == <<s[i]>> \o SubSeq(s, 1, i - 1) \o SubSeq(s, i + 1, Len(s))

\* Position of the first entry the list walk of cached_expert stops at.
FoundAt(i) ==
  /\ i \in 1..Len(lru)
  /\ lru[i].key = key
  /\ \A j \in 1..(i - 1) : lru[j].key # key

Absent == \A i \in 1..Len(lru) : lru[i].key # key

Init ==
  /\ lru = <<>> /\ bytes = 0 /\ peak = 0 /\ heap = 0
  /\ count = [n \in Counters |-> 0]
  /\ pc = "idle" /\ key = NoKey
  /\ fill = Blank /\ hit = FALSE /\ tile = 1
  /\ scratch = Blank

Return ==
  /\ pc' = "idle" /\ key' = NoKey
  /\ fill' = Blank /\ hit' = FALSE /\ tile' = 1

-------------------------------------------------------------------------------
\* inkling_project begins; only routed NVFP4 matrices consult the cache.
Project(k) ==
  /\ pc = "idle"
  /\ key' = k
  /\ pc' = IF k \in Routed THEN "lookup" ELSE "tileData"
  /\ UNCHANGED <<lru, stats, heap, fill, hit, tile, scratch>>

Hit ==
  /\ pc = "lookup"
  /\ \E i \in 1..Len(lru) : FoundAt(i) /\ lru' = Promote(lru, i)
  /\ count' = Bump(count, {"hits"})
  /\ hit' = TRUE /\ pc' = "multiply"
  /\ UNCHANGED <<bytes, peak, heap, key, fill, tile, scratch>>

\* A miss; a projection larger than the whole cache is streamed.
Miss ==
  /\ pc = "lookup" /\ Absent
  /\ count' = Bump(count, {"misses"})
  /\ pc' = IF Charge[key] > Capacity THEN "tileData" ELSE "room"
  /\ UNCHANGED <<lru, bytes, peak, heap, key, fill, hit, tile, scratch>>

\* Mutant: room is made for what is there already.
NeedsRoomWithoutNewcomer == bytes > Capacity

NeedsRoom == bytes > Capacity - Charge[key]

\* Mutant: the loop stays where it is.
EvictNothing ==
  /\ pc = "room" /\ NeedsRoom
  /\ count' = Bump(count, {"evictions"})
  /\ UNCHANGED <<lru, bytes, peak, heap, pc, key, fill, hit, tile, scratch>>

\* One turn of the eviction loop: unlink, account for and free the tail.
Evict ==
  /\ pc = "room" /\ NeedsRoom
  /\ LET tail == lru[Len(lru)].key IN
       /\ bytes' = bytes - Charge[tail]
       /\ heap' = heap - Charge[tail]
  /\ lru' = SubSeq(lru, 1, Len(lru) - 1)
  /\ count' = Bump(count, {"evictions"})
  /\ UNCHANGED <<peak, pc, key, fill, hit, tile, scratch>>

\* malloc succeeds, or fails and the call falls back to streaming.
Allocate ==
  /\ pc = "room" /\ ~NeedsRoom
  /\ heap' = heap + Charge[key]
  /\ fill' = Blank
  /\ pc' = "fillData"
  /\ UNCHANGED <<lru, stats, key, hit, tile, scratch>>

AllocateFails ==
  /\ pc = "room" /\ ~NeedsRoom
  /\ pc' = "tileData"
  /\ UNCHANGED <<lru, stats, heap, key, fill, hit, tile, scratch>>

FillData ==
  /\ pc = "fillData"
  /\ CountRead(TRUE)
  /\ fill' = [fill EXCEPT !.data = key]
  /\ pc' = "fillScales"
  /\ UNCHANGED <<lru, bytes, peak, heap, key, hit, tile, scratch>>

\* Mutant: the entry is not freed when a read fails.
FillFailsLeaks ==
  /\ pc \in {"fillData", "fillScales"}
  /\ CountRead(FALSE)
  /\ Return
  /\ UNCHANGED <<lru, bytes, peak, heap, scratch>>

\* Either read of the payload fails: the entry is freed and so is the call.
FillFails ==
  /\ pc \in {"fillData", "fillScales"}
  /\ CountRead(FALSE)
  /\ heap' = heap - Charge[key]
  /\ Return
  /\ UNCHANGED <<lru, bytes, peak, scratch>>

\* Mutant: the entry is linked in before its scales are read.
PublishUnread ==
  /\ pc = "fillScales"
  /\ lru' = <<[key |-> key, data |-> fill.data, scales |-> fill.scales]>> \o lru
  /\ bytes' = bytes + Charge[key]
  /\ peak' = IF bytes' > peak THEN bytes' ELSE peak
  /\ fill' = Blank
  /\ hit' = TRUE /\ pc' = "multiply"
  /\ UNCHANGED <<count, heap, key, tile, scratch>>

\* The second read succeeds and the entry is linked in at the head.
Publish ==
  /\ pc = "fillScales"
  /\ CountRead(TRUE)
  /\ lru' = <<[key |-> key, data |-> fill.data, scales |-> key]>> \o lru
  /\ bytes' = bytes + Charge[key]
  /\ peak' = IF bytes' > peak THEN bytes' ELSE peak
  /\ fill' = Blank
  /\ hit' = TRUE /\ pc' = "multiply"
  /\ UNCHANGED <<heap, key, tile, scratch>>

-------------------------------------------------------------------------------
\* Mutant: the scales of the tile are not read.
TileDataOnly ==
  /\ pc = "tileData"
  /\ CountRead(TRUE)
  /\ scratch' = [scratch EXCEPT !.data = <<key, tile>>]
  /\ pc' = "multiply"
  /\ UNCHANGED <<lru, bytes, peak, heap, key, fill, hit, tile>>

\* Streaming: the data block of a tile, then its scales, into one buffer.
TileData ==
  /\ pc = "tileData"
  /\ CountRead(TRUE)
  /\ scratch' = [data |-> <<key, tile>>, scales |-> Garbage]
  /\ pc' = IF key \in Scaled THEN "tileScales" ELSE "multiply"
  /\ UNCHANGED <<lru, bytes, peak, heap, key, fill, hit, tile>>

TileScales ==
  /\ pc = "tileScales"
  /\ CountRead(TRUE)
  /\ scratch' = [scratch EXCEPT !.scales = <<key, tile>>]
  /\ pc' = "multiply"
  /\ UNCHANGED <<lru, bytes, peak, heap, key, fill, hit, tile>>

TileFails ==
  /\ pc \in {"tileData", "tileScales"}
  /\ CountRead(FALSE)
  /\ scratch' = Blank
  /\ Return
  /\ UNCHANGED <<lru, bytes, peak, heap>>

\* What the matrix-vector kernel is handed for the current tile.
Operand ==
  IF hit THEN [data   |-> <<lru[1].data, tile>>,
               scales |-> <<lru[1].scales, tile>>]
         ELSE scratch

\* One kernel call; the last tile ends the projection.
Multiply ==
  /\ pc = "multiply"
  /\ IF tile = Tiles[key]
       THEN Return
       ELSE /\ tile' = tile + 1
            /\ pc' = IF hit THEN "multiply" ELSE "tileData"
            /\ UNCHANGED <<key, fill, hit>>
  /\ UNCHANGED <<lru, stats, heap, scratch>>

\* The kernel rejects a non-finite operand or result.
MultiplyFails ==
  /\ pc = "multiply"
  /\ Return
  /\ UNCHANGED <<lru, stats, heap, scratch>>

\* inkling_context_reset_stats, between calls.
ResetStats ==
  /\ pc = "idle"
  /\ count' = [n \in Counters |-> 0]
  /\ peak' = bytes
  /\ UNCHANGED <<lru, bytes, heap, pc, key, fill, hit, tile, scratch>>

Lookup == Hit \/ Miss
MakeRoom == Evict \/ Allocate \/ AllocateFails
Fill == FillData \/ FillFails \/ Publish
Stream == TileData \/ TileScales \/ TileFails
Kernel == Multiply \/ MultiplyFails

\* The steps a call in progress takes by itself.
Step == Lookup \/ MakeRoom \/ Fill \/ Stream \/ Kernel

Next == (\E k \in Keys : Project(k)) \/ ResetStats \/ Step

Spec == Init /\ [][Next]_vars
FairSpec == Spec /\ WF_vars(Step)
-------------------------------------------------------------------------------
KeysOf(s) == {s[i].key : i \in 1..Len(s)}

Entries == [key : Routed, data : Keys \cup {Garbage}, scales : Keys \cup {Garbage}]
Buffer == (Keys \X Nat) \cup {Garbage}

\* Every variable keeps its type; a call in progress names a projection, and
\* only a routed one is looked up, made room for or read into an entry.
TypeOK ==
  /\ lru \in Seq(Entries)
  /\ bytes \in Nat /\ peak \in Nat /\ heap \in Nat
  /\ count \in [Counters -> 0..MaxCount]
  /\ pc \in Places
  /\ key \in (IF pc = "idle" THEN {NoKey}
              ELSE IF pc \in {"lookup", "room", "fillData", "fillScales"} THEN Routed
              ELSE Keys)
  /\ fill \in [data : Keys \cup {Garbage}, scales : {Garbage}]
  /\ hit \in BOOLEAN
  /\ tile \in Nat \ {0}
  /\ scratch \in [data : Buffer, scales : Buffer]

\* The entries of s weigh n bytes: total[i] is what its first i entries weigh.
Weighs(s, n) ==
  \E total \in [0..Len(s) -> 0..Capacity] :
    /\ total[0] = 0 /\ total[Len(s)] = n
    /\ \A i \in 1..Len(s) : total[i] = total[i - 1] + Charge[s[i].key]
    /\ \A i, j \in 0..Len(s) : i <= j => total[i] <= total[j]

Pending == IF pc \in {"fillData", "fillScales"} THEN Charge[key] ELSE 0

\* cache_bytes is exactly what the linked entries weigh, and what is allocated
\* is exactly that plus the one entry being filled: no path through evictions,
\* failed allocations and failed reads leaks an entry or counts it twice.
Accounted == Weighs(lru, bytes) /\ heap = bytes + Pending

\* "The byte limit includes every requested byte in cache allocations": it
\* holds at every instant, while an entry is allocated and not yet published,
\* and the reported peak is never below the current use nor above the limit.
WithinLimit == heap <= Capacity /\ bytes <= peak /\ peak <= Capacity

\* The eviction loop dereferences the tail without testing it: whenever it
\* needs room there is an entry to evict.
VictimExists == pc = "room" /\ NeedsRoom => lru # <<>>

\* A projection is resident once at most, and a linked entry holds all of its
\* data and all of its scales: a failed read never publishes an entry.
EntriesIntact ==
  /\ \A i, j \in 1..Len(lru) : lru[i].key = lru[j].key => i = j
  /\ \A i \in 1..Len(lru) : lru[i].data = lru[i].key /\ lru[i].scales = lru[i].key

\* The kernel multiplies by the very rows the caller asked for, whether they
\* come from an entry or from the shared buffer that earlier calls, tiles and
\* failed reads have left something in.
KernelGetsItsTile ==
  pc = "multiply" =>
    /\ Operand.data = <<key, tile>>
    /\ key \in Scaled => Operand.scales = <<key, tile>>

\* Weight bytes are read only for a projection that is not resident.
ReadsOnlyWhenAbsent ==
  pc \in {"fillData", "fillScales", "tileData", "tileScales"} => key \notin KeysOf(lru)

\* Counters saturate; nothing but a reset of the statistics lowers one.
CountersOnlyGrow == [][ResetStats \/ \A n \in Counters : count'[n] >= count[n]]_count

\* Every call returns: in particular the eviction loop ends.
CallsReturn == pc # "idle" ~> pc = "idle"
===============================================================================
