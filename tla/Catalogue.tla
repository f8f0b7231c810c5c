------------------------------ MODULE Catalogue -------------------------------
(***************************************************************************)
(* The tensor catalogue: inkling_index_load() builds an open-addressing    *)
(* hash table over the weight map of the index, and bind_tensors() gives   *)
(* the entries of one shard the ranges of its header, all or none          *)
(* (src/io/inkling_index.c, inkling_safetensors_parse_header()).           *)
(*                                                                         *)
(* Three callers are modelled.  "text" is load_shards() of                 *)
(* src/model/inkling_bind.c: the shards in the order of the index, the MTP *)
(* shard left out, nothing after a failure, and at the end the byte total. *)
(* "production" has the checkpoint verified first by verify_model() of     *)
(* src/io/inkling_verify.c, on a catalogue of its own: the pinned shards   *)
(* in their order, the MTP shard if it is there, then the contract of the  *)
(* pinned tensors; the files do not change before they are loaded.         *)
(* "public" binds any header to any shard as often as it likes and goes on *)
(* after a failure.                                                        *)
(*                                                                         *)
(* Names and shards are model values; dtype and shape come down to the     *)
(* length of the range, and a hash is any function of the names.  What     *)
(* verify_model() wants of config.json and of the quantization metadata is *)
(* left out.                                                               *)
(***************************************************************************)
EXTENDS Integers, Sequences, FiniteSets, FiniteSetsExt

CONSTANTS
  Names,      (* names of tensors                                          *)
  Shards,     (* names of shards                                           *)
  Mtp,        (* the shard that a loader leaves out                        *)
  Documents,  (* index files: [members : Seq([name, shard]), total]        *)
  Hashes,     (* hash functions on Names                                   *)
  SlotCounts, (* the powers of two from 2 on that a size_t holds           *)
  Headers,    (* shard files: [tensors : Seq([name, start, bytes]), payload] *)
  Pinned,     (* the tensors of the pinned checkpoint: [name, mtp, bytes]  *)
  PinnedShards,  (* its shards, the MTP shard last                         *)
  PinnedTotal,   (* its total_size                                         *)
  MtpPayload,    (* the payload of its MTP shard                           *)
  Missing,    (* a file that is not there                                  *)
  Unbound     (* INKLING_DTYPE_UNKNOWN: no range yet                       *)

Members == [name : Names, shard : Shards]
Tensors == [name : Names, start : Nat, bytes : Nat]
Ranges == [start : Nat, bytes : Nat]

ASSUME CatalogueAssumption ==
  /\ Documents \subseteq [members : Seq(Members), total : Nat]
  /\ Headers \subseteq [tensors : Seq(Tensors), payload : Nat]
  /\ Hashes \subseteq [Names -> Nat]
  /\ SlotCounts \subseteq Nat \ {0}
  /\ \A doc \in Documents : \E n \in SlotCounts : n >= 2 * Len(doc.members)
  /\ PinnedShards \in Seq(Shards) \ {<<>>} /\ PinnedShards[Len(PinnedShards)] = Mtp
  /\ \A j, k \in DOMAIN PinnedShards : PinnedShards[j] = PinnedShards[k] => j = k
  /\ Pinned \subseteq [name : Names, mtp : BOOLEAN, bytes : Nat]
  /\ Unbound # Missing /\ {Unbound, Missing} \cap (Headers \cup Ranges) = {}

VARIABLES
  caller,     (* "text", "production" or "public"                          *)
  verifying,  (* verify_model() is running                                 *)
  files,      (* the headers it has seen: Unbound, Missing or a header     *)
  document,   (* the index file                                            *)
  hash,       (* name_hash                                                 *)
  at,         (* what is done next                                         *)
  entries,    (* index->entries: [name, shard, range]                      *)
  slots,      (* index->slots: 0 or a position in entries                  *)
  asked,      (* [shard, header, tensors] that is being bound              *)
  bound       (* a history: per shard, the header bound to it last         *)

vars == <<caller, verifying, files, document, hash, at, entries, slots, asked, bound>>
given == <<caller, document, hash>>

Nothing == [shard |-> Unbound, header |-> Unbound, tensors |-> <<>>]
ShardsOf(doc) == {doc.members[k].shard : k \in DOMAIN doc.members}

Init ==
  /\ caller \in {"text", "production", "public"}
  /\ document \in Documents /\ hash \in Hashes
  /\ verifying = (caller = "production")
  /\ files = [k \in 1..Len(PinnedShards) |-> Unbound]
  /\ at = "parse"
  /\ entries = <<>> /\ slots = <<>>
  /\ asked = Nothing
  /\ bound = [s \in ShardsOf(document) |-> Unbound]

-------------------------------------------------------------------------------
\* The least power of two that is at least twice the number of members.
SlotCount(count) == Min({n \in SlotCounts : n >= 2 * count})

\* The name of the k-th slot's entry, slots being counted from 0.
Occupied(k) == slots[k + 1] # 0
NameAt(k) == entries[slots[k + 1]].name

\* Mutant: probing does not go back to the first slot.
ProbedToTheEnd(name, probe) ==
  Min({(hash[name] % Len(slots)) + probe, Len(slots) - 1})

\* The slot that is looked at after `probe` others.
Probed(name, probe) == (hash[name] + probe) % Len(slots)

\* find_slot(): the first slot that is free or has the name; none if there is
\* no such slot.
FindSlot(name) ==
  LET hits == {p \in 0..Len(slots) - 1 :
                 LET k == Probed(name, p) IN Occupied(k) => NameAt(k) = name}
  IN IF hits = {} THEN Len(slots) ELSE Probed(name, Min(hits))

\* inkling_index_find_tensor(): a position in entries, 0 for NULL.
FindTensor(name) ==
  LET k == FindSlot(name)
  IN IF slots = <<>> \/ k = Len(slots) THEN 0 ELSE slots[k + 1]

-------------------------------------------------------------------------------
Unique(tensors) ==
  \A i, j \in DOMAIN tensors : tensors[i].name = tensors[j].name => i = j

\* inkling_index_load(): the JSON object has members of different names.
ParseIndex ==
  /\ at = "parse"
  /\ IF document.members # <<>> /\ Unique(document.members)
       THEN /\ slots' = [k \in 1..SlotCount(Len(document.members)) |-> 0]
            /\ at' = "insert"
       ELSE at' = "failed" /\ UNCHANGED slots
  /\ UNCHANGED <<given, verifying, files, entries, asked, bound>>

\* The next member goes into the table.
Insert ==
  /\ at = "insert" /\ Len(entries) < Len(document.members)
  /\ LET member == document.members[Len(entries) + 1]
         slot == FindSlot(member.name)
     IN IF slot = Len(slots) \/ Occupied(slot)
          THEN at' = "failed" /\ UNCHANGED <<entries, slots>>
          ELSE /\ entries' = Append(entries, [name |-> member.name, shard |-> member.shard,
                                              range |-> Unbound])
               /\ slots' = [slots EXCEPT ![slot + 1] = Len(entries) + 1]
               /\ at' = IF Len(entries') = Len(document.members) THEN "idle" ELSE "insert"
  /\ UNCHANGED <<given, verifying, files, asked, bound>>

-------------------------------------------------------------------------------
\* Mutant: every shard has been read once one has.
NextShardOnce ==
  LET open == {k \in DOMAIN entries :
                 entries[k].shard # Mtp /\ \A s \in DOMAIN bound : bound[s] = Unbound}
  IN IF open = {} THEN {} ELSE {entries[Min(open)].shard}

\* load_shards(): the shard of the first entry whose shard has not been read.
NextShard ==
  LET open == {k \in DOMAIN entries :
                 entries[k].shard # Mtp /\ bound[entries[k].shard] = Unbound}
  IN IF open = {} THEN {} ELSE {entries[Min(open)].shard}

\* verify_model(): the first pinned shard that has not been looked at.
NextPinned ==
  LET open == {k \in DOMAIN files : files[k] = Unbound}
  IN IF open = {} THEN {} ELSE {Min(open)}

\* What is in a file: a verified shard has not changed since.
HeadersOf(s) ==
  LET seen == {files[k] : k \in {n \in DOMAIN files : PinnedShards[n] = s}}
  IN IF caller = "production" THEN seen \ {Missing, Unbound} ELSE Headers

\* The header of a shard is read; it may be any.
ReadHeader ==
  /\ at = "idle" /\ ~verifying
  /\ \E s \in (IF caller = "public" THEN DOMAIN bound ELSE NextShard) : \E h \in HeadersOf(s) :
       asked' = [shard |-> s, header |-> h, tensors |-> <<>>]
  /\ at' = "header"
  /\ UNCHANGED <<given, verifying, files, entries, slots, bound>>

VerifyHeader ==
  /\ at = "idle" /\ verifying
  /\ \E k \in NextPinned, h \in Headers :
       /\ files' = [files EXCEPT ![k] = h]
       /\ asked' = [shard |-> PinnedShards[k], header |-> h, tensors |-> <<>>]
  /\ at' = "header"
  /\ UNCHANGED <<given, verifying, entries, slots, bound>>

\* Only the MTP shard may be missing.
SkipMtp ==
  /\ at = "idle" /\ verifying
  /\ \E k \in NextPinned : PinnedShards[k] = Mtp /\ files' = [files EXCEPT ![k] = Missing]
  /\ UNCHANGED <<given, verifying, at, entries, slots, asked, bound>>

\* A shard is not there or not readable.
ReadFails ==
  /\ at = "idle" /\ caller # "public"
  /\ (IF verifying THEN NextPinned ELSE NextShard) # {}
  /\ at' = "unreadable"
  /\ UNCHANGED <<given, verifying, files, entries, slots, asked, bound>>

\* A failed bind ends a load and a verification; another caller may go on.
Refused == at' = (IF caller = "public" THEN "idle" ELSE "failed") /\ asked' = Nothing

Ends(t) == t.start + t.bytes

\* compare_offsets(): by start, then by length.
Before(t, u) == t.start < u.start \/ (t.start = u.start /\ t.bytes < u.bytes)

\* Each tensor starts where the one before it ends; the last ends the payload.
Contiguous(sorted, payload) ==
  /\ \A k \in DOMAIN sorted : sorted[k].start = (IF k = 1 THEN 0 ELSE Ends(sorted[k - 1]))
  /\ payload = (IF sorted = <<>> THEN 0 ELSE Ends(sorted[Len(sorted)]))

\* What qsort makes of the tensors: nothing comes after what it is before.
Sorted(tensors) ==
  LET order == CHOOSE o \in [DOMAIN tensors -> DOMAIN tensors] :
        \A i, j \in DOMAIN tensors :
          i < j => o[i] # o[j] /\ ~Before(tensors[o[j]], tensors[o[i]])
  IN [k \in DOMAIN tensors |-> tensors[order[k]]]

\* Unique names, ranges inside the payload, without gap or overlap.
Admitted(header) ==
  /\ Unique(header.tensors)
  /\ \A k \in DOMAIN header.tensors : Ends(header.tensors[k]) <= header.payload
  /\ Contiguous(Sorted(header.tensors), header.payload)

\* inkling_safetensors_parse_header(): the sorted tensors of a header that is right.
ParseHeader ==
  /\ at = "header"
  /\ IF Admitted(asked.header)
       THEN at' = "bind" /\ asked' = [asked EXCEPT !.tensors = Sorted(asked.header.tensors)]
       ELSE Refused
  /\ UNCHANGED <<given, verifying, files, entries, slots, bound>>

Expected(s) == {k \in DOMAIN entries : entries[k].shard = s}

\* Mutant: the number of tensors is not compared.
ComparedByName ==
  \A k \in DOMAIN asked.tensors :
    LET e == FindTensor(asked.tensors[k].name) IN e # 0 /\ entries[e].shard = asked.shard

\* bind_tensors(), first half: as many tensors as the index has for the shard,
\* each of them an entry of this shard.
Compared ==
  /\ Expected(asked.shard) # {}
  /\ Len(asked.tensors) = Cardinality(Expected(asked.shard))
  /\ \A k \in DOMAIN asked.tensors :
       LET e == FindTensor(asked.tensors[k].name) IN e # 0 /\ entries[e].shard = asked.shard

RangeOf(t) == [start |-> t.start, bytes |-> t.bytes]

\* Second half: every tensor gives its entry its range.
Published ==
  [e \in DOMAIN entries |->
     LET asking == {k \in DOMAIN asked.tensors : FindTensor(asked.tensors[k].name) = e}
     IN IF asking = {} THEN entries[e]
        ELSE [entries[e] EXCEPT !.range = RangeOf(asked.tensors[Max(asking)])]]

\* "Check the entire shard before publishing any metadata."
Bind ==
  /\ at = "bind"
  /\ IF Compared
       THEN /\ entries' = Published
            /\ bound' = [bound EXCEPT ![asked.shard] = asked.header]
            /\ at' = "idle" /\ asked' = Nothing
       ELSE Refused /\ UNCHANGED <<entries, bound>>
  /\ UNCHANGED <<given, verifying, files, slots>>

-------------------------------------------------------------------------------
IsBound(k) == entries[k].range # Unbound
BoundBytes == MapThenSumSet(LAMBDA k : entries[k].range.bytes,
                            {k \in DOMAIN entries : IsBound(k)})

\* Mutant: the total is also wanted of a catalogue that leaves tensors out.
TotalAlways == BoundBytes = document.total

\* A complete catalogue has the total of the index.
TotalIsRight == (\A k \in DOMAIN entries : IsBound(k)) => BoundBytes = document.total

\* The end of load_shards().
Complete ==
  /\ at = "idle" /\ caller # "public" /\ ~verifying /\ NextShard = {}
  /\ at' = IF TotalIsRight THEN "ready" ELSE "failed"
  /\ UNCHANGED <<given, verifying, files, entries, slots, asked, bound>>

-------------------------------------------------------------------------------
MtpSkipped == files[Len(files)] = Missing

\* require_tensor(): the shard of its class, and the pinned length if it was read.
Required(p) ==
  LET e == FindTensor(p.name)
  IN /\ e # 0
     /\ p.mtp <=> entries[e].shard = Mtp
     /\ \/ p.mtp /\ MtpSkipped
        \/ IsBound(e) /\ entries[e].range.bytes = p.bytes

\* tensor_contract() and the end of verify_model(): the pinned tensors, no
\* others, and the bytes that were counted.
Contract ==
  /\ \A p \in Pinned : Required(p)
  /\ \A e \in DOMAIN entries : \E p \in Pinned : p.name = entries[e].name
  /\ Len(entries) = Cardinality(Pinned)
  /\ Cardinality(ShardsOf(document)) = Len(PinnedShards)
  /\ document.total = PinnedTotal
  /\ LET counted == {p \in Pinned : ~(p.mtp /\ MtpSkipped)}
     IN MapThenSumSet(LAMBDA p : entries[FindTensor(p.name)].range.bytes, counted)
          = document.total - (IF MtpSkipped THEN MtpPayload ELSE 0)

\* The census is dropped; open_model() goes on and reads the index again.
Verify ==
  /\ at = "idle" /\ verifying /\ NextPinned = {}
  /\ IF Contract
       THEN /\ verifying' = FALSE /\ at' = "parse"
            /\ entries' = <<>> /\ slots' = <<>>
            /\ bound' = [s \in DOMAIN bound |-> Unbound]
       ELSE at' = "failed" /\ UNCHANGED <<verifying, entries, slots, bound>>
  /\ UNCHANGED <<given, files, asked>>

Next ==
  \/ ParseIndex \/ Insert \/ ReadHeader \/ ReadFails \/ ParseHeader \/ Bind \/ Complete
  \/ VerifyHeader \/ SkipMtp \/ Verify

Spec == Init /\ [][Next]_vars
-------------------------------------------------------------------------------
\* Whatever the hash, and while the table is being built: a name that is in the
\* index is found at its entry, any other name is not found, and an index whose
\* names differ is not refused.
FindsWhatIsIndexed ==
  /\ \A n \in Names :
       LET positions == {k \in DOMAIN entries : entries[k].name = n}
       IN IF positions = {} THEN FindTensor(n) = 0 ELSE positions = {FindTensor(n)}
  /\ at = "failed" /\ Len(entries) < Len(document.members) => ~Unique(document.members)

\* "Failed bind is atomic" (tests/test_catalogue.c): over any sequence of binds
\* that succeed and fail, the entries of a shard have all of them the ranges of
\* the one header that was bound to it last, or none of them has a range.
ShardMatchesHeader ==
  \A s \in DOMAIN bound :
    \A k \in Expected(s) :
      IF bound[s] = Unbound THEN ~IsBound(k)
      ELSE \E i \in DOMAIN bound[s].tensors :
             /\ bound[s].tensors[i].name = entries[k].name
             /\ entries[k].range = RangeOf(bound[s].tensors[i])

\* A model is built only from a catalogue in which every tensor outside the MTP
\* shard has a range, in which the ranges of a shard share no byte and cover its
\* payload, and whose bytes are those the index announces if nothing is left out.
\* A production model has all the pinned tensors with their pinned lengths.
ReadyIsWhole ==
  at = "ready" =>
    /\ \A k \in DOMAIN entries : entries[k].shard # Mtp => IsBound(k)
    /\ \A s \in DOMAIN bound \ {Mtp} :
         \A b \in 0..bound[s].payload - 1 :
           \E k \in Expected(s) :
             \A j \in Expected(s) :
               (entries[j].range.start <= b /\ b < Ends(entries[j].range)) <=> j = k
    /\ (\A k \in DOMAIN entries : entries[k].shard # Mtp) => BoundBytes = document.total
    /\ caller = "production" =>
         \A p \in Pinned : p.mtp \/ \E k \in DOMAIN entries :
           entries[k].name = p.name /\ entries[k].range.bytes = p.bytes

\* "MTP may be absent", "a present MTP file is always validated" and "the index
\* must still contain its pinned MTP entries" (README.md): a checkpoint that
\* verification accepts, with or without its MTP shard, is also loaded, whatever
\* the order of the index, as long as its files stay readable and the same.
VerifiedLoads == caller = "production" /\ ~verifying => at # "failed"
===============================================================================
