------------------------------ MODULE RangeStore ------------------------------
(***************************************************************************)
(* RangeStore (tools/fetch_model_layers.py): original ranges of the        *)
(* checkpoint that are fetched layer by layer, in chunks, with retries and *)
(* a budget, and a manifest per layer from which the next run resumes.     *)
(*                                                                         *)
(* A chunk is fetched whole or not at all; its bytes are a digest, which   *)
(* names its file, so that equal chunks of a layer share one.              *)
(* write_atomic() changes a file in one step.  What else a manifest holds, *)
(* the identity checks of records and the arithmetic that cuts tensors     *)
(* into chunks are left out.  One run at a time, which may be killed.      *)
(***************************************************************************)
EXTENDS Integers, Sequences, FiniteSets, FiniteSetsExt, SequencesExt

CONSTANTS
  Layers, Chunks,
  LayerOf,    (* [Chunks -> Layers]                                        *)
  Bytes,      (* [Chunks -> Nat]: size                                     *)
  Digest,     (* [Chunks -> ...]: content                                  *)
  Scripts,    (* per layer, what a run does: [does, of] with does one of   *)
              (* "fetch" and "use"                                         *)
  Plans,      (* the layers that a run may be asked for, in order          *)
  Budget,
  Attempts    (* requests before a chunk is given up                       *)

Ops == [does : {"fetch", "use"}, of : Chunks]

ASSUME StoreAssumption ==
  /\ IsFiniteSet(Chunks)
  /\ LayerOf \in [Chunks -> Layers] /\ Bytes \in [Chunks -> Nat \ {0}]
  /\ Budget \in Nat /\ Attempts \in Nat \ {0}
  /\ Scripts \in [Layers -> Seq(Ops)] /\ Plans \subseteq Seq(Layers)
  /\ \A l \in Layers : \A i \in DOMAIN Scripts[l] : LayerOf[Scripts[l][i].of] = l

VARIABLES
  manifest,   (* per layer, the chunks that ranges.json records            *)
  blobs,      (* per layer and digest, "absent", "whole" or "damaged"      *)
  offline,    (* --offline                                                 *)
  plan,       (* layers that the run has not done                          *)
  known,      (* the records that the run has in memory                    *)
  todo,       (* what is left of the script of its layer                   *)
  attempt,    (* requests made for a chunk                                 *)
  at          (* "off", "open", "work", "request", "store" or "record"     *)

disk == <<manifest, blobs>>
vars == <<manifest, blobs, offline, plan, known, todo, attempt, at>>

Blob(c) == <<LayerOf[c], Digest[c]>>
Layer == Head(plan)
Chunk == Head(todo).of

Init ==
  /\ manifest = [l \in Layers |-> {}]
  /\ blobs = [b \in {Blob(c) : c \in Chunks} |-> "absent"]
  /\ offline = FALSE /\ plan = <<>>
  /\ known = {} /\ todo = <<>> /\ attempt = 0 /\ at = "off"

\* check(): the recorded file has the recorded bytes.
Checked(c) == blobs[Blob(c)] = "whole"

\* The run ends, as it does after an exception.
Ended ==
  /\ offline' = FALSE /\ plan' = <<>>
  /\ known' = {} /\ todo' = <<>> /\ attempt' = 0 /\ at' = "off"

Raise == Ended /\ UNCHANGED disk

-------------------------------------------------------------------------------
Start ==
  /\ at = "off"
  /\ plan' \in Plans /\ offline' \in BOOLEAN
  /\ at' = "open"
  /\ UNCHANGED <<manifest, blobs, known, todo, attempt>>

\* Mutant: a store begins empty.
OpenFresh ==
  /\ at = "open" /\ plan # <<>>
  /\ known' = {} /\ todo' = Scripts[Layer] /\ at' = "work"
  /\ UNCHANGED <<manifest, blobs, offline, plan, attempt>>

\* The store of the next layer takes over the manifest, once each of its records
\* has been checked.
Open ==
  /\ at = "open" /\ plan # <<>>
  /\ IF \A c \in manifest[Layer] : Checked(c)
       THEN /\ known' = manifest[Layer] /\ todo' = Scripts[Layer] /\ at' = "work"
            /\ UNCHANGED <<manifest, blobs, offline, plan, attempt>>
       ELSE Raise

Finish == at = "open" /\ plan = <<>> /\ Raise

Size(S) == MapThenSumSet(LAMBDA c : Bytes[c], S)

\* Mutant: the budget of each layer by itself.
RecordedOfLayer == Size(manifest[Layer])

\* What the manifests of all layers record.
Recorded == Size(UNION {manifest[l] : l \in Layers})

\* fetch(): a recorded chunk is checked again and not asked for.
Fetch ==
  /\ at = "work" /\ todo # <<>> /\ Head(todo).does = "fetch"
  /\ IF Chunk \in known
       THEN IF Checked(Chunk)
              THEN todo' = Tail(todo)
                   /\ UNCHANGED <<manifest, blobs, offline, plan, known, attempt, at>>
              ELSE Raise
     ELSE IF offline \/ Recorded + Bytes[Chunk] > Budget THEN Raise
     ELSE /\ at' = "request" /\ attempt' = 1
          /\ UNCHANGED <<manifest, blobs, offline, plan, known, todo>>

\* Mutant: the record is written before the payload.
AnswerRecordsFirst ==
  /\ at = "request"
  /\ manifest' = [manifest EXCEPT ![Layer] = known \cup {Chunk}] /\ at' = "store"
  /\ UNCHANGED <<blobs, offline, plan, known, todo, attempt>>

\* The range arrives, exact and complete.
Answer ==
  /\ at = "request"
  /\ at' = "store"
  /\ UNCHANGED <<manifest, blobs, offline, plan, known, todo, attempt>>

\* Mutant: attempts are not counted.
RetryForever ==
  /\ at = "request"
  /\ UNCHANGED <<manifest, blobs, offline, plan, known, todo>>
  /\ attempt' = 1 + (attempt % Attempts) /\ at' = "request"

\* The request fails, or the answer is short or of another range.
Retry ==
  /\ at = "request"
  /\ IF attempt < Attempts
       THEN attempt' = attempt + 1
            /\ UNCHANGED <<manifest, blobs, offline, plan, known, todo, at>>
       ELSE Raise

Store ==
  /\ at = "store"
  /\ blobs' = [blobs EXCEPT ![Blob(Chunk)] = "whole"] /\ at' = "record"
  /\ UNCHANGED <<manifest, offline, plan, known, todo, attempt>>

\* The manifest is replaced by the one in memory.
Record ==
  /\ at = "record"
  /\ known' = known \cup {Chunk}
  /\ manifest' = [manifest EXCEPT ![Layer] = known']
  /\ todo' = Tail(todo) /\ attempt' = 0 /\ at' = "work"
  /\ UNCHANGED <<blobs, offline, plan>>

\* raw(): the payload is read through the check.
Use ==
  /\ at = "work" /\ todo # <<>> /\ Head(todo).does = "use"
  /\ IF Chunk \in known /\ Checked(Chunk)
       THEN todo' = Tail(todo) /\ UNCHANGED <<manifest, blobs, offline, plan, known, attempt, at>>
       ELSE Raise

\* "COMPLETE": the manifest is written once more, with the expectations.
Complete ==
  /\ at = "work" /\ todo = <<>>
  /\ manifest' = [manifest EXCEPT ![Layer] = known]
  /\ plan' = Tail(plan) /\ at' = "open"
  /\ UNCHANGED <<blobs, offline, known, todo, attempt>>

Step == Open \/ Finish \/ Fetch \/ Answer \/ Retry \/ Store \/ Record \/ Use \/ Complete

\* The run is killed, or a file cannot be read or written.
Stop == at # "off" /\ Raise

\* A stored payload is altered by somebody else.
Damage ==
  /\ \E b \in DOMAIN blobs : blobs[b] = "whole" /\ blobs' = [blobs EXCEPT ![b] = "damaged"]
  /\ UNCHANGED <<manifest, offline, plan, known, todo, attempt, at>>

Next == Start \/ Step \/ Stop \/ Damage

Spec == Init /\ [][Next]_vars

\* A run goes on by itself; a server need not ever answer.
FairSpec == Spec /\ WF_vars(Step)
-------------------------------------------------------------------------------
\* Wherever a run is killed, a manifest records only payloads that are there: the
\* payload is in place before the record, and the record names it by content.
RecordsBacked == \A l \in Layers : \A c \in manifest[l] : blobs[Blob(c)] # "absent"

\* "The aggregate limit is 2 GiB" (docs/TEXT.md): over all layers and all runs.
WithinBudget == Size({c \in Chunks : c \in manifest[LayerOf[c]]}) <= Budget

\* A run resumes where the last one stopped: what is recorded is never forgotten
\* and never asked for again.
Resumes ==
  [][ /\ \A l \in Layers : manifest[l] \subseteq manifest'[l]
      /\ at # "request" /\ at' = "request" => Chunk \notin manifest[Layer] ]_vars

\* Each run ends, however often the server fails.
RunEnds == at # "off" ~> at = "off"
===============================================================================
