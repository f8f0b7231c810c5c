----------------------------- MODULE PackedTrunk ------------------------------
(***************************************************************************)
(* The packed trunk: tools/pack_trunk.py copies the text trunk of a        *)
(* checkpoint into one file and renames it into place, and                 *)
(* src/model/inkling_packed.c validates that file when a model is opened   *)
(* and serves reads from the descriptor it then holds.                     *)
(*                                                                         *)
(* Packers, models and whoever maintains the checkpoint share nothing but  *)
(* the file system.  A packed file is an inode, named by the packer that   *)
(* creates it; the destination path names one of them or none.  Weights    *)
(* are named by the revision of the checkpoint they come from, and a       *)
(* checksum by what it is a checksum of.                                   *)
(*                                                                         *)
(* A new revision of a checkpoint replaces its shards and then its         *)
(* metadata, and revisions only go up (an assumption on the environment).  *)
(***************************************************************************)
EXTENDS Integers, Sequences

CONSTANTS
  Names,      (* trunk tensors in execution order, each in a shard of its own *)
  Revisions,  (* successive revisions of the checkpoint: 1..n              *)
  Ranges,     (* of each, the dtypes, shapes and data ranges of its tensors *)
  Header,     (* of each, the sizes of the headers before the data         *)
  Packers,    (* runs of the tool                                          *)
  Sources,    (* those that are given a checkpoint file as destination     *)
  NoFile,     (* no inode                                                  *)
  Garbage     (* bytes of no tensor                                        *)

Positions == 1..Len(Names)

ASSUME PackedAssumption ==
  /\ Len(Names) \in Nat \ {0} /\ Len(Ranges) \in Nat \ {0}
  /\ Revisions = 1..Len(Ranges) /\ Len(Header) = Len(Ranges)
  /\ Sources \subseteq Packers
  /\ NoFile \notin Packers /\ Garbage \notin Revisions

VARIABLES
  shard,    (* per tensor, revision of the shard that holds it             *)
  meta,     (* revision of config, index and quantization metadata         *)
  at,       (* per packer, what it does next                               *)
  plan,     (* per packer, [catalogue, headers, identity] as it read them  *)
  file,     (* per packer, its file: [identity, sum, payload, cut]         *)
  linked,   (* the packers whose file has a temporary name                 *)
  trunk,    (* the inode at the destination path                           *)
  model     (* the model: [at, index, fd, identity, settled]               *)

source == <<shard, meta>>
packing == <<at, plan, file, linked, trunk>>
vars == <<source, packing, model>>

NoRevision == 0
NoPlan == [catalogue |-> NoRevision, headers |-> <<>>, identity |-> NoRevision]
EmptyFile == [identity |-> NoRevision, sum |-> <<>>, payload |-> <<>>, cut |-> FALSE]
Closed == [at |-> "closed", index |-> NoRevision, fd |-> NoFile,
           identity |-> NoRevision, settled |-> FALSE]

\* No replacement of the checkpoint is under way.
Settled == \A i \in Positions : shard[i] = meta

Init ==
  /\ shard = [i \in Positions |-> 1] /\ meta = 1
  /\ at = [p \in Packers |-> "catalogue"]
  /\ plan = [p \in Packers |-> NoPlan]
  /\ file = [p \in Packers |-> EmptyFile]
  /\ linked = {} /\ trunk = NoFile
  /\ model = Closed

-------------------------------------------------------------------------------
\* A new revision arrives, shard by shard and the metadata last.
ReplaceShard(i) ==
  /\ meta + 1 \in Revisions /\ shard[i] = meta
  /\ shard' = [shard EXCEPT ![i] = meta + 1]
  /\ UNCHANGED <<meta, packing, model>>

ReplaceMetadata ==
  /\ meta + 1 \in Revisions /\ \A i \in Positions : shard[i] = meta + 1
  /\ meta' = meta + 1
  /\ UNCHANGED <<shard, packing, model>>

-------------------------------------------------------------------------------
\* The index and the shard headers agree; the index says nothing of header sizes.
Coherent == \A i \in Positions : shard[i] \in Revisions /\ Ranges[shard[i]] = Ranges[meta]

Goto(p, place) == at' = [at EXCEPT ![p] = place]

\* read_catalogue(): the index and every shard header, which must agree.
Catalogue(p) ==
  /\ at[p] = "catalogue"
  /\ Coherent
  /\ plan' = [plan EXCEPT ![p].catalogue = meta,
                          ![p].headers = [i \in Positions |-> Header[shard[i]]]]
  /\ Goto(p, "alias")
  /\ UNCHANGED <<source, file, linked, trunk, model>>

\* Mutant: the destination is not compared with the inputs.
AliasUnchecked(p) ==
  /\ at[p] = "alias"
  /\ Goto(p, "identify")
  /\ UNCHANGED <<source, plan, file, linked, trunk, model>>

\* The destination must not be a file of the checkpoint.
Alias(p) ==
  /\ at[p] = "alias" /\ p \notin Sources
  /\ Goto(p, "identify")
  /\ UNCHANGED <<source, plan, file, linked, trunk, model>>

\* metadata_identity(), before anything is copied.
Identify(p) ==
  /\ at[p] = "identify"
  /\ plan' = [plan EXCEPT ![p].identity = meta]
  /\ Goto(p, "stage")
  /\ UNCHANGED <<source, file, linked, trunk, model>>

\* The temporary file, with a header that has no sums yet.
Stage(p) ==
  /\ at[p] = "stage"
  /\ linked' = linked \cup {p}
  /\ Goto(p, "copy")
  /\ UNCHANGED <<source, plan, file, trunk, model>>

\* copy_bytes() of the next tensor, from its place in the catalogue.
Copy(p) ==
  /\ at[p] = "copy" /\ Len(file[p].payload) < Len(Names)
  /\ LET i == Len(file[p].payload) + 1
         inPlace == /\ shard[i] \in Revisions
                    /\ Ranges[shard[i]] = Ranges[plan[p].catalogue]
                    /\ Header[shard[i]] = plan[p].headers[i]
         bytes == IF inPlace THEN shard[i] ELSE Garbage
     IN file' = [file EXCEPT ![p].payload = Append(@, bytes)]
  /\ UNCHANGED <<source, at, plan, linked, trunk, model>>

\* Mutant: the identity is taken when everything has been copied.
SealLate(p) ==
  /\ at[p] = "copy" /\ Len(file[p].payload) = Len(Names)
  /\ file' = [file EXCEPT ![p].identity = meta, ![p].sum = file[p].payload]
  /\ Goto(p, "replace")
  /\ UNCHANGED <<source, plan, linked, trunk, model>>

\* The metadata is identified again; then the header is completed and synced.
Seal(p) ==
  /\ at[p] = "copy" /\ Len(file[p].payload) = Len(Names)
  /\ meta = plan[p].identity
  /\ file' = [file EXCEPT ![p].identity = plan[p].identity, ![p].sum = file[p].payload]
  /\ Goto(p, "replace")
  /\ UNCHANGED <<source, plan, linked, trunk, model>>

\* Mutant: the file is renamed as soon as its payload is there.
ReplaceUnsealed(p) ==
  /\ at[p] \in {"copy", "replace"} /\ Len(file[p].payload) = Len(Names)
  /\ trunk' = p
  /\ linked' = linked \ {p}
  /\ Goto(p, "done")
  /\ UNCHANGED <<source, plan, file, model>>

\* os.replace(): with an alias for destination a shard would be gone.
Replace(p) ==
  /\ at[p] = "replace"
  /\ IF p \in Sources
       THEN shard' = [shard EXCEPT ![1] = NoRevision] /\ UNCHANGED trunk
       ELSE trunk' = p /\ UNCHANGED shard
  /\ linked' = linked \ {p}
  /\ Goto(p, "done")
  /\ UNCHANGED <<meta, plan, file, model>>

Working == {"catalogue", "alias", "identify", "stage", "copy", "replace"}

\* Any step may fail; the temporary file is removed.
Fail(p) ==
  /\ at[p] \in Working
  /\ linked' = linked \ {p}
  /\ plan' = [plan EXCEPT ![p] = NoPlan] /\ file' = [file EXCEPT ![p] = EmptyFile]
  /\ Goto(p, "failed")
  /\ UNCHANGED <<source, trunk, model>>

\* The tool is killed, and its temporary file stays.
Crash(p) ==
  /\ p \in linked
  /\ Goto(p, "killed")
  /\ UNCHANGED <<source, plan, file, linked, trunk, model>>

-------------------------------------------------------------------------------
\* open_model(): the index and the shard headers, then the packed trunk.
LoadIndex ==
  /\ model.at = "closed"
  /\ Coherent
  /\ model' = [model EXCEPT !.at = "open", !.index = meta]
  /\ UNCHANGED <<source, packing>>

OpenTrunk ==
  /\ model.at = "open" /\ trunk # NoFile
  /\ model' = [model EXCEPT !.at = "source", !.fd = trunk, !.identity = file[trunk].identity]
  /\ UNCHANGED <<source, packing>>

\* The header is intact and names the metadata that is there now.
CheckSource ==
  /\ model.at = "source" /\ model.identity = meta
  /\ model' = [model EXCEPT !.at = "payload", !.settled = Settled]
  /\ UNCHANGED <<source, packing>>

\* The whole payload is read once and has the sum of the header.
CheckPayload ==
  /\ model.at = "payload"
  /\ ~file[model.fd].cut /\ file[model.fd].payload = file[model.fd].sum
  /\ model' = [model EXCEPT !.at = "ranges"]
  /\ UNCHANGED <<source, packing>>

\* Each tensor has the dtype, the shape and the range that the index gives it.
CheckRanges ==
  /\ model.at = "ranges" /\ Ranges[plan[model.fd].catalogue] = Ranges[model.index]
  /\ model' = [model EXCEPT !.at = "ready"]
  /\ UNCHANGED <<source, packing>>

\* No fallback: what is wrong with a selected trunk fails the open.
OpenFails ==
  /\ model.at \in {"open", "source", "payload", "ranges"}
  /\ model' = Closed
  /\ UNCHANGED <<source, packing>>

\* Mutant: every read opens the path again.
ReadAtPath(i) ==
  IF file[trunk].cut THEN <<"failed">> ELSE <<"read", file[trunk].payload[i]>>

\* inkling_packed_read() of a tensor of an open model: all of its bytes or an
\* error.  It changes no state.
PackedRead(i) ==
  IF file[model.fd].cut THEN <<"failed">> ELSE <<"read", file[model.fd].payload[i]>>

Close ==
  /\ model.at = "ready"
  /\ model' = Closed
  /\ UNCHANGED <<source, packing>>

\* A file is truncated, or damaged before a model holds it.
Truncate(p) ==
  /\ at[p] = "done" /\ ~file[p].cut
  /\ file' = [file EXCEPT ![p].cut = TRUE]
  /\ UNCHANGED <<source, at, plan, linked, trunk, model>>

Damage(p) ==
  /\ at[p] = "done" /\ model.fd # p /\ file[p].payload[1] # Garbage
  /\ file' = [file EXCEPT ![p].payload[1] = Garbage]
  /\ UNCHANGED <<source, at, plan, linked, trunk, model>>

Pack(p) ==
  \/ Catalogue(p) \/ Alias(p) \/ Identify(p) \/ Stage(p) \/ Copy(p)
  \/ Seal(p) \/ Replace(p) \/ Fail(p) \/ Crash(p)

OpenModel ==
  LoadIndex \/ OpenTrunk \/ CheckSource \/ CheckPayload \/ CheckRanges \/ OpenFails

Next ==
  \/ ReplaceMetadata \/ OpenModel \/ Close
  \/ \E i \in Positions : ReplaceShard(i)
  \/ \E p \in Packers : Pack(p) \/ Truncate(p) \/ Damage(p)

Spec == Init /\ [][Next]_vars
-------------------------------------------------------------------------------
Contents == Seq(Revisions \cup {Garbage})

\* Every variable keeps its type.
TypeOK ==
  /\ shard \in [Positions -> Revisions \cup {NoRevision}] /\ meta \in Revisions
  /\ at \in [Packers -> Working \cup {"done", "failed", "killed"}]
  /\ \A p \in Packers :
       /\ plan[p].catalogue \in Revisions \cup {NoRevision}
       /\ plan[p].identity \in Revisions \cup {NoRevision}
       /\ at[p] \in {"alias", "identify", "stage", "copy", "replace", "done"} =>
            plan[p].headers \in [Positions -> {Header[r] : r \in Revisions}]
  /\ \A p \in Packers : file[p] \in [identity : Revisions \cup {NoRevision},
                                     sum : Contents, payload : Contents, cut : BOOLEAN]
  /\ linked \subseteq Packers /\ trunk \in Packers \cup {NoFile}
  /\ model.at \in {"closed", "open", "source", "payload", "ranges", "ready"}
  /\ model.at \in {"closed", "open"} <=> model.fd = NoFile

\* "It atomically replaces the destination after completion": whatever fails or
\* is killed, the path never names a file without its sums or with tensors
\* missing, and a tool that ends by itself leaves no temporary file.
DestinationWhole ==
  /\ trunk # NoFile => /\ file[trunk].identity \in Revisions
                       /\ Len(file[trunk].sum) = Len(Names)
  /\ \A p \in linked : at[p] \in Working \cup {"killed"}

\* "It refuses checkpoint input aliases": no run of the tool destroys a shard.
SourceIntact == \A i \in Positions : shard[i] \in Revisions

\* A trunk that was packed from another revision than the one the model is
\* opened on is refused, also when the checkpoint was being replaced while it
\* was packed: if the checkpoint was at rest when the metadata was compared,
\* every tensor of an accepted trunk is that of this revision.  It takes a tool
\* that read its catalogue and its first identity from one revision, which
\* MetadataUnchanged says it always does and the code does not ensure.
NeverStale ==
  /\ model.at = "ready" /\ model.settled
  /\ plan[model.fd].catalogue = plan[model.fd].identity
  => \A i \in Positions : file[model.fd].payload[i] = model.identity

\* "source metadata changed during packing" (tools/pack_trunk.py) ends a run
\* whose checkpoint is replaced: a trunk that is put in place was copied by the
\* catalogue of the revision whose identity it carries.
MetadataUnchanged ==
  trunk # NoFile => plan[trunk].catalogue = plan[trunk].identity

\* "Replacing the path after open cannot redirect reads": as long as a model is
\* open each read returns the bytes that were validated, or fails.
ReadsArePinned ==
  model.at = "ready" =>
    \A i \in Positions :
      PackedRead(i) = IF file[model.fd].cut THEN <<"failed">>
                      ELSE <<"read", file[model.fd].sum[i]>>
===============================================================================
