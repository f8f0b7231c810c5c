--------------------------- MODULE PackedTrunkProofs --------------------------
(***************************************************************************)
(* Safety of the packed trunk for every number of packers, tensors and     *)
(* revisions.  The invariant says how far each packer has come, that what  *)
(* it has done is not undone once its file may be named or held, and that  *)
(* a packer whose catalogue is of the revision that is at rest now has     *)
(* copied that revision and nothing else.                                  *)
(*                                                                         *)
(* The second part is about the reads that the trunk serves, and those of  *)
(* a shard or of extracted ranges (TensorReads): for every list of ranges, *)
(* every way of sorting it, every size and every chunk they are exact.     *)
(***************************************************************************)
EXTENDS PackedTrunk, TensorReads, DataLemmas, SequenceTheorems

HeaderSizes == {Header[r] : r \in Revisions}
Plans == [catalogue : Revisions \cup {NoRevision},
          headers : [Positions -> HeaderSizes] \cup {<<>>},
          identity : Revisions \cup {NoRevision}]
Files == [identity : Revisions \cup {NoRevision}, sum : Contents, payload : Contents,
          cut : BOOLEAN]
Models == [at : {"closed", "open", "source", "payload", "ranges", "ready"},
           index : Revisions \cup {NoRevision}, fd : Packers \cup {NoFile},
           identity : Revisions \cup {NoRevision}, settled : BOOLEAN]

Typed ==
  /\ shard \in [Positions -> Revisions] /\ meta \in Revisions
  /\ at \in [Packers -> Working \cup {"done", "failed", "killed"}]
  /\ plan \in [Packers -> Plans] /\ file \in [Packers -> Files]
  /\ linked \subseteq Packers /\ trunk \in Packers \cup {NoFile}
  /\ model \in Models

\* Shards are replaced before the metadata and only go up.
SourceInv == \A i \in Positions : shard[i] \in {meta, meta + 1}

Started == {"alias", "identify", "stage", "copy", "replace", "done"}
Sealed == {"replace", "done"}

\* How far packer p has come, and what it has by then.
PackerInv(p) ==
  /\ at[p] \in Started =>
       /\ plan[p].catalogue \in Revisions /\ plan[p].catalogue <= meta
       /\ plan[p].headers \in [Positions -> HeaderSizes]
  /\ at[p] \in {"stage", "copy", "replace", "done"} => plan[p].identity \in Revisions
  /\ at[p] \in {"catalogue", "alias", "identify", "stage"} => file[p].payload = <<>>
  /\ at[p] = "copy" => Len(file[p].payload) <= Len(Names)
  /\ at[p] \in Sealed => /\ file[p].identity = plan[p].identity
                         /\ Len(file[p].sum) = Len(Names)
                         /\ Len(file[p].payload) = Len(Names)
  /\ p \in Sources => at[p] \in {"catalogue", "alias", "failed"}
  /\ p \in linked => at[p] \in {"copy", "replace", "killed"}

\* If packer p works from the catalogue of the revision that is at rest now, no
\* replacement has been under way since it read it.
Fresh(p) ==
  at[p] \in Started /\ plan[p].catalogue = meta /\ Settled =>
    /\ \A i \in Positions : plan[p].headers[i] = Header[meta]
    /\ at[p] = "copy" => \A i \in 1..Len(file[p].payload) : file[p].payload[i] = meta
    /\ at[p] \in Sealed => \A i \in Positions : file[p].sum[i] = meta

\* The path names a finished file, and the model holds one.
TrunkInv == trunk # NoFile => at[trunk] = "done"

Held ==
  /\ model.at \in {"closed", "open"} <=> model.fd = NoFile
  /\ model.fd # NoFile => at[model.fd] = "done" /\ model.identity = file[model.fd].identity
  /\ model.at \in {"ranges", "ready"} => file[model.fd].payload = file[model.fd].sum

\* What the comparison of the metadata has shown, whatever happens later.
Accepted ==
  /\ model.at \in {"payload", "ranges", "ready"} /\ model.settled
  /\ plan[model.fd].catalogue = plan[model.fd].identity
  => \A i \in Positions : file[model.fd].sum[i] = model.identity

IInv ==
  /\ Typed /\ SourceInv /\ TrunkInv /\ Held /\ Accepted
  /\ \A p \in Packers : PackerInv(p) /\ Fresh(p)

-------------------------------------------------------------------------------
\* Consequences of the assumptions that nearly every step needs.
LEMMA Facts ==
  /\ Len(Names) \in Nat \ {0} /\ Revisions = 1..Len(Ranges) /\ Len(Ranges) \in Nat \ {0}
  /\ NoRevision \notin Revisions /\ Revisions \subseteq Nat /\ NoFile \notin Packers
  /\ Positions = 1..Len(Names)
BY PackedAssumption DEF NoRevision, Positions

\* No packer has begun, the checkpoint is at rest and no model is open.
LEMMA InitInvariant == Init => IInv
<1> SUFFICES ASSUME Init PROVE IInv
  OBVIOUS
<1> USE Facts
<1>1. <<>> \in Contents /\ Len(<<>>) = 0
  BY EmptySeq DEF Contents
<1>2. NoPlan \in Plans /\ EmptyFile \in Files /\ Closed \in Models
  BY <1>1 DEF NoPlan, Plans, EmptyFile, Files, Closed, Models
<1>3. 1 \in Revisions
  OBVIOUS
<1>4. Typed
  BY <1>2, <1>3 DEF Init, Typed, Working
<1>5. SourceInv /\ TrunkInv /\ Held /\ Accepted
  BY <1>3 DEF Init, SourceInv, TrunkInv, Held, Accepted, Closed
<1>6. ASSUME NEW p \in Packers PROVE PackerInv(p) /\ Fresh(p)
  <2>1. at[p] = "catalogue" /\ file[p] = EmptyFile /\ p \notin linked
    BY DEF Init
  <2>2. QED
    BY <2>1 DEF PackerInv, Fresh, Started, Sealed, EmptyFile
<1>7. QED
  BY <1>4, <1>5, <1>6 DEF IInv

-------------------------------------------------------------------------------
\* A step of one packer leaves alone what is known of the others, of the file at
\* the path and of the file the model holds, as long as it is not one of these.
LEMMA Frame ==
  ASSUME IInv, NEW p \in Packers, at[p] # "done",
         \A q \in Packers \ {p} : at'[q] = at[q] /\ plan'[q] = plan[q] /\ file'[q] = file[q],
         linked' \ {p} \subseteq linked, UNCHANGED <<source, trunk, model>>
  PROVE  /\ SourceInv' /\ TrunkInv' /\ Held' /\ Accepted'
         /\ \A q \in Packers \ {p} : PackerInv(q)' /\ Fresh(q)'
<1> USE Facts
<1>1. shard' = shard /\ meta' = meta /\ trunk' = trunk /\ model' = model
  BY DEF source
<1>2. SourceInv'
  BY <1>1 DEF IInv, SourceInv
<1>3. trunk # NoFile => trunk \in Packers /\ trunk # p
  BY DEF IInv, Typed, TrunkInv
<1>4. model.fd # NoFile => model.fd \in Packers /\ model.fd # p
  BY DEF IInv, Typed, Held, Models
<1>5. TrunkInv'
  BY <1>1, <1>3 DEF IInv, TrunkInv
<1>6. model.at \in {"payload", "ranges", "ready"} => model.fd # NoFile
  BY DEF IInv, Held
<1>7. Held'
  BY <1>1, <1>4, <1>6 DEF IInv, Held
<1>8. Accepted'
  BY <1>1, <1>4, <1>6 DEF IInv, Accepted
<1>9. ASSUME NEW q \in Packers \ {p} PROVE PackerInv(q)' /\ Fresh(q)'
  <2>1. /\ at'[q] = at[q] /\ plan'[q] = plan[q] /\ file'[q] = file[q]
        /\ q \in linked' => q \in linked
    OBVIOUS
  <2>2. PackerInv(q) /\ Fresh(q)
    BY DEF IInv
  <2>3. PackerInv(q)'
    BY <1>1, <2>1, <2>2 DEF PackerInv
  <2>4. Settled' = Settled
    BY <1>1 DEF Settled
  <2>5. Fresh(q)'
    BY <1>1, <2>1, <2>2, <2>4 DEF Fresh
  <2>6. QED
    BY <2>3, <2>5
<1>10. QED
  BY <1>2, <1>5, <1>7, <1>8, <1>9

\* A catalogue that is read while the checkpoint is at rest has its header sizes.
LEMMA CatalogueInvariant == ASSUME IInv, NEW p \in Packers, Catalogue(p) PROVE IInv'
<1> USE Facts
<1>1. /\ at[p] = "catalogue" /\ at' = [at EXCEPT ![p] = "alias"]
      /\ file' = file /\ linked' = linked /\ UNCHANGED <<source, trunk, model>>
      /\ shard' = shard /\ meta' = meta
  BY DEF Catalogue, Goto, source
<1>2. Typed
  BY DEF IInv
<1> DEFINE h == [i \in Positions |-> Header[shard[i]]]
<1>3. plan' = [plan EXCEPT ![p].catalogue = meta, ![p].headers = h]
  BY DEF Catalogue
<1>4. h \in [Positions -> HeaderSizes]
  BY <1>2 DEF Typed, HeaderSizes
<1> HIDE DEF h
<1>5. plan[p] \in Plans /\ meta \in Revisions
  BY <1>2 DEF Typed
<1>6. /\ plan' = [plan EXCEPT ![p] = [plan[p] EXCEPT !.catalogue = meta, !.headers = h]]
  BY <1>3, <1>2 DEF Typed
<1>7. /\ plan'[p] \in Plans /\ plan'[p].catalogue = meta /\ plan'[p].headers = h
      /\ \A q \in Packers \ {p} : plan'[q] = plan[q]
      /\ plan' \in [Packers -> Plans]
  BY <1>2, <1>4, <1>5, <1>6 DEF Typed, Plans
<1>8. Typed'
  BY <1>1, <1>2, <1>7 DEF Typed, Working, source
<1>9. at'[p] = "alias" /\ \A q \in Packers \ {p} : at'[q] = at[q]
  BY <1>1, <1>2 DEF Typed
<1>10. SourceInv' /\ TrunkInv' /\ Held' /\ Accepted'
       /\ \A q \in Packers \ {p} : PackerInv(q)' /\ Fresh(q)'
  BY <1>1, <1>7, <1>9, Frame
<1>11. PackerInv(p)
  BY DEF IInv
<1>12. PackerInv(p)'
  BY <1>1, <1>4, <1>5, <1>7, <1>9, <1>11 DEF PackerInv, Started, Sealed
<1>13. Fresh(p)'
  BY <1>1, <1>7, <1>9 DEF Fresh, Settled, Sealed, h
<1>14. QED
  BY <1>8, <1>10, <1>12, <1>13 DEF IInv

\* A packer that only goes on to its next place.
LEMMA AliasInvariant == ASSUME IInv, NEW p \in Packers, Alias(p) PROVE IInv'
<1> USE Facts
<1>1. /\ at[p] = "alias" /\ p \notin Sources /\ at' = [at EXCEPT ![p] = "identify"]
      /\ plan' = plan /\ file' = file /\ linked' = linked
      /\ shard' = shard /\ meta' = meta /\ trunk' = trunk /\ model' = model
  BY DEF Alias, Goto, source
<1>2. Typed /\ PackerInv(p) /\ Fresh(p)
  BY DEF IInv
<1>3. Typed'
  BY <1>1, <1>2 DEF Typed, Working
<1>4. at'[p] = "identify" /\ \A q \in Packers \ {p} : at'[q] = at[q]
  BY <1>1, <1>2 DEF Typed
<1>5. SourceInv' /\ TrunkInv' /\ Held' /\ Accepted'
      /\ \A q \in Packers \ {p} : PackerInv(q)' /\ Fresh(q)'
  BY <1>1, <1>4, Frame DEF source
<1>6. PackerInv(p)'
  BY <1>1, <1>2, <1>4 DEF PackerInv, Started, Sealed
<1>7. Fresh(p)'
  BY <1>1, <1>2, <1>4 DEF Fresh, Settled, Started, Sealed
<1>8. QED
  BY <1>3, <1>5, <1>6, <1>7 DEF IInv

\* The identity is that of the metadata as it is now.
LEMMA IdentifyInvariant == ASSUME IInv, NEW p \in Packers, Identify(p) PROVE IInv'
<1> USE Facts
<1>1. /\ at[p] = "identify" /\ at' = [at EXCEPT ![p] = "stage"]
      /\ plan' = [plan EXCEPT ![p].identity = meta] /\ file' = file /\ linked' = linked
      /\ shard' = shard /\ meta' = meta /\ trunk' = trunk /\ model' = model
  BY DEF Identify, Goto, source
<1>2. Typed /\ PackerInv(p) /\ Fresh(p)
  BY DEF IInv
<1>3. plan[p] \in Plans /\ meta \in Revisions
  BY <1>2 DEF Typed
<1>4. /\ plan' = [plan EXCEPT ![p] = [plan[p] EXCEPT !.identity = meta]]
  BY <1>1, <1>2 DEF Typed
<1>5. /\ plan'[p] \in Plans /\ plan'[p].identity = meta
      /\ plan'[p].catalogue = plan[p].catalogue /\ plan'[p].headers = plan[p].headers
      /\ \A q \in Packers \ {p} : plan'[q] = plan[q]
      /\ plan' \in [Packers -> Plans]
  BY <1>2, <1>3, <1>4 DEF Typed, Plans
<1>6. Typed'
  BY <1>1, <1>2, <1>5 DEF Typed, Working
<1>7. at'[p] = "stage" /\ \A q \in Packers \ {p} : at'[q] = at[q]
  BY <1>1, <1>2 DEF Typed
<1>8. SourceInv' /\ TrunkInv' /\ Held' /\ Accepted'
      /\ \A q \in Packers \ {p} : PackerInv(q)' /\ Fresh(q)'
  BY <1>1, <1>5, <1>7, Frame DEF source
<1>9. PackerInv(p)'
  BY <1>1, <1>2, <1>3, <1>5, <1>7 DEF PackerInv, Started, Sealed
<1>10. Fresh(p)'
  BY <1>1, <1>2, <1>5, <1>7 DEF Fresh, Settled, Started, Sealed
<1>11. QED
  BY <1>6, <1>8, <1>9, <1>10 DEF IInv

\* A file that is begun is empty, so what it must hold by now it holds.
LEMMA StageInvariant == ASSUME IInv, NEW p \in Packers, Stage(p) PROVE IInv'
<1> USE Facts
<1>1. /\ at[p] = "stage" /\ at' = [at EXCEPT ![p] = "copy"]
      /\ plan' = plan /\ file' = file /\ linked' = linked \cup {p}
      /\ shard' = shard /\ meta' = meta /\ trunk' = trunk /\ model' = model
  BY DEF Stage, Goto, source
<1>2. Typed /\ PackerInv(p) /\ Fresh(p)
  BY DEF IInv
<1>3. Typed'
  BY <1>1, <1>2 DEF Typed, Working
<1>4. at'[p] = "copy" /\ \A q \in Packers \ {p} : at'[q] = at[q]
  BY <1>1, <1>2 DEF Typed
<1>5. SourceInv' /\ TrunkInv' /\ Held' /\ Accepted'
      /\ \A q \in Packers \ {p} : PackerInv(q)' /\ Fresh(q)'
  BY <1>1, <1>4, Frame DEF source
<1>6. file[p].payload = <<>> /\ Len(<<>>) = 0
  BY <1>1, <1>2 DEF PackerInv
<1>7. PackerInv(p)'
  BY <1>1, <1>2, <1>4, <1>6 DEF PackerInv, Started, Sealed
<1>8. Fresh(p)'
  BY <1>1, <1>2, <1>4, <1>6 DEF Fresh, Settled, Started, Sealed
<1>9. QED
  BY <1>3, <1>5, <1>7, <1>8 DEF IInv

\* What is copied in place is what the shard holds; a packer that is up to date
\* copies the revision that is at rest.
LEMMA CopyInvariant == ASSUME IInv, NEW p \in Packers, Copy(p) PROVE IInv'
<1> USE Facts
<1>1. Typed /\ PackerInv(p) /\ Fresh(p)
  BY DEF IInv
<1> DEFINE i == Len(file[p].payload) + 1
           inPlace == /\ shard[i] \in Revisions
                      /\ Ranges[shard[i]] = Ranges[plan[p].catalogue]
                      /\ Header[shard[i]] = plan[p].headers[i]
           bytes == IF inPlace THEN shard[i] ELSE Garbage
           longer == Append(file[p].payload, bytes)
<1>2. /\ at[p] = "copy" /\ at' = at /\ Len(file[p].payload) < Len(Names)
      /\ file' = [file EXCEPT ![p].payload = longer]
      /\ plan' = plan /\ linked' = linked
      /\ shard' = shard /\ meta' = meta /\ trunk' = trunk /\ model' = model
  BY DEF Copy, source
<1>3. file[p] \in Files /\ file[p].payload \in Seq(Revisions \cup {Garbage})
  BY <1>1 DEF Typed, Files, Contents
<1>4. i \in Positions /\ Len(file[p].payload) \in Nat
  BY <1>2, <1>3, LenProperties
<1>5. bytes \in Revisions \cup {Garbage}
  OBVIOUS
<1> HIDE DEF bytes
<1>6. /\ longer \in Contents /\ Len(longer) = i /\ longer[i] = bytes
      /\ \A k \in 1..Len(file[p].payload) : longer[k] = file[p].payload[k]
  BY <1>3, <1>5, AppendProperties DEF Contents
<1> HIDE DEF longer
<1>7. file' = [file EXCEPT ![p] = [file[p] EXCEPT !.payload = longer]]
  BY <1>1, <1>2 DEF Typed
<1>8. /\ file'[p] \in Files /\ file'[p].payload = longer /\ file'[p].sum = file[p].sum
      /\ file'[p].identity = file[p].identity
      /\ \A q \in Packers \ {p} : file'[q] = file[q]
      /\ file' \in [Packers -> Files]
  BY <1>1, <1>3, <1>6, <1>7 DEF Typed, Files
<1>9. Typed'
  BY <1>1, <1>2, <1>8 DEF Typed
<1>10. SourceInv' /\ TrunkInv' /\ Held' /\ Accepted'
       /\ \A q \in Packers \ {p} : PackerInv(q)' /\ Fresh(q)'
  BY <1>2, <1>8, Frame DEF source
<1>11. PackerInv(p)'
  BY <1>1, <1>2, <1>4, <1>6, <1>8 DEF PackerInv, Started, Sealed
<1>12. Fresh(p)'
  <2> SUFFICES ASSUME plan[p].catalogue = meta, Settled
               PROVE  /\ \A k \in Positions : plan[p].headers[k] = Header[meta]
                      /\ \A k \in 1..Len(longer) : longer[k] = meta
    BY <1>2, <1>8 DEF Fresh, Settled, Started, Sealed
  <2>1. /\ \A k \in Positions : plan[p].headers[k] = Header[meta]
        /\ \A k \in 1..Len(file[p].payload) : file[p].payload[k] = meta
    BY <1>1, <1>2 DEF Fresh, Started
  <2>2. shard[i] = meta /\ meta \in Revisions
    BY <1>1, <1>4 DEF Settled, Typed
  <2>3. bytes = meta
    BY <1>4, <2>1, <2>2 DEF bytes
  <2>4. \A k \in 1..Len(longer) : k = i \/ k \in 1..Len(file[p].payload)
    BY <1>4, <1>6
  <2>5. QED
    BY <1>6, <2>1, <2>3, <2>4
<1>13. QED
  BY <1>9, <1>10, <1>11, <1>12 DEF IInv

\* The header names the identity and the sums of everything that was copied.
LEMMA SealInvariant == ASSUME IInv, NEW p \in Packers, Seal(p) PROVE IInv'
<1> USE Facts
<1>1. Typed /\ PackerInv(p) /\ Fresh(p)
  BY DEF IInv
<1>2. /\ at[p] = "copy" /\ at' = [at EXCEPT ![p] = "replace"]
      /\ Len(file[p].payload) = Len(Names)
      /\ file' = [file EXCEPT ![p].identity = plan[p].identity, ![p].sum = file[p].payload]
      /\ plan' = plan /\ linked' = linked
      /\ shard' = shard /\ meta' = meta /\ trunk' = trunk /\ model' = model
  BY DEF Seal, Goto, source
<1>3. file[p] \in Files /\ file[p].payload \in Contents /\ plan[p].identity \in Revisions
  BY <1>1, <1>2 DEF Typed, Files, PackerInv
<1> DEFINE sealed == [file[p] EXCEPT !.identity = plan[p].identity, !.sum = file[p].payload]
<1>4. file' = [file EXCEPT ![p] = sealed]
  BY <1>1, <1>2 DEF Typed
<1>4a. /\ sealed \in Files /\ sealed.payload = file[p].payload
      /\ sealed.sum = file[p].payload /\ sealed.identity = plan[p].identity
  BY <1>3 DEF Files
<1> HIDE DEF sealed
<1>5. /\ file'[p] \in Files /\ file'[p].payload = file[p].payload
      /\ file'[p].sum = file[p].payload /\ file'[p].identity = plan[p].identity
      /\ \A q \in Packers \ {p} : file'[q] = file[q]
      /\ file' \in [Packers -> Files]
  BY <1>1, <1>4a, <1>4 DEF Typed
<1>6. at'[p] = "replace" /\ \A q \in Packers \ {p} : at'[q] = at[q]
  BY <1>1, <1>2 DEF Typed
<1>7. Typed'
  BY <1>1, <1>2, <1>5 DEF Typed, Working
<1>8. SourceInv' /\ TrunkInv' /\ Held' /\ Accepted'
      /\ \A q \in Packers \ {p} : PackerInv(q)' /\ Fresh(q)'
  BY <1>2, <1>5, <1>6, Frame DEF source
<1>9. PackerInv(p)'
  BY <1>1, <1>2, <1>3, <1>5, <1>6 DEF PackerInv, Started, Sealed
<1>10. Fresh(p)'
  BY <1>1, <1>2, <1>5, <1>6 DEF Fresh, Settled, Started, Sealed
<1>11. QED
  BY <1>7, <1>8, <1>9, <1>10 DEF IInv

\* Only a finished file is renamed, and never over a file of the checkpoint.
LEMMA ReplaceInvariant == ASSUME IInv, NEW p \in Packers, Replace(p) PROVE IInv'
<1> USE Facts
<1>1. Typed /\ \A q \in Packers : PackerInv(q) /\ Fresh(q)
  BY DEF IInv
<1>2. at[p] = "replace" /\ p \notin Sources
  BY <1>1 DEF Replace, PackerInv
<1>3. /\ at' = [at EXCEPT ![p] = "done"] /\ trunk' = p /\ linked' = linked \ {p}
      /\ plan' = plan /\ file' = file
      /\ shard' = shard /\ meta' = meta /\ model' = model
  BY <1>2 DEF Replace, Goto
<1>4. at'[p] = "done" /\ \A q \in Packers \ {p} : at'[q] = at[q]
  BY <1>1, <1>3 DEF Typed
<1>5. Typed'
  BY <1>1, <1>3 DEF Typed, Working
<1>6. SourceInv' /\ TrunkInv'
  BY <1>3, <1>4 DEF IInv, SourceInv, TrunkInv
<1>7. \A q \in Packers : at[q] = "done" => at'[q] = "done"
  BY <1>4
<1>8. Held'
  <2>1. model.fd # NoFile => model.fd \in Packers
    BY <1>1 DEF Typed, Models
  <2>2. QED
    BY <1>3, <1>7, <2>1 DEF IInv, Held
<1>9. Accepted'
  BY <1>3 DEF IInv, Accepted
<1>10. ASSUME NEW q \in Packers PROVE PackerInv(q)' /\ Fresh(q)'
  <2>1. Settled' = Settled
    BY <1>3 DEF Settled
  <2>2. CASE q = p
    <3>1. PackerInv(p)'
      BY <1>1, <1>2, <1>3, <1>4 DEF PackerInv, Started, Sealed
    <3>2. Fresh(p)'
      BY <1>1, <1>2, <1>3, <1>4, <2>1 DEF Fresh, Started, Sealed
    <3>3. QED
      BY <2>2, <3>1, <3>2
  <2>3. CASE q # p
    <3>1. at'[q] = at[q] /\ q \in linked' => q \in linked
      BY <1>3, <1>4, <2>3
    <3>2. PackerInv(q)'
      BY <1>1, <1>3, <1>4, <2>3, <3>1 DEF PackerInv
    <3>3. Fresh(q)'
      BY <1>1, <1>3, <1>4, <2>1, <2>3 DEF Fresh
    <3>4. QED
      BY <3>2, <3>3
  <2>4. QED
    BY <2>2, <2>3
<1>11. QED
  BY <1>5, <1>6, <1>8, <1>9, <1>10 DEF IInv

\* A run that fails forgets everything.
LEMMA FailInvariant == ASSUME IInv, NEW p \in Packers, Fail(p) PROVE IInv'
<1> USE Facts
<1>1. Typed /\ PackerInv(p)
  BY DEF IInv
<1>2. /\ at[p] \in Working /\ at' = [at EXCEPT ![p] = "failed"]
      /\ linked' = linked \ {p}
      /\ plan' = [plan EXCEPT ![p] = NoPlan] /\ file' = [file EXCEPT ![p] = EmptyFile]
      /\ shard' = shard /\ meta' = meta /\ trunk' = trunk /\ model' = model
  BY DEF Fail, Goto, source
<1>3. NoPlan \in Plans /\ EmptyFile \in Files
  BY EmptySeq DEF NoPlan, Plans, EmptyFile, Files, Contents
<1>4. /\ at'[p] = "failed" /\ at[p] # "done"
      /\ \A q \in Packers \ {p} : at'[q] = at[q] /\ plan'[q] = plan[q] /\ file'[q] = file[q]
  BY <1>1, <1>2 DEF Typed, Working
<1>5. Typed'
  BY <1>1, <1>2, <1>3 DEF Typed, Working
<1>6. SourceInv' /\ TrunkInv' /\ Held' /\ Accepted'
      /\ \A q \in Packers \ {p} : PackerInv(q)' /\ Fresh(q)'
  BY <1>2, <1>4, Frame DEF source
<1>7. PackerInv(p)' /\ Fresh(p)'
  BY <1>2, <1>4 DEF PackerInv, Fresh, Started, Sealed
<1>8. QED
  BY <1>5, <1>6, <1>7 DEF IInv

\* A run that is killed leaves its temporary file, which no path names.
LEMMA CrashInvariant == ASSUME IInv, NEW p \in Packers, Crash(p) PROVE IInv'
<1> USE Facts
<1>1. Typed /\ PackerInv(p)
  BY DEF IInv
<1>2. /\ p \in linked /\ at' = [at EXCEPT ![p] = "killed"] /\ linked' = linked
      /\ plan' = plan /\ file' = file
      /\ shard' = shard /\ meta' = meta /\ trunk' = trunk /\ model' = model
  BY DEF Crash, Goto, source
<1>3. at'[p] = "killed" /\ \A q \in Packers \ {p} : at'[q] = at[q]
  BY <1>1, <1>2 DEF Typed
<1>4. at[p] \in {"copy", "replace", "killed"}
  BY <1>1, <1>2 DEF PackerInv
<1>5. Typed'
  BY <1>1, <1>2 DEF Typed, Working
<1>6. SourceInv' /\ TrunkInv' /\ Held' /\ Accepted'
      /\ \A q \in Packers \ {p} : PackerInv(q)' /\ Fresh(q)'
  BY <1>2, <1>3, <1>4, Frame DEF source
<1>7. p \notin Sources
  BY <1>1, <1>4 DEF PackerInv
<1>8. PackerInv(p)' /\ Fresh(p)'
  BY <1>2, <1>3, <1>7 DEF PackerInv, Fresh, Started, Sealed
<1>9. QED
  BY <1>5, <1>6, <1>8 DEF IInv

-------------------------------------------------------------------------------
\* While a new revision arrives nothing is at rest, and no packer or model says
\* anything of a checkpoint that is not at rest.
LEMMA ReplaceShardInvariant ==
  ASSUME IInv, NEW i \in Positions, ReplaceShard(i) PROVE IInv'
<1> USE Facts
<1>1. Typed /\ SourceInv /\ \A p \in Packers : PackerInv(p)
  BY DEF IInv
<1>2. /\ meta + 1 \in Revisions /\ shard[i] = meta /\ shard' = [shard EXCEPT ![i] = meta + 1]
      /\ meta' = meta /\ at' = at /\ plan' = plan /\ file' = file
      /\ linked' = linked /\ trunk' = trunk /\ model' = model
  BY DEF ReplaceShard, packing
<1>3. Typed'
  BY <1>1, <1>2 DEF Typed
<1>4. SourceInv' /\ TrunkInv'
  BY <1>1, <1>2 DEF IInv, Typed, SourceInv, TrunkInv
<1>5. Held' /\ Accepted'
  BY <1>2 DEF IInv, Held, Accepted
<1>6. shard'[i] # meta'
  BY <1>1, <1>2 DEF Typed
<1>7. ASSUME NEW p \in Packers PROVE PackerInv(p)' /\ Fresh(p)'
  <2>1. PackerInv(p)'
    BY <1>1, <1>2 DEF PackerInv
  <2>2. Fresh(p)'
    BY <1>6 DEF Fresh, Settled
  <2>3. QED
    BY <2>1, <2>2
<1>8. QED
  BY <1>3, <1>4, <1>5, <1>7 DEF IInv

\* With the metadata of the new revision every catalogue is an old one.
LEMMA ReplaceMetadataInvariant == ASSUME IInv, ReplaceMetadata PROVE IInv'
<1> USE Facts
<1>1. Typed /\ SourceInv /\ \A p \in Packers : PackerInv(p)
  BY DEF IInv
<1>2. /\ meta + 1 \in Revisions /\ (\A i \in Positions : shard[i] = meta + 1)
      /\ meta' = meta + 1 /\ shard' = shard /\ at' = at /\ plan' = plan /\ file' = file
      /\ linked' = linked /\ trunk' = trunk /\ model' = model
  BY DEF ReplaceMetadata, packing
<1>3. Typed'
  BY <1>1, <1>2 DEF Typed
<1>4. SourceInv' /\ TrunkInv'
  BY <1>1, <1>2 DEF IInv, Typed, SourceInv, TrunkInv
<1>5. Held' /\ Accepted'
  BY <1>2 DEF IInv, Held, Accepted
<1>6. meta \in Nat
  BY <1>1 DEF Typed
<1>7. ASSUME NEW p \in Packers PROVE PackerInv(p)' /\ Fresh(p)'
  <2>1. at[p] \in Started => plan[p].catalogue \in Nat /\ plan[p].catalogue <= meta
    BY <1>1 DEF PackerInv
  <2>2. PackerInv(p)'
    BY <1>1, <1>2, <1>6, <2>1 DEF PackerInv
  <2>3. Fresh(p)'
    BY <1>2, <1>6, <2>1 DEF Fresh
  <2>4. QED
    BY <2>2, <2>3
<1>8. QED
  BY <1>3, <1>4, <1>5, <1>7 DEF IInv

\* What may happen to a finished file: its bytes change or it is truncated, but
\* the header stays, and the payload too if the model has validated it.
LEMMA Aging ==
  ASSUME IInv, NEW p \in Packers, at[p] = "done",
         file' \in [Packers -> Files], \A q \in Packers \ {p} : file'[q] = file[q],
         file'[p].identity = file[p].identity, file'[p].sum = file[p].sum,
         Len(file'[p].payload) = Len(file[p].payload),
         model.fd = p => file'[p].payload = file[p].payload,
         UNCHANGED <<source, at, plan, linked, trunk, model>>
  PROVE  IInv'
<1> USE Facts
<1>1. Typed /\ \A q \in Packers : PackerInv(q) /\ Fresh(q)
  BY DEF IInv
<1>2. /\ shard' = shard /\ meta' = meta /\ at' = at /\ plan' = plan
      /\ linked' = linked /\ trunk' = trunk /\ model' = model
  BY DEF source
<1>3. Typed'
  BY <1>1, <1>2 DEF Typed
<1>4. SourceInv' /\ TrunkInv'
  BY <1>2 DEF IInv, SourceInv, TrunkInv
<1>5. \A q \in Packers : file'[q].identity = file[q].identity /\ file'[q].sum = file[q].sum
  OBVIOUS
<1>6. model.fd \in Packers \cup {NoFile}
  BY <1>1 DEF Typed, Models
<1>7. model.fd # NoFile => file'[model.fd].payload = file[model.fd].payload
  BY <1>6
<1>8. model.at \notin {"closed", "open"} => model.fd # NoFile
  BY DEF IInv, Held
<1>9. Held'
  BY <1>2, <1>5, <1>6, <1>7, <1>8 DEF IInv, Held
<1>10. Accepted'
  BY <1>2, <1>5, <1>6, <1>8 DEF IInv, Accepted
<1>11. ASSUME NEW q \in Packers PROVE PackerInv(q)' /\ Fresh(q)'
  <2>1. Settled' = Settled
    BY <1>2 DEF Settled
  <2>2. Len(file'[q].payload) = Len(file[q].payload)
    OBVIOUS
  <2>3. at[q] # "done" => file'[q] = file[q]
    OBVIOUS
  <2>4. PackerInv(q)'
    BY <1>1, <1>2, <1>5, <2>2, <2>3 DEF PackerInv
  <2>5. Fresh(q)'
    BY <1>1, <1>2, <1>5, <2>1, <2>3 DEF Fresh
  <2>6. QED
    BY <2>4, <2>5
<1>12. QED
  BY <1>3, <1>4, <1>9, <1>10, <1>11 DEF IInv

\* Truncation leaves the recorded bytes alone and marks the file as cut.
LEMMA TruncateInvariant == ASSUME IInv, NEW p \in Packers, Truncate(p) PROVE IInv'
<1>1. Typed /\ at[p] = "done" /\ file' = [file EXCEPT ![p].cut = TRUE]
  BY DEF IInv, Truncate
<1> DEFINE shorter == [file[p] EXCEPT !.cut = TRUE]
<1>2. file' = [file EXCEPT ![p] = shorter]
  BY <1>1 DEF Typed
<1>3. file[p] \in Files
  BY <1>1 DEF Typed
<1>4. /\ shorter \in Files /\ shorter.identity = file[p].identity
      /\ shorter.sum = file[p].sum /\ shorter.payload = file[p].payload
  BY <1>3 DEF Files
<1> HIDE DEF shorter
<1>5. /\ file' \in [Packers -> Files] /\ file'[p] = shorter
      /\ \A q \in Packers \ {p} : file'[q] = file[q]
  BY <1>1, <1>2, <1>4 DEF Typed
<1>6. QED
  BY <1>1, <1>4, <1>5, Aging DEF Truncate

\* What is damaged is the payload, and not while the model holds the file.
LEMMA DamageInvariant == ASSUME IInv, NEW p \in Packers, Damage(p) PROVE IInv'
<1> USE Facts
<1>1. /\ Typed /\ PackerInv(p) /\ at[p] = "done" /\ model.fd # p
      /\ file' = [file EXCEPT ![p].payload[1] = Garbage]
  BY DEF IInv, Damage
<1>2. file[p] \in Files /\ file[p].payload \in Contents
  BY <1>1 DEF Typed, Files
<1> DEFINE spoilt == [file[p].payload EXCEPT ![1] = Garbage]
           damaged == [file[p] EXCEPT !.payload = spoilt]
<1>3. Len(file[p].payload) = Len(Names)
  BY <1>1 DEF PackerInv, Sealed
<1>4. spoilt \in Contents /\ Len(spoilt) = Len(file[p].payload)
  BY <1>2, <1>3, ExceptSeq DEF Contents
<1>5. file' = [file EXCEPT ![p] = damaged]
  BY <1>1 DEF Typed, Files
<1> HIDE DEF spoilt
<1>6. /\ damaged \in Files /\ damaged.identity = file[p].identity
      /\ damaged.sum = file[p].sum /\ damaged.payload = spoilt
  BY <1>2, <1>4 DEF Files
<1> HIDE DEF damaged
<1>7. /\ file' \in [Packers -> Files] /\ file'[p] = damaged
      /\ \A q \in Packers \ {p} : file'[q] = file[q]
  BY <1>1, <1>5, <1>6 DEF Typed
<1>8. QED
  BY <1>1, <1>4, <1>6, <1>7, Aging DEF Damage

-------------------------------------------------------------------------------
\* A model that is closed, by a failed open or by its owner, holds nothing.
LEMMA ClosedModel == model' = Closed => model' \in Models /\ Held' /\ Accepted'
BY Facts DEF Closed, Models, Held, Accepted

\* A step of the model is judged by what it then holds.
LEMMA ModelFrame ==
  ASSUME IInv, model' \in Models, Held', Accepted', UNCHANGED <<source, packing>>
  PROVE  IInv'
<1>1. /\ shard' = shard /\ meta' = meta /\ at' = at /\ plan' = plan /\ file' = file
      /\ linked' = linked /\ trunk' = trunk
  BY DEF source, packing
<1>2. Typed' /\ SourceInv' /\ TrunkInv'
  BY <1>1 DEF IInv, Typed, SourceInv, TrunkInv
<1>3. ASSUME NEW p \in Packers PROVE PackerInv(p)' /\ Fresh(p)'
  BY <1>1 DEF IInv, PackerInv, Fresh, Settled
<1>4. QED
  BY <1>2, <1>3 DEF IInv

\* The open of a model: what it takes from the file at the path, and what each
\* comparison establishes of the file it holds from then on.
LEMMA OpenModelInvariant == ASSUME IInv, OpenModel PROVE IInv'
<1> USE Facts
<1>1. Typed /\ Held /\ Accepted /\ TrunkInv /\ \A p \in Packers : PackerInv(p) /\ Fresh(p)
  BY DEF IInv
<1>2. model \in Models /\ meta \in Revisions
  BY <1>1 DEF Typed
<1>3. UNCHANGED <<source, packing>>
  BY DEF OpenModel, LoadIndex, OpenTrunk, CheckSource, CheckPayload, CheckRanges, OpenFails
<1>4. /\ shard' = shard /\ meta' = meta /\ at' = at /\ plan' = plan /\ file' = file
  BY <1>3 DEF source, packing
<1>5. CASE LoadIndex
  <2>1. model.at = "closed" /\ model' = [model EXCEPT !.at = "open", !.index = meta]
    BY <1>5 DEF LoadIndex
  <2>2. /\ model' \in Models /\ model'.at = "open" /\ model'.fd = model.fd
    BY <1>2, <2>1 DEF Models
  <2>3. Held' /\ Accepted'
    BY <1>1, <2>1, <2>2 DEF Held, Accepted
  <2>4. QED
    BY <1>3, <2>2, <2>3, ModelFrame
<1>6. CASE OpenTrunk
  <2>1. /\ model.at = "open" /\ trunk # NoFile
        /\ model' = [model EXCEPT !.at = "source", !.fd = trunk,
                                  !.identity = file[trunk].identity]
    BY <1>6 DEF OpenTrunk
  <2>2. trunk \in Packers /\ file[trunk] \in Files /\ at[trunk] = "done"
    BY <1>1, <2>1 DEF Typed, TrunkInv
  <2>3. /\ model' \in Models /\ model'.at = "source" /\ model'.fd = trunk
        /\ model'.identity = file[trunk].identity
    BY <1>2, <2>1, <2>2 DEF Models, Files
  <2>4. Held' /\ Accepted'
    BY <1>4, <2>1, <2>2, <2>3 DEF Held, Accepted
  <2>5. QED
    BY <1>3, <2>3, <2>4, ModelFrame
<1>7. CASE CheckSource
  <2>1. /\ model.at = "source" /\ model.identity = meta
        /\ model' = [model EXCEPT !.at = "payload", !.settled = Settled]
    BY <1>7 DEF CheckSource
  <2>2. Settled \in BOOLEAN
    BY DEF Settled
  <2>3. /\ model' \in Models /\ model'.at = "payload" /\ model'.fd = model.fd
        /\ model'.identity = model.identity /\ model'.settled = Settled
    BY <1>2, <2>1, <2>2 DEF Models
  <2>4. /\ model.fd \in Packers /\ at[model.fd] = "done"
        /\ model.identity = file[model.fd].identity
    BY <1>1, <1>2, <2>1 DEF Held, Models
  <2>5. file[model.fd].identity = plan[model.fd].identity
    BY <1>1, <2>4 DEF PackerInv, Sealed
  <2>6. Held'
    BY <1>4, <2>1, <2>3, <2>4 DEF Held
  <2>7. Accepted'
    <3> SUFFICES ASSUME Settled, plan[model.fd].catalogue = plan[model.fd].identity
                 PROVE  \A i \in Positions : file[model.fd].sum[i] = meta
      BY <1>4, <2>1, <2>3 DEF Accepted
    <3>1. QED
      BY <1>1, <2>1, <2>4, <2>5 DEF Fresh, Started, Sealed
  <2>8. QED
    BY <1>3, <2>3, <2>6, <2>7, ModelFrame
<1>8. CASE CheckPayload
  <2>1. /\ model.at = "payload" /\ file[model.fd].payload = file[model.fd].sum
        /\ model' = [model EXCEPT !.at = "ranges"]
    BY <1>8 DEF CheckPayload
  <2>2. /\ model' \in Models /\ model'.at = "ranges" /\ model'.fd = model.fd
        /\ model'.identity = model.identity /\ model'.settled = model.settled
    BY <1>2, <2>1 DEF Models
  <2>3. Held' /\ Accepted'
    BY <1>1, <1>4, <2>1, <2>2 DEF Held, Accepted
  <2>4. QED
    BY <1>3, <2>2, <2>3, ModelFrame
<1>9. CASE CheckRanges
  <2>1. model.at = "ranges" /\ model' = [model EXCEPT !.at = "ready"]
    BY <1>9 DEF CheckRanges
  <2>2. /\ model' \in Models /\ model'.at = "ready" /\ model'.fd = model.fd
        /\ model'.identity = model.identity /\ model'.settled = model.settled
    BY <1>2, <2>1 DEF Models
  <2>3. Held' /\ Accepted'
    BY <1>1, <1>4, <2>1, <2>2 DEF Held, Accepted
  <2>4. QED
    BY <1>3, <2>2, <2>3, ModelFrame
<1>10. CASE OpenFails
  <2>1. model' = Closed
    BY <1>10 DEF OpenFails
  <2>2. QED
    BY <1>3, <2>1, ClosedModel, ModelFrame
<1>11. QED
  BY <1>5, <1>6, <1>7, <1>8, <1>9, <1>10 DEF OpenModel

\* A closed model holds nothing.
LEMMA CloseInvariant == ASSUME IInv, Close PROVE IInv'
<1>1. model' = Closed /\ UNCHANGED <<source, packing>>
  BY DEF Close
<1>2. QED
  BY <1>1, ClosedModel, ModelFrame

-------------------------------------------------------------------------------
\* Every step of a packer, of a model or of the checkpoint keeps the invariant.
LEMMA NextInvariant == IInv /\ [Next]_vars => IInv'
<1> SUFFICES ASSUME IInv, [Next]_vars PROVE IInv'
  OBVIOUS
<1>1. CASE ReplaceMetadata
  BY <1>1, ReplaceMetadataInvariant
<1>2. CASE OpenModel
  BY <1>2, OpenModelInvariant
<1>3. CASE Close
  BY <1>3, CloseInvariant
<1>4. CASE \E i \in Positions : ReplaceShard(i)
  BY <1>4, ReplaceShardInvariant
<1>5. ASSUME NEW p \in Packers, Pack(p) \/ Truncate(p) \/ Damage(p) PROVE IInv'
  BY <1>5, CatalogueInvariant, AliasInvariant, IdentifyInvariant, StageInvariant,
     CopyInvariant, SealInvariant, ReplaceInvariant, FailInvariant, CrashInvariant,
     TruncateInvariant, DamageInvariant DEF Pack
<1>6. CASE UNCHANGED vars
  BY <1>6 DEF vars, source, packing, IInv, Typed, SourceInv, TrunkInv, Held, Accepted,
              PackerInv, Fresh, Settled
<1>7. QED
  BY <1>1, <1>2, <1>3, <1>4, <1>5, <1>6 DEF Next

\* The invariant holds in every state of every behaviour.
THEOREM Invariance == Spec => []IInv
<1>1. Init => IInv
  BY InitInvariant
<1>2. IInv /\ [Next]_vars => IInv'
  BY NextInvariant
<1>3. QED
  BY <1>1, <1>2, PTL DEF Spec

\* Every variable keeps its type; a tool that has a catalogue has the header
\* size of every shard.
THEOREM TypeCorrect == Spec => []TypeOK
<1>1. IInv => TypeOK
  <2> SUFFICES ASSUME IInv PROVE TypeOK
    OBVIOUS
  <2> USE Facts
  <2>1. Typed /\ Held /\ \A p \in Packers : PackerInv(p)
    BY DEF IInv
  <2>2. /\ shard \in [Positions -> Revisions \cup {NoRevision}] /\ meta \in Revisions
        /\ at \in [Packers -> Working \cup {"done", "failed", "killed"}]
        /\ linked \subseteq Packers /\ trunk \in Packers \cup {NoFile}
    BY <2>1 DEF Typed
  <2>3. \A p \in Packers : /\ plan[p].catalogue \in Revisions \cup {NoRevision}
                           /\ plan[p].identity \in Revisions \cup {NoRevision}
    BY <2>1 DEF Typed, Plans
  <2>4. \A p \in Packers : at[p] \in Started =>
                             plan[p].headers \in [Positions -> {Header[r] : r \in Revisions}]
    BY <2>1 DEF PackerInv, HeaderSizes
  <2>5. \A p \in Packers : file[p] \in Files
    BY <2>1 DEF Typed
  <2>6. /\ model.at \in {"closed", "open", "source", "payload", "ranges", "ready"}
        /\ model.at \in {"closed", "open"} <=> model.fd = NoFile
    BY <2>1 DEF Typed, Models, Held
  <2>7. QED
    BY <2>2, <2>3, <2>4, <2>5, <2>6 DEF TypeOK, Files, Started
<1>2. QED
  BY <1>1, Invariance, PTL

\* Whatever fails or is killed, the destination names no file, or one that has
\* the sums of every tensor (pack_trunk.py seals the header before os.replace).
THEOREM WholeDestination == Spec => []DestinationWhole
<1>1. IInv => DestinationWhole
  <2> SUFFICES ASSUME IInv PROVE DestinationWhole
    OBVIOUS
  <2> USE Facts
  <2>1. Typed /\ TrunkInv /\ \A p \in Packers : PackerInv(p)
    BY DEF IInv
  <2>2. ASSUME trunk # NoFile
        PROVE  file[trunk].identity \in Revisions /\ Len(file[trunk].sum) = Len(Names)
    <3>1. trunk \in Packers /\ at[trunk] = "done"
      BY <2>1, <2>2 DEF Typed, TrunkInv
    <3>2. QED
      BY <2>1, <3>1 DEF PackerInv, Sealed
  <2>3. \A p \in linked : at[p] \in Working \cup {"killed"}
    BY <2>1 DEF Typed, PackerInv, Working
  <2>4. QED
    BY <2>2, <2>3 DEF DestinationWhole
<1>2. QED
  BY <1>1, Invariance, PTL

\* No run of the tool destroys a file of the checkpoint: one whose destination
\* is such a file gets no further than the comparison with the inputs.
THEOREM IntactSource == Spec => []SourceIntact
<1>1. IInv => SourceIntact
  BY DEF IInv, Typed, SourceIntact
<1>2. QED
  BY <1>1, Invariance, PTL

\* A trunk that a model accepts on a checkpoint at rest holds the weights of the
\* revision the model was opened on, for every number of tools that pack, of
\* revisions that arrive and of files that are replaced meanwhile.
THEOREM StaleTrunkRefused == Spec => []NeverStale
<1>1. IInv => NeverStale
  <2> SUFFICES ASSUME IInv, model.at = "ready", model.settled,
                      plan[model.fd].catalogue = plan[model.fd].identity
               PROVE  \A i \in Positions : file[model.fd].payload[i] = model.identity
    BY DEF NeverStale
  <2>1. QED
    BY DEF IInv, Held, Accepted
<1>2. QED
  BY <1>1, Invariance, PTL

\* As long as a model is open it reads what was validated or fails, whatever is
\* put at the path: the descriptor keeps naming the file that was summed.
THEOREM PinnedReads == Spec => []ReadsArePinned
<1>1. IInv => ReadsArePinned
  BY DEF IInv, Held, ReadsArePinned, PackedRead
<1>2. QED
  BY <1>1, Invariance, PTL

-------------------------------------------------------------------------------
\* The range has this byte of the shard.
Has(range, number, byte) ==
  range.shard = number /\ range.start <= byte /\ byte < range.start + range.bytes

Slot == [range : Listing, place : Nat]

ReadTyped ==
  /\ backing \in {"packed", "extracted"} /\ listed \in Seq(Listing) /\ table \in Seq(Slot)
  /\ stage \in {"closed", "refused", "idle", "invalid", "nothing", "search", "pread",
                "collect", "answered"}
  /\ stage \in {"invalid", "nothing", "search", "pread", "collect"} => request \in Request

\* The table is the list in the order of the shards, without overlaps.
Arranged ==
  stage \notin {"closed", "refused"} =>
    \E order \in Sorted :
      /\ ~Overlapping(order)
      /\ table = [k \in DOMAIN listed |-> [range |-> listed[order[k]], place |-> order[k]]]

Rested ==
  stage \in {"closed", "refused", "idle"} =>
    low = 0 /\ high = 0 /\ next = 1 /\ start = 0 /\ output = <<>>

Serving == stage \in {"search", "pread", "collect"}
Wanted == request.start + request.relative

\* What is known of the request.
Asked ==
  /\ stage = "invalid" => ~InBounds(request)
  /\ stage = "nothing" => InBounds(request) /\ request.wanted = 0
  /\ Serving => InBounds(request) /\ request.wanted > 0
  /\ stage \in {"search", "pread"} => backing = "packed" /\ start = Wanted
  /\ stage = "collect" => backing = "extracted"

\* The ranges before low start early enough, those from high on do not.
Searching ==
  stage = "search" =>
    /\ output = <<>> /\ low \in Nat /\ high \in Nat /\ low <= high /\ high <= Len(table)
    /\ \A k \in 1..low : GoesRight(table[k].range)
    /\ \A k \in (high + 1)..Len(table) : ~GoesRight(table[k].range)

\* The range has all that is wanted, and what was read of it is right.
Reading ==
  stage = "pread" =>
    /\ low \in 1..Len(table) /\ Has(table[low].range, request.shard, Wanted)
    /\ Wanted + request.wanted <= table[low].range.start + table[low].range.bytes
    /\ Len(output) \in 0..request.wanted
    /\ output = Original(request.shard, Wanted, Len(output))

\* What was collected is right, was there, and goes on in none of the ranges passed.
Collecting ==
  stage = "collect" =>
    /\ next \in 1..(Len(table) + 1) /\ Len(output) \in 0..request.wanted
    /\ start = Wanted + Len(output)
    /\ output = Original(request.shard, Wanted, Len(output))
    /\ \A b \in Wanted..(start - 1) : \E k \in DOMAIN listed : Covers(k, request.shard, b)
    /\ Len(output) < request.wanted =>
         \A k \in 1..(next - 1) : ~Has(table[k].range, request.shard, start)

RInv ==
  ReadTyped /\ Arranged /\ Rested /\ Asked /\ Searching /\ Reading /\ Collecting /\ ReadExact

-------------------------------------------------------------------------------
\* A value of a uint64_t is its own remainder.
LEMMA Fitting == ASSUME NEW x \in Unsigned PROVE x % Word = x
<1>1. Word \in Nat /\ x \in Nat /\ x < Word /\ Word > 0
  BY ReadAssumption DEF Unsigned
<1>2. x = Word * (x \div Word) + (x % Word) /\ x % Word \in 0..(Word - 1) /\ x \div Word \in Nat
  BY <1>1
<1> DEFINE q == x \div Word
           r == x % Word
<1>3. x = Word * q + r /\ r \in Nat /\ q \in Nat
  BY <1>1, <1>2
<1> HIDE DEF q, r
<1>4. q = 0
  <2> SUFFICES ASSUME q >= 1 PROVE FALSE
    BY <1>3
  <2>1. Word * q >= Word
    BY <1>1, <1>3
  <2> QED
    BY <1>1, <1>3, <2>1
<1>5. x = r
  BY <1>1, <1>3, <1>4
<1> QED
  BY <1>5 DEF r

\* The checks of the bounds, which the code makes without a sum that could wrap, say
\* that the part lies in the tensor and the tensor in the shard.
LEMMA BoundsAre ==
  ASSUME NEW r \in Request
  PROVE  /\ InBounds(r) <=> /\ r.shard \in Shards /\ r.relative + r.wanted <= r.bytes
                            /\ r.start + r.bytes <= Size
         /\ r.start \in Nat /\ r.bytes \in Nat /\ r.relative \in Nat /\ r.wanted \in Nat
         /\ InBounds(r) => (r.start + r.relative) % Word = r.start + r.relative
<1>1. /\ r.start \in Unsigned /\ r.bytes \in Unsigned /\ r.relative \in Unsigned
      /\ r.wanted \in Unsigned
  BY DEF Request
<1>2. Word \in Nat /\ Size \in Nat /\ Size < Word
  BY ReadAssumption
<1>3. /\ r.start \in Nat /\ r.bytes \in Nat /\ r.relative \in Nat /\ r.wanted \in Nat
      /\ r.start < Word /\ r.bytes < Word /\ r.relative < Word /\ r.wanted < Word
  BY <1>1, <1>2 DEF Unsigned
<1>4. r.relative <= r.bytes => (r.bytes - r.relative) % Word = r.bytes - r.relative
  <2> SUFFICES ASSUME r.relative <= r.bytes
               PROVE  (r.bytes - r.relative) % Word = r.bytes - r.relative
    OBVIOUS
  <2>1. r.bytes - r.relative \in Unsigned
    BY <1>2, <1>3 DEF Unsigned
  <2> QED
    BY <2>1, Fitting
<1>5. r.start <= Word - 1 - r.bytes => (r.start + r.bytes) % Word = r.start + r.bytes
  <2> SUFFICES ASSUME r.start <= Word - 1 - r.bytes
               PROVE  (r.start + r.bytes) % Word = r.start + r.bytes
    OBVIOUS
  <2>1. r.start + r.bytes \in Unsigned
    BY <1>2, <1>3 DEF Unsigned
  <2> QED
    BY <2>1, Fitting
<1>6. InBounds(r) <=> /\ r.shard \in Shards /\ r.relative <= r.bytes
                      /\ r.wanted <= r.bytes - r.relative
                      /\ r.start <= Word - 1 - r.bytes /\ r.start + r.bytes <= Size
  BY <1>4, <1>5 DEF InBounds
<1>7. InBounds(r) <=> /\ r.shard \in Shards /\ r.relative + r.wanted <= r.bytes
                      /\ r.start + r.bytes <= Size
  BY <1>2, <1>3, <1>6
<1>8. ASSUME InBounds(r) PROVE (r.start + r.relative) % Word = r.start + r.relative
  <2>1. r.start + r.relative \in Unsigned
    BY <1>2, <1>3, <1>6, <1>8 DEF Unsigned
  <2> QED
    BY <2>1, Fitting
<1> QED
  BY <1>3, <1>7, <1>8

-------------------------------------------------------------------------------
Cells == Nat \X Nat

\* The bytes of a shard, one by one.
LEMMA OriginalShape ==
  ASSUME NEW s \in Nat, NEW f \in Nat, NEW c \in Nat
  PROVE  /\ Original(s, f, c) \in Seq(Cells) /\ Len(Original(s, f, c)) = c
         /\ \A k \in 1..c : Original(s, f, c)[k] = <<s, f + k - 1>>
<1>1. \A k \in 1..c : <<s, f + k - 1>> \in Cells
  BY DEF Cells
<1>2. Original(s, f, c) \in [1..c -> Cells]
  BY <1>1 DEF Original
<1>3. Original(s, f, c) \in Seq(Cells) /\ Len(Original(s, f, c)) = c
  BY <1>2
<1> QED
  BY <1>3 DEF Original

\* The d bytes behind the first c are joined to them.
Joins(s, f, c, d) ==
  /\ Original(s, f, c) \o Original(s, f + c, d) = Original(s, f, c + d)
  /\ Len(Original(s, f, c + d)) = c + d

\* What follows in the shard follows in the output.
LEMMA OriginalJoined ==
  ASSUME NEW s \in Nat, NEW f \in Nat, NEW c \in Nat, NEW d \in Nat PROVE Joins(s, f, c, d)
<1> DEFINE a == Original(s, f, c)
           b == Original(s, f + c, d)
           u == Original(s, f, c + d)
<1>1. a \in Seq(Cells) /\ Len(a) = c /\ \A k \in 1..c : a[k] = <<s, f + k - 1>>
  BY OriginalShape
<1>2. b \in Seq(Cells) /\ Len(b) = d /\ \A k \in 1..d : b[k] = <<s, f + c + k - 1>>
  <2> DEFINE g == f + c
  <2>1. g \in Nat
    OBVIOUS
  <2> HIDE DEF g
  <2>2. /\ Original(s, g, d) \in Seq(Cells) /\ Len(Original(s, g, d)) = d
        /\ \A k \in 1..d : Original(s, g, d)[k] = <<s, g + k - 1>>
    BY <2>1, OriginalShape
  <2> QED
    BY <2>2 DEF g
<1>3. u \in Seq(Cells) /\ Len(u) = c + d /\ \A k \in 1..(c + d) : u[k] = <<s, f + k - 1>>
  <2> DEFINE e == c + d
  <2>1. e \in Nat
    OBVIOUS
  <2> HIDE DEF e
  <2>2. /\ Original(s, f, e) \in Seq(Cells) /\ Len(Original(s, f, e)) = e
        /\ \A k \in 1..e : Original(s, f, e)[k] = <<s, f + k - 1>>
    BY <2>1, OriginalShape
  <2> QED
    BY <2>2 DEF e
<1> HIDE DEF a, b, u
<1>4. /\ a \o b \in Seq(Cells) /\ Len(a \o b) = c + d
      /\ \A k \in 1..(c + d) : (a \o b)[k] = IF k <= c THEN a[k] ELSE b[k - c]
  BY <1>1, <1>2, ConcatProperties
<1>5. ASSUME NEW k \in 1..(c + d) PROVE (a \o b)[k] = u[k]
  <2>1. CASE k <= c
    <3>1. k \in 1..c
      BY <2>1
    <3> QED
      BY <1>1, <1>3, <1>4, <2>1, <3>1
  <2>2. CASE ~(k <= c)
    <3>1. k - c \in 1..d /\ f + c + (k - c) - 1 = f + k - 1
      BY <2>2
    <3> QED
      BY <1>2, <1>3, <1>4, <2>2, <3>1
  <2> QED
    BY <2>1, <2>2
<1>6. a \o b = u
  BY <1>3, <1>4, <1>5, SeqEqual
<1> QED
  BY <1>3, <1>6 DEF Joins, a, b, u

-------------------------------------------------------------------------------
\* One range ends before the other starts, in the order of the shards.
Behind(r, t) ==
  r.shard < t.shard \/ (r.shard = t.shard /\ r.start + r.bytes <= t.start)

\* Neighbours in a checked list do not overlap, hence no two ranges do.
LEMMA NoneOverlap ==
  ASSUME NEW n \in Nat, NEW r \in [1..n -> Listing],
         \A k \in 1..n - 1 : Behind(r[k], r[k + 1])
  PROVE  \A i, j \in 1..n : i < j => Behind(r[i], r[j])
<1> SUFFICES ASSUME NEW i \in 1..n PROVE \A j \in 1..n : i < j => Behind(r[i], r[j])
  OBVIOUS
<1> DEFINE Bad == {j \in 1..n : i < j /\ ~Behind(r[i], r[j])}
<1> SUFFICES ASSUME Bad # {} PROVE FALSE
  OBVIOUS
<1>1. PICK j \in Bad : \A k \in Bad : j <= k
  <2>1. Bad \in SUBSET Nat
    OBVIOUS
  <2> HIDE DEF Bad
  <2> QED
    BY <2>1, LeastNatural
<1>2. j \in 1..n /\ i < j /\ ~Behind(r[i], r[j])
  OBVIOUS
<1> DEFINE h == j - 1
<1>3. h \in 1..n - 1 /\ h \in 1..n /\ h + 1 = j /\ (h = i \/ i < h) /\ ~(j <= h)
  BY <1>2
<1>4. h \notin Bad
  BY <1>1, <1>3
<1> HIDE DEF h
<1>5. Behind(r[h], r[j])
  BY <1>3
<1>6. i < h => Behind(r[i], r[h])
  BY <1>3, <1>4
<1>7. i < h
  BY <1>2, <1>3, <1>5
<1>8. r[i] \in Listing /\ r[h] \in Listing /\ r[j] \in Listing
  BY <1>2, <1>3
<1>9. ASSUME NEW u \in Listing, NEW v \in Listing, NEW w \in Listing, Behind(u, v), Behind(v, w)
      PROVE  Behind(u, w)
  <2>1. /\ u.shard \in Nat /\ v.shard \in Nat /\ w.shard \in Nat
        /\ u.start \in Nat /\ v.start \in Nat /\ w.start \in Nat
        /\ u.bytes \in Nat /\ v.bytes \in Nat
    BY DEF Listing
  <2>2. /\ u.shard < v.shard \/ (u.shard = v.shard /\ u.start + u.bytes <= v.start)
        /\ v.shard < w.shard \/ (v.shard = w.shard /\ v.start + v.bytes <= w.start)
    BY <1>9 DEF Behind
  <2>3. u.shard < w.shard \/ (u.shard = w.shard /\ u.start + u.bytes <= w.start)
    <3>1. CASE u.shard = v.shard /\ v.shard = w.shard
      <4>1. u.start + u.bytes <= v.start /\ v.start + v.bytes <= w.start
        BY <2>1, <2>2, <3>1
      <4> QED
        BY <2>1, <3>1, <4>1
    <3>2. CASE u.shard = v.shard /\ v.shard < w.shard
      BY <3>2
    <3>3. CASE u.shard < v.shard /\ v.shard = w.shard
      BY <3>3
    <3>4. CASE u.shard < v.shard /\ v.shard < w.shard
      BY <2>1, <3>4
    <3> QED
      BY <2>2, <3>1, <3>2, <3>3, <3>4
  <2> QED
    BY <2>3 DEF Behind
<1> QED
  BY <1>2, <1>5, <1>6, <1>7, <1>8, <1>9

\* What an open leaves: the list in order, without overlaps.
LEMMA TableIs ==
  ASSUME ReadTyped, Arranged, stage \notin {"closed", "refused"}
  PROVE  /\ Len(table) = Len(listed) /\ Len(table) \in Nat
         /\ \A k \in 1..Len(table) :
              /\ table[k].place \in 1..Len(listed) /\ table[k].range = listed[table[k].place]
              /\ table[k].range \in Listing
         /\ \A p \in 1..Len(listed) : \E k \in 1..Len(table) : table[k].range = listed[p]
         /\ \A i, j \in 1..Len(table) : i < j => Behind(table[i].range, table[j].range)
<1> DEFINE n == Len(listed)
<1>1. n \in Nat /\ DOMAIN listed = 1..n /\ \A k \in 1..n : listed[k] \in Listing
  BY DEF ReadTyped
<1>2. PICK order \in Sorted :
        /\ ~Overlapping(order)
        /\ table = [k \in DOMAIN listed |-> [range |-> listed[order[k]], place |-> order[k]]]
  BY DEF Arranged
<1>3. /\ order \in [1..n -> 1..n]
      /\ \A p \in 1..n : \E k \in 1..n : order[k] = p
      /\ \A k \in 1..n - 1 : NotAfter(listed[order[k]], listed[order[k + 1]])
  BY <1>1 DEF Sorted, Bijection, Injection, Surjection
<1>4. Len(table) = n
  <2>1. table \in Seq(Slot) /\ DOMAIN table = 1..n
    BY <1>1, <1>2 DEF ReadTyped
  <2> QED
    BY <1>1, <2>1, LenProperties
<1> HIDE DEF n
<1>5. \A k \in 1..n : /\ table[k].place \in 1..n /\ table[k].range = listed[table[k].place]
                      /\ table[k].range = listed[order[k]] /\ table[k].range \in Listing
  BY <1>1, <1>2, <1>3
<1> DEFINE r == [k \in 1..n |-> listed[order[k]]]
<1>6. ASSUME NEW k \in 1..n - 1 PROVE Behind(r[k], r[k + 1])
  <2>1. k \in 1..n /\ k + 1 \in 1..n
    BY <1>1
  <2> DEFINE u == listed[order[k]]
             v == listed[order[k + 1]]
  <2>2. u \in Listing /\ v \in Listing
    BY <1>1, <1>3, <2>1
  <2>3. NotAfter(u, v)
    BY <1>3
  <2>4. ~(u.shard = v.shard /\ v.start - u.start < u.bytes)
    BY <1>2 DEF Overlapping, n
  <2>5. r[k] = u /\ r[k + 1] = v
    BY <2>1
  <2> HIDE DEF u, v, r
  <2> QED
    BY <2>2, <2>3, <2>4, <2>5 DEF NotAfter, Behind, Listing
<1>7. r \in [1..n -> Listing] /\ \A k \in 1..n : r[k] = table[k].range
  BY <1>1, <1>3, <1>5
<1> HIDE DEF r
<1>8. \A i, j \in 1..n : i < j => Behind(r[i], r[j])
  BY <1>1, <1>6, <1>7, NoneOverlap
<1>9. \A p \in 1..n : \E k \in 1..n : table[k].range = listed[p]
  <2> TAKE p \in 1..n
  <2>1. PICK k \in 1..n : order[k] = p
    BY <1>3
  <2>2. table[k].range = listed[p]
    BY <1>5, <2>1
  <2> QED
    BY <2>2
<1>10. \A i, j \in 1..n : i < j => Behind(table[i].range, table[j].range)
  BY <1>7, <1>8
<1> QED
  BY <1>1, <1>4, <1>5, <1>9, <1>10 DEF n

\* No byte is in two ranges.
LEMMA OneHas ==
  ASSUME ReadTyped, Arranged, stage \notin {"closed", "refused"},
         NEW i \in 1..Len(table), NEW j \in 1..Len(table), NEW s, NEW b \in Nat,
         Has(table[i].range, s, b), Has(table[j].range, s, b)
  PROVE  i = j
<1>1. /\ table[i].range \in Listing /\ table[j].range \in Listing
      /\ i < j => Behind(table[i].range, table[j].range)
      /\ j < i => Behind(table[j].range, table[i].range)
      /\ Len(table) \in Nat
  BY TableIs
<1> QED
  BY <1>1 DEF Has, Behind, Listing

\* The bytes of the list are those of the table.
LEMMA CoversIs ==
  ASSUME ReadTyped, Arranged, stage \notin {"closed", "refused"}, NEW s, NEW b \in Nat
  PROVE  /\ \A p \in DOMAIN listed : Covers(p, s, b) <=> Has(listed[p], s, b)
         /\ (\E p \in DOMAIN listed : Covers(p, s, b)) <=>
              (\E k \in 1..Len(table) : Has(table[k].range, s, b))
<1>1. DOMAIN listed = 1..Len(listed) /\ \A k \in 1..Len(listed) : listed[k] \in Listing
  BY DEF ReadTyped
<1>2. \A p \in DOMAIN listed : Covers(p, s, b) <=> Has(listed[p], s, b)
  BY <1>1 DEF Covers, Has, Listing
<1>3. /\ \A k \in 1..Len(table) :
           table[k].place \in 1..Len(listed) /\ table[k].range = listed[table[k].place]
      /\ \A p \in 1..Len(listed) : \E k \in 1..Len(table) : table[k].range = listed[p]
  BY TableIs
<1> QED
  BY <1>1, <1>2, <1>3

-------------------------------------------------------------------------------
\* What the trunk has at a part of a range is what the shard has there.
LEMMA TrunkBytesAre ==
  ASSUME ReadTyped, NEW p \in 1..Len(listed), NEW w \in Nat, NEW c \in Nat,
         w + c <= listed[p].bytes
  PROVE  TrunkBytes(p, w, c) = Original(listed[p].shard, listed[p].start + w, c)
<1> DEFINE n == Len(listed)
           parts == [k \in 1..n |-> Original(listed[k].shard, listed[k].start, listed[k].bytes)]
<1>1. /\ n \in Nat \ {0} /\ DOMAIN listed = 1..n
      /\ \A k \in 1..n : /\ listed[k].shard \in Nat /\ listed[k].start \in Nat
                          /\ listed[k].bytes \in Nat
  <2>1. n \in Nat /\ DOMAIN listed = 1..n /\ \A k \in 1..n : listed[k] \in Listing
    BY DEF ReadTyped
  <2>2. n # 0
    BY <2>1
  <2> QED
    BY <2>1, <2>2 DEF Listing
<1>2. \A k \in 1..n : /\ parts[k] \in Seq(Cells) /\ Len(parts[k]) = listed[k].bytes
                      /\ \A i \in 1..listed[k].bytes :
                           parts[k][i] = <<listed[k].shard, listed[k].start + i - 1>>
  <2> TAKE k \in 1..n
  <2> DEFINE s == listed[k].shard
             f == listed[k].start
             m == listed[k].bytes
  <2>1. s \in Nat /\ f \in Nat /\ m \in Nat
    BY <1>1
  <2>2. parts[k] = Original(s, f, m)
    OBVIOUS
  <2> HIDE DEF s, f, m, parts, n
  <2>3. /\ Original(s, f, m) \in Seq(Cells) /\ Len(Original(s, f, m)) = m
        /\ \A i \in 1..m : Original(s, f, m)[i] = <<s, f + i - 1>>
    BY <2>1, OriginalShape
  <2> QED
    BY <2>2, <2>3 DEF s, f, m
<1>3. TrunkPayload = FlattenSeq(parts) /\ Destination(p) = SumOver(Lengths, 1..(p - 1))
  BY <1>1 DEF TrunkPayload, Destination, SumOver
<1>4. parts \in [1..n -> Seq(Cells)] /\ \A k \in 1..n : Lengths[k] = Len(parts[k])
  BY <1>1, <1>2 DEF Lengths
<1> DEFINE u == TrunkPayload
           d == Destination(p)
           l == listed[p].bytes
<1> HIDE DEF n, parts
<1>5. /\ FlattenSeq(parts) \in Seq(Cells)
      /\ Located(FlattenSeq(parts), SumOver(Lengths, 1..(p - 1)), parts[p])
  <2>1. p \in 1..n
    BY DEF n
  <2> QED
    BY <1>1, <1>4, <2>1, FlattenedAt
<1>6. /\ u \in Seq(Cells) /\ d \in Nat /\ l \in Nat /\ d + l <= Len(u)
      /\ \A i \in 1..l : u[d + i] = <<listed[p].shard, listed[p].start + i - 1>>
  <2>1. p \in 1..n
    BY DEF n
  <2>2. Len(parts[p]) = l /\ l \in Nat
        /\ \A i \in 1..l : parts[p][i] = <<listed[p].shard, listed[p].start + i - 1>>
    BY <1>1, <1>2, <2>1
  <2>3. u \in Seq(Cells) /\ Located(u, d, parts[p])
    BY <1>3, <1>5
  <2> HIDE DEF u, d, l
  <2> QED
    BY <2>2, <2>3 DEF Located
<1>7. TrunkBytes(p, w, c) = SubSeq(u, d + w + 1, d + w + c)
  BY DEF TrunkBytes
<1> DEFINE s == listed[p].shard
           f == listed[p].start + w
<1>8. s \in Nat /\ f \in Nat /\ w + c <= l
  BY <1>1 DEF n
<1>9. \A i \in 1..c : u[d + w + i] = <<s, f + i - 1>>
  <2> TAKE i \in 1..c
  <2> DEFINE j == w + i
  <2> HIDE DEF u, d, l
  <2>1. j \in 1..l /\ d + j = d + w + i
    <3>1. w + i \in 1..l
      BY <1>6, <1>8
    <3> QED
      BY <1>6, <3>1
  <2>2. u[d + j] = <<listed[p].shard, listed[p].start + j - 1>>
    BY <1>6, <2>1
  <2>3. listed[p].start + j - 1 = f + i - 1
    BY <1>1 DEF n
  <2> QED
    BY <2>1, <2>2, <2>3
<1>10. Original(s, f, c) \in Seq(Cells) /\ Len(Original(s, f, c)) = c
       /\ \A i \in 1..c : Original(s, f, c)[i] = <<s, f + i - 1>>
  <2> HIDE DEF s, f
  <2> QED
    BY <1>8, OriginalShape
<1> HIDE DEF u, d, l, s, f
<1>11. \A i \in (d + w + 1)..(d + w + c) : u[i] \in Cells
  <2> TAKE i \in (d + w + 1)..(d + w + c)
  <2>1. i \in 1..Len(u)
    BY <1>6, <1>8
  <2> QED
    BY <1>6, <2>1, ElementOfSeq
<1> DEFINE v == SubSeq(u, d + w + 1, d + w + c)
<1>12. v \in Seq(Cells) /\ Len(v) = c /\ \A i \in 1..c : v[i] = u[d + w + i]
  <2> DEFINE a == d + w + 1
             b == d + w + c
  <2>1. a \in Int /\ b \in Int /\ b - a + 1 = c /\ (IF a <= b THEN b - a + 1 ELSE 0) = c
        /\ \A i \in 1..c : a + i - 1 = d + w + i
    BY <1>6
  <2> HIDE DEF a, b
  <2>2. /\ SubSeq(u, a, b) \in Seq(Cells) /\ Len(SubSeq(u, a, b)) = c
        /\ \A i \in 1..(b - a + 1) : SubSeq(u, a, b)[i] = u[a + i - 1]
    <3>1. \A i \in a..b : u[i] \in Cells
      BY <1>11 DEF a, b
    <3> QED
      BY <2>1, <3>1, SubSeqProperties
  <2>3. \A i \in 1..c : SubSeq(u, a, b)[i] = u[d + w + i]
    BY <2>1, <2>2
  <2> QED
    BY <2>2, <2>3 DEF a, b
<1> HIDE DEF v
<1>13. v = Original(s, f, c)
  BY <1>9, <1>10, <1>12, SeqEqual
<1> QED
  BY <1>7, <1>13 DEF v, s, f

-------------------------------------------------------------------------------
\* What a read has to give, case by case.
LEMMA ReferenceIs ==
  ASSUME NEW r \in Request
  PROVE  LET first == r.start + r.relative
             wanted == first..(first + r.wanted - 1)
             data == Original(r.shard, first, r.wanted)
             held(k) == \A b \in wanted : Covers(k, r.shard, b)
         IN /\ ~InBounds(r) => Reference(r) = Answer("error", <<>>)
            /\ InBounds(r) /\ r.wanted = 0 => Reference(r) = Answer("nothing", <<>>)
            /\ InBounds(r) /\ r.wanted > 0 /\ backing = "extracted" =>
                 /\ (\A b \in wanted : \E k \in DOMAIN listed : Covers(k, r.shard, b)) =>
                      Reference(r) = Answer("blobs", data)
                 /\ (\E b \in wanted : \A k \in DOMAIN listed : ~Covers(k, r.shard, b)) =>
                      Reference(r) = Answer("error", <<>>)
            /\ InBounds(r) /\ r.wanted > 0 /\ backing = "packed" =>
                 /\ (\A k \in DOMAIN listed : ~Covers(k, r.shard, first)) =>
                      Reference(r) = Answer("shard", data)
                 /\ (\E k \in DOMAIN listed : held(k)) => Reference(r) = Answer("trunk", data)
                 /\ (\E k \in DOMAIN listed : Covers(k, r.shard, first))
                    /\ (\A k \in DOMAIN listed : Covers(k, r.shard, first) => ~held(k)) =>
                      Reference(r) = Answer("error", <<>>)
<1> DEFINE first == r.start + r.relative
           wanted == first..(first + r.wanted - 1)
           data == Original(r.shard, first, r.wanted)
           held(k) == \A b \in wanted : Covers(k, r.shard, b)
           holders == {k \in DOMAIN listed : Covers(k, r.shard, first)}
           whole == \E k \in holders : held(k)
           pieces == \A b \in wanted : \E k \in DOMAIN listed : Covers(k, r.shard, b)
           from == IF backing = "extracted" THEN (IF pieces THEN "blobs" ELSE "error")
                   ELSE IF holders = {} THEN "shard" ELSE IF whole THEN "trunk" ELSE "error"
<1>1. Reference(r) =
        IF r.shard \notin Shards \/ r.relative + r.wanted > r.bytes \/ r.start + r.bytes > Size
          THEN Answer("error", <<>>)
        ELSE IF r.wanted = 0 THEN Answer("nothing", <<>>)
        ELSE Answer(from, IF from = "error" THEN <<>> ELSE data)
  BY DEF Reference
<1>2. /\ InBounds(r) <=> /\ r.shard \in Shards /\ r.relative + r.wanted <= r.bytes
                          /\ r.start + r.bytes <= Size
      /\ r.start \in Nat /\ r.bytes \in Nat /\ r.relative \in Nat /\ r.wanted \in Nat
  BY BoundsAre
<1>3. InBounds(r) <=> ~(r.shard \notin Shards \/ r.relative + r.wanted > r.bytes
                        \/ r.start + r.bytes > Size)
  BY <1>2, ReadAssumption
<1>4. r.wanted > 0 => first \in wanted /\ r.wanted # 0
  BY <1>2
<1> HIDE DEF first, wanted, data, from
<1>5. ASSUME InBounds(r), r.wanted > 0
      PROVE  Reference(r) = Answer(from, IF from = "error" THEN <<>> ELSE data)
  BY <1>1, <1>3, <1>4, <1>5
<1>6. r.wanted > 0 /\ (\E k \in DOMAIN listed : held(k)) => holders # {} /\ whole
  BY <1>4
<1> HIDE DEF held
<1>7. /\ ~InBounds(r) => Reference(r) = Answer("error", <<>>)
      /\ InBounds(r) /\ r.wanted = 0 => Reference(r) = Answer("nothing", <<>>)
  BY <1>1, <1>3
<1>8. ASSUME InBounds(r), r.wanted > 0, backing = "extracted"
      PROVE  /\ pieces => Reference(r) = Answer("blobs", data)
             /\ ~pieces => Reference(r) = Answer("error", <<>>)
  BY <1>5, <1>8 DEF from
<1>9. ASSUME InBounds(r), r.wanted > 0, backing = "packed"
      PROVE  /\ holders = {} => Reference(r) = Answer("shard", data)
             /\ holders # {} /\ whole => Reference(r) = Answer("trunk", data)
             /\ holders # {} /\ ~whole => Reference(r) = Answer("error", <<>>)
  BY <1>5, <1>9 DEF from
<1> QED
  BY <1>6, <1>7, <1>8, <1>9 DEF held, wanted, data, first

-------------------------------------------------------------------------------
\* What is known of a request that is being served.
LEMMA RequestIs ==
  ASSUME RInv, Serving
  PROVE  /\ request \in Request /\ InBounds(request) /\ request.wanted > 0
         /\ request.shard \in Nat /\ Wanted \in Nat /\ request.wanted \in Nat
         /\ stage \notin {"closed", "refused"} /\ ReadTyped /\ Arranged
<1>1. /\ request \in Request /\ InBounds(request) /\ request.wanted > 0
      /\ stage \notin {"closed", "refused"} /\ ReadTyped /\ Arranged
  BY DEF RInv, Serving, ReadTyped, Asked
<1>2. request.start \in Nat /\ request.relative \in Nat /\ request.wanted \in Nat
  BY <1>1, BoundsAre
<1>3. request.shard \in Nat
  BY <1>1 DEF Request
<1> QED
  BY <1>1, <1>2, <1>3 DEF Wanted

\* A byte that nothing has begun with.
LEMMA NothingYet == ASSUME NEW s \in Nat, NEW f \in Nat PROVE Original(s, f, 0) = <<>>
<1>1. Original(s, f, 0) \in Seq(Cells) /\ Len(Original(s, f, 0)) = 0
  BY OriginalShape
<1> QED
  BY <1>1, EmptySeq

\* Before it is opened, a list is at rest.
LEMMA ReadBegins == ReadInit => RInv
<1> SUFFICES ASSUME ReadInit PROVE RInv
  OBVIOUS
<1>1. listed \in Seq(Listing) /\ table \in Seq(Slot)
  BY ReadAssumption DEF ReadInit
<1> QED
  BY <1>1 DEF ReadInit, RInv, ReadTyped, Arranged, Rested, Asked, Searching, Reading, Collecting,
              ReadExact, Serving

\* An open sorts what is listed.
LEMMA OpenInvariant == RInv /\ Open => RInv'
<1> SUFFICES ASSUME RInv, Open PROVE RInv'
  OBVIOUS
<1>1. PICK order \in Sorted :
        IF WellListed /\ ~Overlapping(order)
          THEN /\ table' = [k \in DOMAIN listed |->
                              [range |-> listed[order[k]], place |-> order[k]]]
               /\ stage' = "idle"
          ELSE stage' = "refused" /\ UNCHANGED table
  BY DEF Open
<1>2. /\ UNCHANGED <<backing, listed, request, low, high, next, start, output, answer>>
      /\ stage = "closed" /\ stage' \in {"idle", "refused"}
  BY <1>1 DEF Open
<1>3. table' \in Seq(Slot)
  <2>1. CASE WellListed /\ ~Overlapping(order)
    <3> DEFINE n == Len(listed)
    <3>1. n \in Nat /\ DOMAIN listed = 1..n /\ \A k \in 1..n : listed[k] \in Listing
      BY DEF RInv, ReadTyped
    <3>2. order \in [1..n -> 1..n]
      BY <3>1 DEF Sorted, Bijection, Injection
    <3>3. \A k \in 1..n : [range |-> listed[order[k]], place |-> order[k]] \in Slot
      <4> TAKE k \in 1..n
      <4>1. order[k] \in 1..n
        BY <3>2
      <4>2. order[k] \in Nat /\ listed[order[k]] \in Listing
        BY <3>1, <4>1
      <4> QED
        BY <4>2 DEF Slot
    <3>4. table' = [k \in 1..n |-> [range |-> listed[order[k]], place |-> order[k]]]
      BY <1>1, <2>1, <3>1
    <3> QED
      BY <3>1, <3>3, <3>4
  <2>2. CASE ~(WellListed /\ ~Overlapping(order))
    BY <1>1, <2>2 DEF RInv, ReadTyped
  <2> QED
    BY <2>1, <2>2
<1>4. ReadTyped'
  BY <1>2, <1>3 DEF RInv, ReadTyped
<1>5. Arranged'
  <2> SUFFICES ASSUME stage' \notin {"closed", "refused"}
               PROVE  \E o \in Sorted' :
                        /\ ~Overlapping(o)'
                        /\ table' = [k \in DOMAIN listed' |->
                                       [range |-> listed'[o[k]], place |-> o[k]]]
    BY DEF Arranged
  <2>1. Sorted' = Sorted /\ Overlapping(order)' = Overlapping(order)
    BY <1>2 DEF Sorted, Overlapping
  <2> QED
    BY <1>1, <1>2, <2>1
<1>6. Rested'
  BY <1>2 DEF RInv, Rested
<1> QED
  BY <1>2, <1>4, <1>5, <1>6
  DEF RInv, Asked, Searching, Reading, Collecting, ReadExact, Serving

\* What is opened stays as it is.
LEMMA Opened ==
  ASSUME RInv, stage \notin {"closed", "refused"}, UNCHANGED opened
  PROVE  Arranged'
<1>1. backing' = backing /\ listed' = listed /\ table' = table
  BY DEF opened
<1>2. PICK order \in Sorted :
        /\ ~Overlapping(order)
        /\ table = [k \in DOMAIN listed |-> [range |-> listed[order[k]], place |-> order[k]]]
  BY DEF RInv, Arranged
<1>3. Sorted' = Sorted /\ Overlapping(order)' = Overlapping(order)
  BY <1>1 DEF Sorted, Overlapping
<1> QED
  BY <1>1, <1>2, <1>3 DEF Arranged

\* A call begins with nothing read.
LEMMA ReadInvariant == RInv /\ Read => RInv'
<1> SUFFICES ASSUME RInv, Read PROVE RInv'
  OBVIOUS
<1>1. PICK r \in Requests :
        /\ request' = r
        /\ \/ ~InBounds(r) /\ stage' = "invalid" /\ UNCHANGED <<high, start>>
           \/ InBounds(r) /\ r.wanted = 0 /\ stage' = "nothing" /\ UNCHANGED <<high, start>>
           \/ /\ InBounds(r) /\ r.wanted > 0
              /\ stage' = (IF backing = "packed" THEN "search" ELSE "collect")
              /\ high' = Len(table) /\ start' = (r.start + r.relative) % Word
  BY DEF Read
<1>2. /\ UNCHANGED <<opened, low, next, output, answer>> /\ stage = "idle" /\ r \in Request
      /\ stage' \in {"invalid", "nothing", "search", "collect"}
      /\ low = 0 /\ next = 1 /\ output = <<>> /\ backing \in {"packed", "extracted"}
  BY <1>1, ReadAssumption DEF Read, RInv, Rested, ReadTyped
<1>3. backing' = backing /\ listed' = listed /\ table' = table
  BY <1>2 DEF opened
<1>4. ReadTyped' /\ Arranged'
  <2>1. Arranged'
    BY <1>2, Opened
  <2> QED
    BY <1>1, <1>2, <1>3, <2>1 DEF RInv, ReadTyped
<1>5. InBounds(request)' <=> InBounds(r)
  BY <1>1 DEF InBounds
<1>6. CASE stage' \in {"invalid", "nothing"}
  BY <1>1, <1>2, <1>4, <1>5, <1>6
  DEF RInv, Rested, Asked, Searching, Reading, Collecting, ReadExact, Serving
<1>7. CASE stage' \in {"search", "collect"}
  <2>1. /\ InBounds(r) /\ r.wanted > 0 /\ high' = Len(table)
        /\ start' = (r.start + r.relative) % Word
        /\ stage' = (IF backing = "packed" THEN "search" ELSE "collect")
    BY <1>1, <1>7
  <2>2. /\ Wanted' = r.start + r.relative /\ start' = Wanted' /\ Wanted' \in Nat
        /\ r.wanted \in Nat
    BY <1>1, <1>2, <2>1, BoundsAre DEF Wanted
  <2>3. Len(table) \in Nat
    BY <1>2, TableIs DEF RInv
  <2>4. Asked'
    BY <1>1, <1>2, <1>3, <1>5, <1>7, <2>1, <2>2 DEF Asked, Serving
  <2>5. Searching'
    <3>1. low' = 0 /\ output' = <<>> /\ table' = table
      BY <1>2, <1>3
    <3>2. \A k : k \notin 1..0 /\ k \notin (Len(table) + 1)..Len(table)
      BY <2>3
    <3> QED
      BY <2>1, <2>3, <3>1, <3>2 DEF Searching
  <2>6. Collecting'
    <3>1. next' = 1 /\ output' = <<>> /\ table' = table /\ listed' = listed /\ request' = r
      BY <1>1, <1>2, <1>3
    <3>2. Len(<<>>) = 0 /\ 1 \in 1..(Len(table) + 1)
      BY <2>3
    <3>3. <<>> = Original(r.shard, Wanted', 0)
      <4>1. r.shard \in Nat
        BY <1>2 DEF Request
      <4> QED
        BY <2>2, <4>1, NothingYet
    <3>4. start' = Wanted' + 0 /\ 0 \in 0..r.wanted
      BY <2>2
    <3>5. \A b : b \notin Wanted'..(start' - 1)
      BY <2>2
    <3>6. \A k : k \notin 1..(1 - 1)
      OBVIOUS
    <3>7. /\ next' \in 1..(Len(table') + 1) /\ Len(output') \in 0..request'.wanted
          /\ start' = Wanted' + Len(output')
          /\ output' = Original(request'.shard, Wanted', Len(output'))
      BY <3>1, <3>2, <3>3, <3>4
    <3>8. \A k : k \notin 1..(next' - 1)
      BY <3>1, <3>6
    <3> QED
      BY <3>5, <3>7, <3>8 DEF Collecting, Original
  <2>7. Rested' /\ Reading' /\ ReadExact'
    BY <1>7 DEF Rested, Reading, ReadExact
  <2> QED
    BY <1>4, <2>4, <2>5, <2>6, <2>7 DEF RInv
<1> QED
  BY <1>2, <1>6, <1>7

\* An answer is right if it is the reference, or an I/O error.
LEMMA FinishInvariant ==
  ASSUME RInv, stage \notin {"closed", "refused"}, NEW a, Finish(a),
         a.from # "io" => a = Reference(request)
  PROVE  RInv'
<1>1. /\ answer' = a /\ stage' = "answered" /\ request' = request
      /\ backing' = backing /\ listed' = listed /\ table' = table /\ UNCHANGED opened
  BY DEF Finish, opened
<1>2. ReadTyped' /\ Arranged'
  <2>1. Arranged'
    BY <1>1, Opened
  <2> QED
    BY <1>1, <2>1 DEF RInv, ReadTyped
<1>3. Reference(request)' = Reference(request)
  BY <1>1 DEF Reference, Covers
<1>4. ReadExact'
  BY <1>1, <1>3 DEF ReadExact
<1> QED
  BY <1>1, <1>2, <1>4 DEF RInv, Rested, Asked, Searching, Reading, Collecting, Serving

\* What is refused, and what asks for nothing.
LEMMA ReturnInvariant == RInv /\ Return => RInv'
<1> SUFFICES ASSUME RInv, Return PROVE RInv'
  OBVIOUS
<1> DEFINE a == IF stage = "invalid" THEN Answer("error", <<>>) ELSE Answer("nothing", <<>>)
<1>1. stage \in {"invalid", "nothing"} /\ Finish(a)
  BY DEF Return
<1>2. /\ request \in Request
      /\ stage = "invalid" => ~InBounds(request)
      /\ stage = "nothing" => InBounds(request) /\ request.wanted = 0
  BY <1>1 DEF RInv, ReadTyped, Asked
<1>3. a = Reference(request)
  <2>1. /\ ~InBounds(request) => Reference(request) = Answer("error", <<>>)
        /\ InBounds(request) /\ request.wanted = 0 =>
             Reference(request) = Answer("nothing", <<>>)
    BY <1>2, ReferenceIs
  <2> QED
    BY <1>1, <1>2, <2>1
<1> HIDE DEF a
<1> QED
  BY <1>1, <1>3, FinishInvariant

\* A call leaves nothing behind.
LEMMA ForgetInvariant == RInv /\ Forget => RInv'
<1> SUFFICES ASSUME RInv, Forget PROVE RInv'
  OBVIOUS
<1>1. /\ stage = "answered" /\ stage' = "idle" /\ UNCHANGED opened
      /\ low' = 0 /\ high' = 0 /\ next' = 1 /\ start' = 0 /\ output' = <<>>
  BY DEF Forget
<1>2. ReadTyped' /\ Arranged'
  <2>1. Arranged'
    BY <1>1, Opened
  <2> QED
    BY <1>1, <2>1 DEF RInv, ReadTyped, opened
<1> QED
  BY <1>1, <1>2
  DEF RInv, Rested, Asked, Searching, Reading, Collecting, ReadExact, Serving

-------------------------------------------------------------------------------
\* The table is sorted for the search, too.
LEMMA SearchIsMonotonic ==
  ASSUME RInv, stage = "search", NEW i \in 1..Len(table), NEW j \in 1..Len(table), i <= j,
         GoesRight(table[j].range)
  PROVE  GoesRight(table[i].range)
<1>1. /\ request.shard \in Nat /\ Wanted \in Nat /\ ReadTyped /\ Arranged
      /\ stage \notin {"closed", "refused"}
  BY RequestIs DEF Serving
<1>2. /\ table[i].range \in Listing /\ table[j].range \in Listing
      /\ i < j => Behind(table[i].range, table[j].range)
  BY <1>1, TableIs
<1>3. start \in Nat
  BY <1>1 DEF RInv, Asked
<1> DEFINE u == table[i].range
           v == table[j].range
<1>4. i = j \/ i < j
  BY <1>1, TableIs
<1>5. CASE i < j
  <2>1. Behind(u, v) /\ GoesRight(v) /\ u \in Listing /\ v \in Listing
    BY <1>2, <1>5
  <2> HIDE DEF u, v
  <2>2. /\ u.shard \in Nat /\ v.shard \in Nat /\ u.start \in Nat /\ v.start \in Nat
        /\ u.bytes \in Nat
    BY <2>1 DEF Listing
  <2>3. ASSUME u.shard < v.shard PROVE GoesRight(u)
    BY <1>1, <2>1, <2>2, <2>3 DEF GoesRight
  <2>4. ASSUME u.shard = v.shard, u.start + u.bytes <= v.start PROVE GoesRight(u)
    <3>1. u.start <= v.start
      BY <2>2, <2>4
    <3>2. v.start <= start => u.start <= start
      BY <1>3, <2>2, <3>1
    <3> QED
      BY <2>1, <2>4, <3>2 DEF GoesRight
  <2>5. GoesRight(u)
    BY <2>1, <2>3, <2>4 DEF Behind
  <2> QED
    BY <2>5 DEF u
<1> QED
  BY <1>4, <1>5

\* A turn of the search leaves fewer ranges to look at, and the right ones.
LEMMA HalveInvariant == RInv /\ Halve => RInv'
<1> SUFFICES ASSUME RInv, Halve PROVE RInv'
  OBVIOUS
<1>1. /\ stage = "search" /\ low < high /\ stage' = "search"
      /\ IF GoesRight(table[Middle + 1].range)
           THEN low' = Middle + 1 /\ UNCHANGED high
           ELSE high' = Middle /\ UNCHANGED low
      /\ UNCHANGED <<opened, request, next, start, output, answer>>
      /\ backing' = backing /\ listed' = listed /\ table' = table
  BY DEF Halve, opened
<1>2. /\ output = <<>> /\ low \in Nat /\ high \in Nat /\ low <= high /\ high <= Len(table)
      /\ \A k \in 1..low : GoesRight(table[k].range)
      /\ \A k \in (high + 1)..Len(table) : ~GoesRight(table[k].range)
  BY <1>1 DEF RInv, Searching
<1>3. Len(table) \in Nat
  BY <1>1, TableIs DEF RInv
<1>4. Middle \in Nat /\ low <= Middle /\ Middle < high
  BY <1>1, <1>2 DEF Middle
<1>5. \A k \in 1..Len(table) : GoesRight(table[k].range)' <=> GoesRight(table[k].range)
  BY <1>1 DEF GoesRight
<1> HIDE DEF Middle
<1>6. Middle + 1 \in 1..Len(table)
  BY <1>2, <1>3, <1>4
<1>7. ASSUME GoesRight(table[Middle + 1].range) PROVE Searching'
  <2>1. low' = Middle + 1 /\ high' = high
    BY <1>1, <1>7
  <2>2. \A k \in 1..(Middle + 1) : GoesRight(table[k].range)
    <3> TAKE k \in 1..(Middle + 1)
    <3>1. k \in 1..Len(table) /\ k <= Middle + 1
      BY <1>3, <1>4, <1>6
    <3> QED
      BY <1>1, <1>6, <1>7, <3>1, SearchIsMonotonic
  <2>3. \A k \in 1..(Middle + 1) : k \in 1..Len(table)
    BY <1>3, <1>4, <1>6
  <2>4. \A k \in (high + 1)..Len(table) : k \in 1..Len(table)
    BY <1>2, <1>3
  <2>5. \A k \in 1..low' : GoesRight(table[k].range)'
    BY <1>5, <2>1, <2>2, <2>3
  <2>6. \A k \in (high' + 1)..Len(table') : ~GoesRight(table[k].range)'
    BY <1>1, <1>2, <1>5, <2>1, <2>4
  <2>7. low' \in Nat /\ high' \in Nat /\ low' <= high' /\ high' <= Len(table')
    BY <1>1, <1>2, <1>3, <1>4, <2>1
  <2> QED
    BY <1>1, <1>2, <2>5, <2>6, <2>7 DEF Searching
<1>8. ASSUME ~GoesRight(table[Middle + 1].range) PROVE Searching'
  <2>1. low' = low /\ high' = Middle
    BY <1>1, <1>8
  <2>2. \A k \in (Middle + 1)..Len(table) : ~GoesRight(table[k].range)
    <3> TAKE k \in (Middle + 1)..Len(table)
    <3>1. k \in 1..Len(table) /\ Middle + 1 <= k
      BY <1>3, <1>4
    <3> QED
      BY <1>1, <1>6, <1>8, <3>1, SearchIsMonotonic
  <2>3. \A k \in (Middle + 1)..Len(table) : k \in 1..Len(table)
    BY <1>3, <1>4
  <2>4. \A k \in 1..low : k \in 1..Len(table)
    BY <1>2, <1>3
  <2>5. \A k \in 1..low' : GoesRight(table[k].range)'
    BY <1>2, <1>5, <2>1, <2>4
  <2>6. \A k \in (high' + 1)..Len(table') : ~GoesRight(table[k].range)'
    BY <1>1, <1>5, <2>1, <2>2, <2>3
  <2>7. low' \in Nat /\ high' \in Nat /\ low' <= high' /\ high' <= Len(table')
    BY <1>1, <1>2, <1>3, <1>4, <2>1
  <2> QED
    BY <1>1, <1>2, <2>5, <2>6, <2>7 DEF Searching
<1>9. Searching'
  BY <1>7, <1>8
<1>10. ReadTyped' /\ Arranged' /\ Asked'
  <2>1. Arranged'
    BY <1>1, Opened
  <2> QED
    BY <1>1, <2>1 DEF RInv, ReadTyped, Asked, Serving, InBounds, Wanted
<1> QED
  BY <1>1, <1>9, <1>10 DEF RInv, Rested, Reading, Collecting, ReadExact

\* Where the search ends there is the range with the first byte, if there is one.
LEMMA SearchEnds ==
  ASSUME RInv, stage = "search", low = high
  PROVE  /\ Handled => low \in 1..Len(table) /\ Has(table[low].range, request.shard, start)
         /\ ~Handled => \A k \in 1..Len(table) : ~Has(table[k].range, request.shard, start)
         /\ start = Wanted /\ start \in Nat /\ backing = "packed"
<1>1. /\ request.shard \in Nat /\ Wanted \in Nat /\ ReadTyped /\ Arranged
      /\ stage \notin {"closed", "refused"}
  BY RequestIs DEF Serving
<1>2. start = Wanted /\ start \in Nat /\ backing = "packed"
  BY <1>1 DEF RInv, Asked
<1>3. /\ low \in Nat /\ low <= Len(table)
      /\ \A k \in 1..low : GoesRight(table[k].range)
      /\ \A k \in (low + 1)..Len(table) : ~GoesRight(table[k].range)
  BY DEF RInv, Searching
<1>4. /\ Len(table) \in Nat /\ \A k \in 1..Len(table) : table[k].range \in Listing
      /\ \A i, j \in 1..Len(table) : i < j => Behind(table[i].range, table[j].range)
  BY <1>1, TableIs
<1>5. ASSUME Handled
      PROVE  low \in 1..Len(table) /\ Has(table[low].range, request.shard, start)
  <2>1. low \in 1..Len(table)
    BY <1>3, <1>4, <1>5 DEF Handled
  <2>2. table[low].range.start \in Nat /\ table[low].range.bytes \in Nat
    BY <1>4, <2>1 DEF Listing
  <2> QED
    BY <1>2, <1>5, <2>1, <2>2 DEF Handled, Has
<1>6. ASSUME NEW k \in 1..Len(table), Has(table[k].range, request.shard, start) PROVE Handled
  <2> DEFINE u == table[k].range
             v == table[low].range
  <2>1. u.shard = request.shard /\ u.start <= start /\ start < u.start + u.bytes
        /\ u.shard \in Nat /\ u.start \in Nat /\ u.bytes \in Nat
    BY <1>4, <1>6 DEF Has, Listing
  <2>2. GoesRight(u)
    BY <2>1 DEF GoesRight
  <2>3. k \in 1..low
    <3>1. k \notin (low + 1)..Len(table)
      BY <1>3, <2>2
    <3> QED
      BY <1>3, <1>4, <3>1
  <2>4. low \in 1..Len(table) /\ low > 0 /\ (k = low \/ k < low)
    BY <1>3, <1>4, <2>3
  <2>5. /\ v.shard \in Nat /\ v.start \in Nat /\ v.bytes \in Nat
        /\ GoesRight(v)
    BY <1>3, <1>4, <2>4 DEF Listing
  <2>6. k = low
    <3> SUFFICES ASSUME k < low PROVE FALSE
      BY <2>4
    <3>1. Behind(u, v)
      BY <1>4, <2>4
    <3> HIDE DEF u, v
    <3>2. CASE u.shard < v.shard
      BY <1>1, <2>1, <2>5, <3>2 DEF GoesRight
    <3>3. CASE u.shard = v.shard /\ u.start + u.bytes <= v.start
      <4>1. v.start <= start
        BY <1>1, <2>1, <2>5, <3>3 DEF GoesRight
      <4> QED
        BY <1>2, <2>1, <2>5, <3>3, <4>1
    <3> QED
      BY <3>1, <3>2, <3>3 DEF Behind
  <2>7. start - u.start < u.bytes
    BY <1>2, <2>1
  <2> QED
    BY <1>2, <2>1, <2>4, <2>6, <2>7 DEF Handled
<1> QED
  BY <1>2, <1>5, <1>6

\* A part of the trunk's range is read, or the tensor is only partly in it.
LEMMA FromTrunkInvariant == RInv /\ FromTrunk => RInv'
<1> SUFFICES ASSUME RInv, FromTrunk PROVE RInv'
  OBVIOUS
<1> DEFINE r == table[low].range
           available == r.bytes - (start - r.start)
           first == request.start + request.relative
           wanted == first..(first + request.wanted - 1)
<1>1. /\ stage = "search" /\ low = high /\ Handled
      /\ IF request.wanted > available THEN Finish(Answer("error", <<>>))
         ELSE /\ stage' = "pread"
              /\ UNCHANGED <<opened, request, low, high, next, start, output, answer>>
  BY DEF FromTrunk
<1>2. /\ request \in Request /\ InBounds(request) /\ request.wanted > 0
      /\ request.shard \in Nat /\ request.wanted \in Nat /\ ReadTyped /\ Arranged
      /\ stage \notin {"closed", "refused"} /\ first \in Nat /\ first = Wanted
  BY <1>1, RequestIs DEF Serving, Wanted
<1>3. /\ low \in 1..Len(table) /\ Has(r, request.shard, start)
      /\ start = first /\ backing = "packed"
  BY <1>1, <1>2, SearchEnds
<1>4. r.start \in Nat /\ r.bytes \in Nat /\ r.start <= start /\ start < r.start + r.bytes
      /\ r.shard = request.shard
  BY <1>2, <1>3, TableIs DEF Listing, Has
<1>5. CASE request.wanted > available
  <2>1. Finish(Answer("error", <<>>))
    BY <1>1, <1>5
  <2> DEFINE b == first + request.wanted - 1
  <2>2. b \in wanted /\ b \in Nat /\ ~Has(r, request.shard, b)
    BY <1>2, <1>3, <1>4, <1>5 DEF Has
  <2>3. \E k \in DOMAIN listed : Covers(k, request.shard, first)
    BY <1>2, <1>3, CoversIs
  <2>4. ASSUME NEW k \in DOMAIN listed, Covers(k, request.shard, first)
        PROVE  ~Covers(k, request.shard, b)
    <3>1. Has(listed[k], request.shard, first)
      BY <1>2, <2>4, CoversIs
    <3>2. PICK j \in 1..Len(table) : table[j].range = listed[k]
      <4>1. DOMAIN listed = 1..Len(listed)
        BY <1>2 DEF ReadTyped
      <4> QED
        BY <1>2, <4>1, TableIs
    <3>3. j = low
      <4>1. /\ Has(table[j].range, request.shard, first)
            /\ Has(table[low].range, request.shard, first)
        BY <1>3, <3>1, <3>2
      <4> HIDE DEF first, r
      <4> QED
        BY <1>2, <1>3, <4>1, OneHas
    <3>4. ~Has(listed[k], request.shard, b)
      BY <2>2, <3>2, <3>3
    <3> HIDE DEF b
    <3> QED
      BY <1>2, <2>2, <3>4, CoversIs
  <2>5. Reference(request) = Answer("error", <<>>)
    <3>1. (\E k \in DOMAIN listed : Covers(k, request.shard, first))
          /\ (\A k \in DOMAIN listed : Covers(k, request.shard, first) =>
                 ~(\A c \in wanted : Covers(k, request.shard, c)))
      BY <2>2, <2>3, <2>4
    <3> QED
      BY <1>2, <1>3, <3>1, ReferenceIs
  <2> QED
    BY <1>2, <2>1, <2>5, FinishInvariant
<1>6. CASE ~(request.wanted > available)
  <2>1. /\ stage' = "pread" /\ backing' = backing /\ listed' = listed /\ table' = table
        /\ UNCHANGED <<opened, request, low, high, next, start, output, answer>>
    BY <1>1, <1>6 DEF opened
  <2>2. ReadTyped' /\ Arranged' /\ Asked'
    <3>1. Arranged'
      BY <1>2, <2>1, Opened
    <3> QED
      BY <1>1, <2>1, <3>1 DEF RInv, ReadTyped, Asked, Serving, InBounds, Wanted
  <2>3. Reading'
    <3>1. output' = <<>> /\ Len(<<>>) = 0
      BY <1>1, <2>1 DEF RInv, Searching
    <3>2. Original(request.shard, Wanted, 0) = <<>>
      BY <1>2, NothingYet
    <3>3. Wanted' = Wanted /\ request' = request /\ low' = low /\ table' = table
      BY <2>1 DEF Wanted
    <3>4. Wanted + request.wanted <= r.start + r.bytes /\ 0 <= request.wanted
      BY <1>2, <1>3, <1>4, <1>6
    <3>5. (output = Original(request.shard, Wanted, Len(output)))'
      BY <3>1, <3>2, <3>3 DEF Original
    <3>6. Has(r, request.shard, Wanted)
      BY <1>2, <1>3
    <3>7. (Len(output) \in 0..request.wanted)'
      BY <1>2, <3>1, <3>3
    <3> HIDE DEF first, wanted, available
    <3>8. low \in 1..Len(table) /\ Has(table[low].range, request.shard, Wanted)
          /\ Wanted + request.wanted <= table[low].range.start + table[low].range.bytes
      BY <1>3, <3>4, <3>6
    <3>9. (low \in 1..Len(table) /\ Has(table[low].range, request.shard, Wanted)
          /\ Wanted + request.wanted <= table[low].range.start + table[low].range.bytes)'
      BY <3>3, <3>8 DEF Has
    <3> QED
      BY <3>5, <3>7, <3>9 DEF Reading
  <2> QED
    BY <2>1, <2>2, <2>3 DEF RInv, Rested, Searching, Collecting, ReadExact
<1> QED
  BY <1>5, <1>6

\* What the trunk does not have comes from the shard.
LEMMA FromShardInvariant == RInv /\ FromShard => RInv'
<1> SUFFICES ASSUME RInv, FromShard PROVE RInv'
  OBVIOUS
<1> DEFINE a == Answer("shard", Original(request.shard, start, request.wanted))
<1>1. stage = "search" /\ low = high /\ ~Handled /\ Finish(a)
  BY DEF FromShard
<1>2. /\ request \in Request /\ InBounds(request) /\ request.wanted > 0
      /\ request.shard \in Nat /\ ReadTyped /\ Arranged
      /\ stage \notin {"closed", "refused"} /\ Wanted \in Nat
  BY <1>1, RequestIs DEF Serving
<1>3. /\ \A k \in 1..Len(table) : ~Has(table[k].range, request.shard, start)
      /\ start = Wanted /\ backing = "packed"
  BY <1>1, SearchEnds
<1>4. \A k \in DOMAIN listed : ~Covers(k, request.shard, Wanted)
  BY <1>2, <1>3, CoversIs
<1>5. a = Reference(request)
  BY <1>2, <1>3, <1>4, ReferenceIs DEF Wanted
<1> HIDE DEF a
<1> QED
  BY <1>1, <1>2, <1>5, FinishInvariant

\* The least of two.
LEMMA LeastOfTwo ==
  ASSUME NEW a \in Nat, NEW b \in Nat
  PROVE  Min({a, b}) \in Nat /\ Min({a, b}) <= a /\ Min({a, b}) <= b /\ Min({a, b}) \in {a, b}
<1>1. {a, b} \in SUBSET Nat /\ {a, b} # {}
  OBVIOUS
<1>2. Min({a, b}) \in {a, b} /\ \A x \in {a, b} : Min({a, b}) <= x
  BY <1>1, LeastIs
<1> QED
  BY <1>2

\* The same of what is being read: v is what there is, u what it becomes.
Grows(s, f, c, d, v, u) ==
  v = Original(s, f, c) /\ u = v \o Original(s, f + c, d) =>
    Len(u) = c + d /\ u = Original(s, f, Len(u))

\* What is read grows by what comes next.
LEMMA GoesOn ==
  ASSUME NEW s \in Nat, NEW f \in Nat, NEW c \in Nat, NEW d \in Nat, NEW v, NEW u
  PROVE  Grows(s, f, c, d, v, u)
<1> SUFFICES ASSUME v = Original(s, f, c), u = v \o Original(s, f + c, d)
             PROVE  Len(u) = c + d /\ u = Original(s, f, Len(u))
  BY DEF Grows
<1>1. Joins(s, f, c, d)
  BY OriginalJoined
<1>2. u = Original(s, f, c + d) /\ Len(Original(s, f, c + d)) = c + d
  BY <1>1 DEF Joins
<1> QED
  BY <1>2

\* However much a pread() gives, it is what comes next.
LEMMA PreadInvariant == RInv /\ Pread => RInv'
<1> SUFFICES ASSUME RInv, Pread PROVE RInv'
  OBVIOUS
<1>1. /\ stage = "pread" /\ stage' = "pread" /\ Remaining > 0
      /\ UNCHANGED <<opened, stage, request, low, high, next, start, answer>>
      /\ backing' = backing /\ listed' = listed /\ table' = table
  BY DEF Pread, opened
<1>2. PICK got \in 1..Min({Chunk, Remaining}) :
        output' = output \o TrunkBytes(table[low].place, Position, got)
  BY DEF Pread
<1>3. /\ request.shard \in Nat /\ request.wanted \in Nat /\ ReadTyped /\ Arranged
      /\ stage \notin {"closed", "refused"} /\ Wanted \in Nat
  BY <1>1, RequestIs DEF Serving
<1> DEFINE r == table[low].range
           p == table[low].place
           l == Len(output)
<1>4. /\ low \in 1..Len(table) /\ Has(r, request.shard, Wanted)
      /\ Wanted + request.wanted <= r.start + r.bytes
      /\ l \in 0..request.wanted /\ output = Original(request.shard, Wanted, l)
  BY <1>1 DEF RInv, Reading
<1>5. /\ r.start \in Nat /\ r.bytes \in Nat /\ r.start <= Wanted /\ r.shard = request.shard
      /\ p \in 1..Len(listed) /\ r = listed[p]
  BY <1>3, <1>4, TableIs DEF Listing, Has
<1>6. l \in Nat /\ Remaining = request.wanted - l /\ Remaining \in Nat
  BY <1>3, <1>4 DEF Remaining
<1>7. got \in Nat /\ got <= Remaining
  <2>1. Min({Chunk, Remaining}) \in Nat /\ Min({Chunk, Remaining}) <= Remaining
    BY <1>6, ReadAssumption, LeastOfTwo
  <2> QED
    BY <1>6, <2>1
<1> DEFINE w == Wanted - r.start + l
<1>8. Position = w /\ w \in Nat /\ w + got <= r.bytes /\ r.start + w = Wanted + l
  <2>1. start = Wanted
    BY <1>1 DEF RInv, Asked
  <2>2. Position = Wanted - r.start + l
    BY <2>1 DEF Position
  <2> HIDE DEF l, r, p
  <2>3. w \in Nat /\ r.start + w = Wanted + l
    BY <1>3, <1>5, <1>6
  <2>4. l + got <= request.wanted
    BY <1>3, <1>6, <1>7
  <2>5. w + got <= r.bytes
    <3>1. /\ Wanted \in Nat /\ request.wanted \in Nat /\ l \in Nat /\ got \in Nat
          /\ r.start \in Nat /\ r.bytes \in Nat /\ Wanted + request.wanted <= r.start + r.bytes
      BY <1>3, <1>4, <1>5, <1>6, <1>7
    <3> QED
      BY <2>4, <3>1
  <2> QED
    BY <2>2, <2>3, <2>5
<1> HIDE DEF w, r, p, l
<1>9. TrunkBytes(p, Position, got) = Original(request.shard, Wanted + l, got)
  <2>1. w + got <= listed[p].bytes
    BY <1>5, <1>8
  <2>2. TrunkBytes(p, w, got) = Original(listed[p].shard, listed[p].start + w, got)
    BY <1>3, <1>5, <1>7, <1>8, <2>1, TrunkBytesAre
  <2> QED
    BY <1>5, <1>8, <2>2
<1>10. Len(output') = l + got /\ output' = Original(request.shard, Wanted, Len(output'))
  <2>1. output' = output \o Original(request.shard, Wanted + l, got)
    BY <1>2, <1>9 DEF p
  <2>2. request.shard \in Nat /\ Wanted \in Nat /\ l \in Nat /\ got \in Nat
        /\ output = Original(request.shard, Wanted, l)
    BY <1>3, <1>4, <1>6, <1>7
  <2>3. Grows(request.shard, Wanted, l, got, output, output')
    BY <2>2, GoesOn
  <2> QED
    BY <2>1, <2>2, <2>3 DEF Grows
<1>11. Len(output') \in 0..request.wanted
  BY <1>3, <1>6, <1>7, <1>10
<1>12. Reading'
  <2>1. low' = low /\ table' = table /\ request' = request /\ Wanted' = Wanted
    BY <1>1 DEF Wanted
  <2>2. (output = Original(request.shard, Wanted, Len(output)))'
    BY <1>10, <2>1 DEF Original
  <2>3. low \in 1..Len(table) /\ Has(table[low].range, request.shard, Wanted)
        /\ Wanted + request.wanted <= table[low].range.start + table[low].range.bytes
    BY <1>4 DEF r
  <2>4. (low \in 1..Len(table) /\ Has(table[low].range, request.shard, Wanted)
        /\ Wanted + request.wanted <= table[low].range.start + table[low].range.bytes)'
    BY <2>1, <2>3 DEF Has
  <2>5. (Len(output) \in 0..request.wanted)'
    BY <1>11, <2>1
  <2> QED
    BY <2>2, <2>4, <2>5 DEF Reading
<1>13. ReadTyped' /\ Arranged' /\ Asked'
  <2>1. Arranged'
    BY <1>1, <1>3, Opened
  <2> QED
    BY <1>1, <2>1 DEF RInv, ReadTyped, Asked, Serving, InBounds, Wanted
<1> QED
  BY <1>1, <1>12, <1>13 DEF RInv, Rested, Searching, Collecting, ReadExact

\* A call that has read everything has what it was asked for.
LEMMA PreadDoneInvariant == RInv /\ PreadDone => RInv'
<1> SUFFICES ASSUME RInv, PreadDone PROVE RInv'
  OBVIOUS
<1> DEFINE a == Answer("trunk", output)
           r == table[low].range
           first == request.start + request.relative
           wanted == first..(first + request.wanted - 1)
<1>1. stage = "pread" /\ Remaining = 0 /\ Finish(a)
  BY DEF PreadDone
<1>2. /\ request \in Request /\ InBounds(request) /\ request.wanted > 0
      /\ request.shard \in Nat /\ request.wanted \in Nat /\ ReadTyped /\ Arranged
      /\ stage \notin {"closed", "refused"} /\ Wanted \in Nat /\ first = Wanted
  BY <1>1, RequestIs DEF Serving, Wanted
<1>3. /\ low \in 1..Len(table) /\ Has(r, request.shard, Wanted)
      /\ Wanted + request.wanted <= r.start + r.bytes
      /\ Len(output) \in 0..request.wanted
      /\ output = Original(request.shard, Wanted, Len(output)) /\ backing = "packed"
  BY <1>1 DEF RInv, Reading, Asked
<1>4. Len(output) = request.wanted
  BY <1>1, <1>2, <1>3 DEF Remaining
<1>5. /\ r.start \in Nat /\ r.bytes \in Nat /\ r.start <= Wanted /\ r.shard = request.shard
      /\ table[low].place \in 1..Len(listed) /\ r = listed[table[low].place]
  BY <1>2, <1>3, TableIs DEF Listing, Has
<1>6. \E k \in DOMAIN listed : \A b \in wanted : Covers(k, request.shard, b)
  <2> DEFINE k == table[low].place
  <2>1. k \in DOMAIN listed /\ listed[k] = r
    BY <1>2, <1>5 DEF ReadTyped
  <2>2. ASSUME NEW b \in wanted PROVE Covers(k, request.shard, b)
    <3> HIDE DEF first, k, r
    <3>1. b \in Nat /\ Wanted <= b /\ b < Wanted + request.wanted
      BY <1>2
    <3> HIDE DEF wanted
    <3>2. b < r.start + r.bytes /\ r.start <= b
      <4>1. /\ Wanted \in Nat /\ request.wanted \in Nat /\ r.start \in Nat /\ r.bytes \in Nat
            /\ Wanted + request.wanted <= r.start + r.bytes /\ r.start <= Wanted
        BY <1>2, <1>3, <1>5
      <4> QED
        BY <3>1, <4>1
    <3>3. b \in Nat /\ Has(r, request.shard, b)
      BY <1>5, <3>1, <3>2 DEF Has
    <3> QED
      BY <1>2, <2>1, <3>3, CoversIs
  <2> QED
    BY <2>1, <2>2
<1>7. Reference(request) = Answer("trunk", Original(request.shard, first, request.wanted))
  BY <1>2, <1>3, <1>6, ReferenceIs
<1>8. a = Reference(request)
  BY <1>2, <1>3, <1>4, <1>7
<1> HIDE DEF a
<1> QED
  BY <1>1, <1>2, <1>8, FinishInvariant

\* What a range gives is what comes next, and no range passed has more.
LEMMA CollectInvariant == RInv /\ Collect => RInv'
<1> SUFFICES ASSUME RInv, Collect PROVE RInv'
  OBVIOUS
<1> DEFINE r == table[next].range
           p == table[next].place
           l == Len(output)
           offset == start - r.start
           take == Take(r.bytes - offset)
<1>1. /\ stage = "collect" /\ stage' = "collect" /\ Remaining > 0 /\ next <= Len(table)
      /\ next' = next + 1 /\ UNCHANGED <<opened, stage, request, low, high, answer>>
      /\ backing' = backing /\ listed' = listed /\ table' = table
      /\ IF r.shard = request.shard /\ start >= r.start /\ offset < r.bytes
           THEN /\ output' = output \o BlobBytes(p, offset, take)
                /\ start' = start + take
           ELSE UNCHANGED <<output, start>>
  BY DEF Collect, opened
<1>2. /\ request.shard \in Nat /\ request.wanted \in Nat /\ ReadTyped /\ Arranged
      /\ stage \notin {"closed", "refused"} /\ Wanted \in Nat
  BY <1>1, RequestIs DEF Serving
<1>3. /\ next \in 1..(Len(table) + 1) /\ l \in 0..request.wanted
      /\ start = Wanted + l
      /\ output = Original(request.shard, Wanted, l)
      /\ \A b \in Wanted..(start - 1) : \E k \in DOMAIN listed : Covers(k, request.shard, b)
      /\ l < request.wanted =>
           \A k \in 1..(next - 1) : ~Has(table[k].range, request.shard, start)
  BY <1>1 DEF RInv, Collecting
<1>4. /\ next \in 1..Len(table) /\ Len(table) \in Nat /\ r \in Listing
      /\ p \in 1..Len(listed) /\ p \in DOMAIN listed /\ r = listed[p]
      /\ \A k \in 1..(next - 1) : /\ k \in 1..Len(table) /\ table[k].range \in Listing
                                  /\ Behind(table[k].range, r)
  <2>1. Len(table) \in Nat /\ next \in 1..Len(table)
    BY <1>1, <1>2, <1>3, TableIs
  <2>2. \A k \in 1..(next - 1) : k \in 1..Len(table) /\ k < next
    BY <2>1
  <2>3. DOMAIN listed = 1..Len(listed)
    BY <1>2 DEF ReadTyped
  <2> QED
    BY <1>2, <2>1, <2>2, <2>3, TableIs
<1>5. r.start \in Nat /\ r.bytes \in Nat /\ r.shard \in Nat
  BY <1>4 DEF Listing
<1>6. l \in Nat /\ Remaining = request.wanted - l /\ Remaining \in Nat /\ l < request.wanted
      /\ start \in Nat
  BY <1>1, <1>2, <1>3 DEF Remaining
<1>7. Wanted' = Wanted /\ request' = request
  BY <1>1 DEF Wanted
<1>8. ReadTyped' /\ Arranged' /\ Asked'
  <2>1. Arranged'
    BY <1>1, <1>2, Opened
  <2> QED
    BY <1>1, <2>1 DEF RInv, ReadTyped, Asked, Serving, InBounds
<1>9. next' \in 1..(Len(table) + 1) /\ 1..(next' - 1) = 1..(next - 1) \cup {next}
  BY <1>1, <1>4
<1>10. /\ Len(output') \in 0..request.wanted
       /\ start' = Wanted + Len(output')
       /\ output' = Original(request.shard, Wanted, Len(output'))
       /\ \A b \in Wanted..(start' - 1) : \E k \in DOMAIN listed : Covers(k, request.shard, b)
       /\ Len(output') < request.wanted =>
            \A k \in 1..(next' - 1) : ~Has(table[k].range, request.shard, start')
  <2>1. CASE r.shard = request.shard /\ start >= r.start /\ offset < r.bytes
    <3>1. output' = output \o BlobBytes(p, offset, take) /\ start' = start + take
      BY <1>1, <2>1
    <3>2. offset \in Nat /\ r.bytes - offset \in Nat /\ r.start + offset = start
      <4> HIDE DEF r
      <4>1. offset \in Nat /\ r.start + offset = start
        BY <1>5, <1>6, <2>1
      <4> HIDE DEF offset
      <4> QED
        BY <1>5, <2>1, <4>1
    <3>3. /\ take \in Nat /\ take <= r.bytes - offset /\ take <= Remaining
          /\ take \in {r.bytes - offset, Remaining}
      <4> DEFINE available == r.bytes - offset
      <4>1. available \in Nat /\ take = Min({available, Remaining})
        BY <3>2 DEF Take
      <4> HIDE DEF available, take
      <4>2. take \in Nat /\ take <= available /\ take <= Remaining
            /\ take \in {available, Remaining}
        BY <1>6, <4>1, LeastOfTwo
      <4> QED
        BY <4>2 DEF available
    <3> HIDE DEF take, offset, l, r, p
    <3>4. BlobBytes(p, offset, take) = Original(request.shard, Wanted + l, take)
      <4>1. listed[p].start + offset = Wanted + l
        BY <1>3, <1>4, <3>2
      <4> QED
        BY <1>4, <2>1, <4>1 DEF BlobBytes
    <3>5. Len(output') = l + take /\ output' = Original(request.shard, Wanted, Len(output'))
      <4>1. Grows(request.shard, Wanted, l, take, output, output')
        BY <1>2, <1>6, <3>3, GoesOn
      <4> QED
        BY <1>3, <3>1, <3>4, <4>1 DEF Grows
    <3>6. Len(output') \in 0..request.wanted /\ start' = Wanted + Len(output')
      BY <1>2, <1>3, <1>6, <3>1, <3>3, <3>5
    <3>7. start + take <= r.start + r.bytes
      BY <1>5, <1>6, <3>2, <3>3
    <3>8. ASSUME NEW b \in Wanted..(start' - 1)
          PROVE  \E k \in DOMAIN listed : Covers(k, request.shard, b)
      <4>0. b \in Nat /\ Wanted <= b /\ b < start + take
        BY <1>2, <1>6, <3>1, <3>3
      <4>1. CASE b < start
        <5>1. b \in Wanted..(start - 1)
          BY <1>2, <1>6, <4>0, <4>1
        <5> QED
          BY <1>3, <5>1
      <4>2. CASE ~(b < start)
        <5>1. r.start <= b /\ b < r.start + r.bytes
          BY <1>5, <1>6, <2>1, <3>3, <3>7, <4>0, <4>2
        <5>2. Has(listed[p], request.shard, b)
          BY <1>4, <2>1, <5>1 DEF Has
        <5> QED
          BY <1>2, <1>4, <4>0, <5>2, CoversIs
      <4> QED
        BY <4>1, <4>2
    <3>9. ASSUME Len(output') < request.wanted, NEW k \in 1..(next' - 1)
          PROVE  ~Has(table[k].range, request.shard, start')
      <4>1. take = r.bytes - offset
        <5>1. take # Remaining
          BY <1>2, <1>6, <3>3, <3>5, <3>9
        <5> QED
          BY <3>3, <5>1
      <4>2. start' = r.start + r.bytes /\ start' \in Nat
        <5>1. start' = r.start + offset + take
          BY <3>1, <3>2
        <5>2. offset + take = r.bytes
          BY <1>5, <3>2, <4>1
        <5> QED
          BY <1>5, <3>2, <3>3, <5>1, <5>2
      <4>3. CASE k = next
        BY <1>5, <4>2, <4>3 DEF Has, r
      <4>4. CASE k \in 1..(next - 1)
        <5> DEFINE t == table[k].range
        <5>1. t.shard \in Nat /\ t.start \in Nat /\ t.bytes \in Nat /\ Behind(t, r)
          BY <1>4, <4>4 DEF Listing
        <5> HIDE DEF t
        <5>2. t.shard = request.shard => t.start + t.bytes <= r.start
          BY <1>2, <2>1, <5>1 DEF Behind
        <5>3. ~Has(t, request.shard, start')
          BY <1>5, <4>2, <5>1, <5>2 DEF Has
        <5> QED
          BY <5>3 DEF t
      <4> QED
        BY <1>9, <3>9, <4>3, <4>4
    <3> QED
      BY <3>5, <3>6, <3>8, <3>9
  <2>2. CASE ~(r.shard = request.shard /\ start >= r.start /\ offset < r.bytes)
    <3>1. output' = output /\ start' = start
      BY <1>1, <2>2
    <3>2. ~Has(r, request.shard, start)
      <4>1. start < r.start + r.bytes => start - r.start < r.bytes
        BY <1>5, <1>6
      <4> QED
        BY <1>5, <1>6, <2>2, <4>1 DEF Has
    <3> QED
      BY <1>3, <1>6, <1>9, <3>1, <3>2
  <2> QED
    BY <2>1, <2>2
<1>11. Collecting'
  <2>1. (output = Original(request.shard, Wanted, Len(output)))'
    BY <1>7, <1>10 DEF Original
  <2>2. (\A b \in Wanted..(start - 1) : \E k \in DOMAIN listed : Covers(k, request.shard, b))'
    BY <1>1, <1>7, <1>10 DEF Covers
  <2>3. (Len(output) < request.wanted =>
           \A k \in 1..(next - 1) : ~Has(table[k].range, request.shard, start))'
    BY <1>1, <1>7, <1>10 DEF Has
  <2>4. (/\ next \in 1..(Len(table) + 1) /\ Len(output) \in 0..request.wanted
         /\ start = Wanted + Len(output))'
    BY <1>1, <1>7, <1>9, <1>10
  <2> QED
    BY <2>1, <2>2, <2>3, <2>4 DEF Collecting
<1> QED
  BY <1>1, <1>8, <1>11 DEF RInv, Rested, Searching, Reading, ReadExact

\* The extracted ranges had all that was wanted, or a byte of it is in none of them.
LEMMA CollectedInvariant == RInv /\ Collected => RInv'
<1> SUFFICES ASSUME RInv, Collected PROVE RInv'
  OBVIOUS
<1> DEFINE a == IF Remaining = 0 THEN Answer("blobs", output) ELSE Answer("error", <<>>)
           first == request.start + request.relative
           wanted == first..(first + request.wanted - 1)
<1>1. stage = "collect" /\ (Remaining = 0 \/ next > Len(table)) /\ Finish(a)
  BY DEF Collected
<1>2. /\ request \in Request /\ InBounds(request) /\ request.wanted > 0
      /\ request.shard \in Nat /\ request.wanted \in Nat /\ ReadTyped /\ Arranged
      /\ stage \notin {"closed", "refused"} /\ Wanted \in Nat /\ first = Wanted
  BY <1>1, RequestIs DEF Serving, Wanted
<1>3. /\ next \in 1..(Len(table) + 1) /\ Len(output) \in 0..request.wanted
      /\ start = Wanted + Len(output)
      /\ output = Original(request.shard, Wanted, Len(output))
      /\ \A b \in Wanted..(start - 1) : \E k \in DOMAIN listed : Covers(k, request.shard, b)
      /\ Len(output) < request.wanted =>
           \A k \in 1..(next - 1) : ~Has(table[k].range, request.shard, start)
      /\ backing = "extracted" /\ Len(table) \in Nat
  BY <1>1, <1>2, TableIs DEF RInv, Collecting, Asked
<1>4. a = Reference(request)
  <2>1. CASE Remaining = 0
    <3>1. Len(output) = request.wanted
      BY <1>2, <1>3, <2>1 DEF Remaining
    <3>2. \A b \in wanted : \E k \in DOMAIN listed : Covers(k, request.shard, b)
      <4>1. start - 1 = first + request.wanted - 1
        BY <1>2, <1>3, <3>1
      <4> QED
        BY <1>2, <1>3, <4>1
    <3>3. Reference(request) = Answer("blobs", Original(request.shard, first, request.wanted))
      BY <1>2, <1>3, <3>2, ReferenceIs
    <3> QED
      BY <1>2, <1>3, <2>1, <3>1, <3>3
  <2>2. CASE Remaining # 0
    <3>1. Len(output) < request.wanted /\ next = Len(table) + 1
      BY <1>1, <1>2, <1>3, <2>2 DEF Remaining
    <3>2. start \in wanted /\ start \in Nat
      BY <1>2, <1>3, <3>1
    <3>3. \A k \in 1..Len(table) : ~Has(table[k].range, request.shard, start)
      BY <1>3, <3>1
    <3>4. \A k \in DOMAIN listed : ~Covers(k, request.shard, start)
      BY <1>2, <3>2, <3>3, CoversIs
    <3>5. Reference(request) = Answer("error", <<>>)
      BY <1>2, <1>3, <3>2, <3>4, ReferenceIs
    <3> QED
      BY <2>2, <3>5
  <2> QED
    BY <2>1, <2>2
<1> HIDE DEF a
<1> QED
  BY <1>1, <1>2, <1>4, FinishInvariant

\* An I/O error ends the call.
LEMMA IoFailsInvariant == RInv /\ IoFails => RInv'
<1> SUFFICES ASSUME RInv, IoFails PROVE RInv'
  OBVIOUS
<1>1. /\ stage \notin {"closed", "refused"} /\ Finish(Answer("io", <<>>))
      /\ Answer("io", <<>>).from = "io"
  BY DEF IoFails, Answer
<1> QED
  BY <1>1, FinishInvariant

\* What does nothing changes nothing.
LEMMA StutterInvariant == RInv /\ UNCHANGED readVars => RInv'
<1> SUFFICES ASSUME RInv, UNCHANGED readVars PROVE RInv'
  OBVIOUS
<1>1. /\ backing' = backing /\ listed' = listed /\ table' = table /\ stage' = stage
      /\ request' = request /\ low' = low /\ high' = high /\ next' = next /\ start' = start
      /\ output' = output /\ answer' = answer
  BY DEF readVars
<1>2. Arranged'
  BY <1>1 DEF RInv, Arranged, Sorted, Overlapping
<1>3. Collecting' /\ Searching' /\ Reading'
  BY <1>1 DEF RInv, Collecting, Searching, Reading, Covers, Has, GoesRight, Original, Wanted
<1>4. ReadExact'
  BY <1>1 DEF RInv, ReadExact, Reference, Covers, Original
<1>5. ReadTyped' /\ Rested' /\ Asked'
  BY <1>1 DEF RInv, ReadTyped, Rested, Asked, Serving, InBounds, Wanted
<1> QED
  BY <1>2, <1>3, <1>4, <1>5 DEF RInv

\* Every step keeps what is known of the reads.
THEOREM ReadInvariance == ReadSpec => []RInv
<1>1. ReadInit => RInv
  BY ReadBegins
<1>2. RInv /\ [ReadNext]_readVars => RInv'
  <2> SUFFICES ASSUME RInv, [ReadNext]_readVars PROVE RInv'
    OBVIOUS
  <2>1. CASE Open
    BY <2>1, OpenInvariant
  <2>2. CASE Read
    BY <2>2, ReadInvariant
  <2>3. CASE Return
    BY <2>3, ReturnInvariant
  <2>4. CASE Forget
    BY <2>4, ForgetInvariant
  <2>5. CASE Halve
    BY <2>5, HalveInvariant
  <2>6. CASE FromTrunk
    BY <2>6, FromTrunkInvariant
  <2>7. CASE FromShard
    BY <2>7, FromShardInvariant
  <2>8. CASE Pread
    BY <2>8, PreadInvariant
  <2>9. CASE PreadDone
    BY <2>9, PreadDoneInvariant
  <2>10. CASE Collect
    BY <2>10, CollectInvariant
  <2>11. CASE Collected
    BY <2>11, CollectedInvariant
  <2>12. CASE IoFails
    BY <2>12, IoFailsInvariant
  <2>13. CASE PreadInterrupted \/ UNCHANGED readVars
    BY <2>13, StutterInvariant DEF PreadInterrupted
  <2> QED
    BY <2>1, <2>2, <2>3, <2>4, <2>5, <2>6, <2>7, <2>8, <2>9, <2>10, <2>11, <2>12, <2>13
    DEF ReadNext
<1> QED
  BY <1>1, <1>2, PTL DEF ReadSpec

\* A read that meets no I/O error gives the bytes of the original shard.
THEOREM ReadsAreExact == ReadSpec => []ReadExact
<1>1. RInv => ReadExact
  BY DEF RInv
<1> QED
  BY <1>1, ReadInvariance, PTL
===============================================================================
