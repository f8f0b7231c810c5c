--------------------------- MODULE RangeStoreProofs ---------------------------
(***************************************************************************)
(* The range store, for every set of chunks, every script and budget: its  *)
(* records are backed, its budget holds over all layers and runs, and what *)
(* is recorded is neither forgotten nor asked for again.  The invariant    *)
(* ties what a run has in memory to the manifest of its layer and carries  *)
(* the test of the budget from the request to the record.                  *)
(***************************************************************************)
EXTENDS RangeStore, DataLemmas, SequenceTheorems

Working == {"work", "request", "store", "record"}
Pending == {"request", "store", "record"}
OpsOf(l) == {o \in Ops : LayerOf[o.of] = l}

Typed ==
  /\ manifest \in [Layers -> SUBSET Chunks]
  /\ blobs \in [{Blob(c) : c \in Chunks} -> {"absent", "whole", "damaged"}]
  /\ offline \in BOOLEAN /\ plan \in Seq(Layers) /\ known \in SUBSET Chunks
  /\ todo \in Seq(Ops) /\ attempt \in Nat /\ at \in {"off", "open"} \cup Working

\* A manifest holds chunks of its own layer.
OwnLayer == \A l \in Layers : \A c \in manifest[l] : LayerOf[c] = l

\* The run works on the records of the manifest of its layer.
RunInv ==
  at \in Working => plan # <<>> /\ known = manifest[Layer] /\ todo \in Seq(OpsOf(Layer))

\* A chunk that is on its way is not recorded, fits in the budget, and is stored
\* before it is recorded.
PendingInv ==
  /\ at \in Pending => todo # <<>> /\ Chunk \notin known /\ Recorded + Bytes[Chunk] <= Budget
  /\ at = "record" => blobs[Blob(Chunk)] # "absent"

WithinRecorded == Recorded <= Budget

IInv == Typed /\ OwnLayer /\ RunInv /\ PendingInv /\ RecordsBacked /\ WithinRecorded

\* All that is recorded, whose size Recorded is.
All == UNION {manifest[l] : l \in Layers}

-------------------------------------------------------------------------------
\* What every step needs: the run's layer, and the chunk at hand if there is one.
LEMMA AtHand ==
  ASSUME Typed, RunInv, at \in Working
  PROVE  /\ plan # <<>> /\ Layer \in Layers /\ known = manifest[Layer] /\ Tail(plan) \in Seq(Layers)
         /\ todo # <<>> => /\ Chunk \in Chunks /\ LayerOf[Chunk] = Layer
                           /\ Tail(todo) \in Seq(OpsOf(Layer)) /\ Tail(todo) \in Seq(Ops)
<1>1. plan # <<>> /\ plan \in Seq(Layers) /\ known = manifest[Layer] /\ todo \in Seq(OpsOf(Layer))
      /\ todo \in Seq(Ops)
  BY DEF Typed, RunInv
<1>2. Layer \in Layers /\ Tail(plan) \in Seq(Layers)
  BY <1>1, HeadTailProperties DEF Layer
<1>3. ASSUME todo # <<>>
      PROVE  /\ Chunk \in Chunks /\ LayerOf[Chunk] = Layer
             /\ Tail(todo) \in Seq(OpsOf(Layer)) /\ Tail(todo) \in Seq(Ops)
  <2>1. Head(todo) \in OpsOf(Layer) /\ Tail(todo) \in Seq(OpsOf(Layer)) /\ Tail(todo) \in Seq(Ops)
    BY <1>1, <1>3, HeadTailProperties
  <2>2. QED
    BY <2>1 DEF OpsOf, Ops, Chunk
<1>4. QED
  BY <1>1, <1>2, <1>3

\* The size of a set of chunks is the sum of their sizes.
LEMMA SizeIsSum == ASSUME NEW S PROVE Size(S) = SumOver(Bytes, S)
BY DEF Size, SumOver

\* Recorded is a sum over a finite set.
LEMMA RecordedIsSum ==
  ASSUME Typed
  PROVE  Recorded = Size(All) /\ All \in SUBSET Chunks /\ IsFiniteSet(All) /\ Recorded \in Nat
<1>1. Recorded = Size(All) /\ Size(All) = SumOver(Bytes, All)
  BY SizeIsSum DEF Recorded, All
<1>2. All \in SUBSET Chunks
  BY DEF All, Typed
<1>3. IsFiniteSet(All) /\ \A c \in All : Bytes[c] \in Nat
  BY <1>2, StoreAssumption, FS_Subset
<1>4. QED
  BY <1>1, <1>2, <1>3, SumType

\* A script of a layer is made of operations on its chunks.
LEMMA ScriptsOfLayer == ASSUME NEW l \in Layers PROVE Scripts[l] \in Seq(OpsOf(l)) /\ Scripts[l] \in Seq(Ops)
<1>1. Scripts[l] \in Seq(Ops)
  BY StoreAssumption
<1>2. \A i \in 1..Len(Scripts[l]) : Scripts[l][i] \in OpsOf(l)
  BY <1>1, StoreAssumption, ElementOfSeq, LenProperties DEF OpsOf
<1>3. Scripts[l] \in Seq(OpsOf(l))
  BY <1>1, <1>2, LenProperties
<1>4. QED
  BY <1>1, <1>3

\* Nothing is stored or recorded at first.
LEMMA InitInvariant == Init => IInv
<1> SUFFICES ASSUME Init PROVE IInv
  OBVIOUS
<1>1. Typed
  BY EmptySeq DEF Init, Typed, Working
<1>2. OwnLayer /\ RunInv /\ PendingInv /\ RecordsBacked
  BY DEF Init, OwnLayer, RunInv, PendingInv, RecordsBacked, Working, Pending
<1>3. Recorded = 0
  <2>1. All = {}
    BY DEF Init, All
  <2>2. QED
    BY <1>1, <2>1, RecordedIsSum, SizeIsSum, SumOfNothing
<1>4. QED
  BY <1>1, <1>2, <1>3, StoreAssumption DEF IInv, WithinRecorded

\* A step that changes no manifest keeps what is said of the manifests alone, and
\* one that does not lose a payload either keeps the records backed.
LEMMA SameManifest ==
  ASSUME IInv, manifest' = manifest,
         \A c \in Chunks : blobs[Blob(c)] # "absent" => blobs'[Blob(c)] # "absent"
  PROVE  OwnLayer' /\ RecordsBacked' /\ WithinRecorded' /\ Recorded' = Recorded
<1>1. Recorded' = Recorded
  BY DEF Recorded
<1>2. OwnLayer' /\ WithinRecorded'
  BY <1>1 DEF IInv, OwnLayer, WithinRecorded
<1>3. RecordsBacked'
  BY DEF IInv, Typed, RecordsBacked, Blob
<1>4. QED
  BY <1>1, <1>2, <1>3

\* A run that ends has nothing in memory.
LEMMA RaiseInvariant == ASSUME IInv, Raise PROVE IInv'
<1>1. /\ offline' = FALSE /\ plan' = <<>> /\ known' = {} /\ todo' = <<>> /\ attempt' = 0
      /\ at' = "off" /\ manifest' = manifest /\ blobs' = blobs
  BY DEF Raise, Ended, disk
<1>2. OwnLayer' /\ RecordsBacked' /\ WithinRecorded'
  BY <1>1, SameManifest
<1>3. Typed'
  BY <1>1, EmptySeq DEF IInv, Typed
<1>4. RunInv' /\ PendingInv'
  BY <1>1 DEF RunInv, PendingInv, Working, Pending
<1>5. QED
  BY <1>2, <1>3, <1>4 DEF IInv

\* The run takes over the manifest of the next layer, which it has checked.
LEMMA OpenInvariant == ASSUME IInv, Open PROVE IInv'
<1>1. CASE Raise
  BY <1>1, RaiseInvariant
<1>2. CASE ~Raise
  <2>1. /\ plan # <<>> /\ known' = manifest[Layer] /\ todo' = Scripts[Layer] /\ at' = "work"
        /\ UNCHANGED <<manifest, blobs, offline, plan, attempt>>
    BY <1>2 DEF Open
  <2>2. Layer \in Layers
    BY <2>1, HeadTailProperties DEF IInv, Typed, Layer
  <2>3. Typed'
    BY <2>1, <2>2, ScriptsOfLayer DEF IInv, Typed, Working
  <2>4. RunInv' /\ PendingInv'
    BY <2>1, <2>2, ScriptsOfLayer DEF RunInv, PendingInv, Working, Pending, Layer
  <2>5. OwnLayer' /\ RecordsBacked' /\ WithinRecorded'
    BY <2>1, SameManifest
  <2>6. QED
    BY <2>3, <2>4, <2>5 DEF IInv
<1>3. QED
  BY <1>1, <1>2

\* The next operation of the script is done, on a chunk that is recorded.
LEMMA NextOperation ==
  ASSUME IInv, at = "work", todo # <<>>, todo' = Tail(todo),
         UNCHANGED <<manifest, blobs, offline, plan, known, attempt, at>>
  PROVE  IInv'
<1>1. Tail(todo) \in Seq(OpsOf(Layer)) /\ Tail(todo) \in Seq(Ops)
  BY AtHand DEF IInv, Working
<1>2. Typed'
  BY <1>1 DEF IInv, Typed
<1>3. RunInv' /\ PendingInv'
  BY <1>1 DEF IInv, RunInv, PendingInv, Working, Pending, Layer
<1>4. OwnLayer' /\ RecordsBacked' /\ WithinRecorded'
  BY SameManifest
<1>5. QED
  BY <1>2, <1>3, <1>4 DEF IInv

\* A chunk is only asked for if it is not recorded and fits.
LEMMA FetchInvariant == ASSUME IInv, Fetch PROVE IInv'
<1>1. CASE Raise
  BY <1>1, RaiseInvariant
<1>2. CASE /\ todo' = Tail(todo)
           /\ UNCHANGED <<manifest, blobs, offline, plan, known, attempt, at>>
  BY <1>2, NextOperation DEF Fetch
<1>3. CASE ~Raise /\ Chunk \notin known
  <2>1. /\ at = "work" /\ todo # <<>> /\ ~(Recorded + Bytes[Chunk] > Budget)
        /\ at' = "request" /\ attempt' = 1
        /\ UNCHANGED <<manifest, blobs, offline, plan, known, todo>>
    BY <1>3 DEF Fetch
  <2>2. Chunk \in Chunks /\ Bytes[Chunk] \in Nat /\ Recorded \in Nat /\ Budget \in Nat
    BY <2>1, AtHand, RecordedIsSum, StoreAssumption DEF IInv, Working
  <2>3. OwnLayer' /\ RecordsBacked' /\ WithinRecorded' /\ Recorded' = Recorded
    BY <2>1, SameManifest
  <2>4. Typed'
    BY <2>1 DEF IInv, Typed, Working
  <2>5. RunInv'
    BY <2>1 DEF IInv, RunInv, Working, Layer
  <2>6. PendingInv'
    BY <1>3, <2>1, <2>2, <2>3 DEF PendingInv, Pending, Chunk
  <2>7. QED
    BY <2>3, <2>4, <2>5, <2>6 DEF IInv
<1>4. QED
  BY <1>1, <1>2, <1>3 DEF Fetch

\* Between the request and the store nothing that the record rests on changes.
LEMMA OnItsWay ==
  ASSUME IInv, at = "request", at' \in {"request", "store"}, attempt' \in Nat,
         UNCHANGED <<manifest, blobs, offline, plan, known, todo>>
  PROVE  IInv'
<1>1. OwnLayer' /\ RecordsBacked' /\ WithinRecorded' /\ Recorded' = Recorded
  BY SameManifest
<1>2. Typed' /\ RunInv'
  BY DEF IInv, Typed, RunInv, Working, Layer
<1>3. PendingInv'
  BY <1>1 DEF IInv, PendingInv, Pending, Chunk
<1>4. QED
  BY <1>1, <1>2, <1>3 DEF IInv

\* A stored chunk is whole before it is recorded.
LEMMA StoreInvariant == ASSUME IInv, Store PROVE IInv'
<1>1. /\ at = "store" /\ at' = "record" /\ blobs' = [blobs EXCEPT ![Blob(Chunk)] = "whole"]
      /\ UNCHANGED <<manifest, offline, plan, known, todo, attempt>>
  BY DEF Store
<1>2. todo # <<>> /\ Chunk \in Chunks
  BY <1>1, AtHand DEF IInv, PendingInv, Pending, Working
<1>3. blobs' \in [{Blob(c) : c \in Chunks} -> {"absent", "whole", "damaged"}]
  BY <1>1 DEF IInv, Typed
<1>4. Blob(Chunk) \in {Blob(c) : c \in Chunks} /\ blobs'[Blob(Chunk)] = "whole"
  BY <1>1, <1>2 DEF IInv, Typed
<1>5. \A c \in Chunks : blobs[Blob(c)] # "absent" => blobs'[Blob(c)] # "absent"
  BY <1>1 DEF IInv, Typed
<1>6. OwnLayer' /\ RecordsBacked' /\ WithinRecorded' /\ Recorded' = Recorded
  BY <1>1, <1>5, SameManifest
<1>7. Typed' /\ RunInv'
  BY <1>1, <1>3 DEF IInv, Typed, RunInv, Working, Layer
<1>8. PendingInv'
  <2>1. Chunk' = Chunk /\ Blob(Chunk)' = Blob(Chunk)
    BY <1>1 DEF Chunk, Blob
  <2>2. QED
    BY <1>1, <1>2, <1>4, <1>6, <2>1 DEF IInv, PendingInv, Pending
<1>9. QED
  BY <1>6, <1>7, <1>8 DEF IInv

\* The record is of a payload that is there, and adds what was tested.
LEMMA RecordInvariant == ASSUME IInv, Record PROVE IInv'
<1>1. /\ at = "record" /\ at' = "work" /\ known' = known \cup {Chunk}
      /\ manifest' = [manifest EXCEPT ![Layer] = known'] /\ todo' = Tail(todo) /\ attempt' = 0
      /\ UNCHANGED <<blobs, offline, plan>>
  BY DEF Record
<1>2. /\ todo # <<>> /\ Chunk \in Chunks /\ LayerOf[Chunk] = Layer /\ Layer \in Layers
      /\ known = manifest[Layer] /\ plan # <<>>
      /\ Tail(todo) \in Seq(OpsOf(Layer)) /\ Tail(todo) \in Seq(Ops)
      /\ Chunk \notin known /\ Recorded + Bytes[Chunk] <= Budget /\ blobs[Blob(Chunk)] # "absent"
  BY <1>1, AtHand DEF IInv, PendingInv, Pending, Working
<1>3. /\ manifest'[Layer] = manifest[Layer] \cup {Chunk}
      /\ \A l \in Layers \ {Layer} : manifest'[l] = manifest[l]
      /\ manifest' \in [Layers -> SUBSET Chunks]
  BY <1>1, <1>2 DEF IInv, Typed
<1>4. Typed'
  BY <1>1, <1>2, <1>3 DEF IInv, Typed, Working
<1>5. OwnLayer' /\ RecordsBacked'
  BY <1>1, <1>2, <1>3 DEF IInv, OwnLayer, RecordsBacked, Blob
<1>6. RunInv' /\ PendingInv'
  BY <1>1, <1>2, <1>3 DEF RunInv, PendingInv, Working, Pending, Layer
<1>7. WithinRecorded'
  <2>1. All' = All \cup {Chunk}
    BY <1>2, <1>3 DEF All
  <2>2. Chunk \notin All
    BY <1>2 DEF All, IInv, OwnLayer
  <2>3. \A c \in All \cup {Chunk} : Bytes[c] \in Nat
    BY <1>2, StoreAssumption, RecordedIsSum DEF IInv
  <2>4. Size(All \cup {Chunk}) = Size(All) + Bytes[Chunk]
    <3>1. IsFiniteSet(All)
      BY RecordedIsSum DEF IInv
    <3>2. SumOver(Bytes, All \cup {Chunk}) = SumOver(Bytes, All) + Bytes[Chunk]
      BY <2>2, <2>3, <3>1, SumGrows
    <3>3. QED
      BY <3>2, SizeIsSum
  <2>5. Recorded' = Size(All')
    BY DEF Recorded, All
  <2>6. QED
    BY <1>2, <2>1, <2>4, <2>5, RecordedIsSum DEF WithinRecorded, IInv
<1>8. QED
  BY <1>4, <1>5, <1>6, <1>7 DEF IInv

\* The end of a layer writes the record that is there already.
LEMMA CompleteInvariant == ASSUME IInv, Complete PROVE IInv'
<1>1. /\ at = "work" /\ at' = "open" /\ manifest' = [manifest EXCEPT ![Layer] = known]
      /\ plan' = Tail(plan) /\ UNCHANGED <<blobs, offline, known, todo, attempt>>
  BY DEF Complete
<1>2. Layer \in Layers /\ known = manifest[Layer] /\ Tail(plan) \in Seq(Layers)
  BY <1>1, AtHand DEF IInv, Working
<1>3. manifest' = manifest
  BY <1>1, <1>2 DEF IInv, Typed
<1>4. OwnLayer' /\ RecordsBacked' /\ WithinRecorded'
  BY <1>1, <1>3, SameManifest
<1>5. Typed'
  BY <1>1, <1>2, <1>3 DEF IInv, Typed
<1>6. RunInv' /\ PendingInv'
  BY <1>1 DEF RunInv, PendingInv, Working, Pending
<1>7. QED
  BY <1>4, <1>5, <1>6 DEF IInv

\* A run that starts, or starts again, works on no layer yet.
LEMMA StartInvariant == ASSUME IInv, Start PROVE IInv'
<1>1. /\ plan' \in Seq(Layers) /\ offline' \in BOOLEAN /\ at' = "open"
      /\ UNCHANGED <<manifest, blobs, known, todo, attempt>>
  BY StoreAssumption DEF Start
<1>2. OwnLayer' /\ RecordsBacked' /\ WithinRecorded'
  BY <1>1, SameManifest
<1>3. Typed'
  BY <1>1 DEF IInv, Typed
<1>4. RunInv' /\ PendingInv'
  BY <1>1 DEF RunInv, PendingInv, Working, Pending
<1>5. QED
  BY <1>2, <1>3, <1>4 DEF IInv

\* A damaged payload is still there.
LEMMA DamageInvariant == ASSUME IInv, Damage PROVE IInv'
<1>1. PICK b \in DOMAIN blobs : blobs[b] = "whole" /\ blobs' = [blobs EXCEPT ![b] = "damaged"]
  BY DEF Damage
<1>2. UNCHANGED <<manifest, offline, plan, known, todo, attempt, at>>
  BY DEF Damage
<1>3. blobs' \in [{Blob(c) : c \in Chunks} -> {"absent", "whole", "damaged"}]
  BY <1>1 DEF IInv, Typed
<1>4. \A c \in Chunks : blobs[Blob(c)] # "absent" => blobs'[Blob(c)] # "absent"
  BY <1>1 DEF IInv, Typed
<1>5. OwnLayer' /\ RecordsBacked' /\ WithinRecorded' /\ Recorded' = Recorded
  BY <1>2, <1>4, SameManifest
<1>6. Typed' /\ RunInv'
  BY <1>2, <1>3 DEF IInv, Typed, RunInv, Layer
<1>7. PendingInv'
  <2>1. at \in Pending => Chunk \in Chunks
    BY AtHand DEF IInv, PendingInv, Pending, Working
  <2>2. Chunk' = Chunk /\ Blob(Chunk)' = Blob(Chunk)
    BY <1>2 DEF Chunk, Blob
  <2>3. QED
    BY <1>2, <1>4, <1>5, <2>1, <2>2 DEF IInv, PendingInv, Pending
<1>8. QED
  BY <1>5, <1>6, <1>7 DEF IInv

\* Every step keeps the invariant.
LEMMA NextInvariant == IInv /\ [Next]_vars => IInv'
<1> SUFFICES ASSUME IInv, [Next]_vars PROVE IInv'
  OBVIOUS
<1>1. CASE Start \/ Damage
  BY <1>1, StartInvariant, DamageInvariant
<1>2. CASE Stop \/ Finish
  BY <1>2, RaiseInvariant DEF Stop, Finish
<1>3. CASE Open \/ Fetch \/ Store \/ Record \/ Complete
  BY <1>3, OpenInvariant, FetchInvariant, StoreInvariant, RecordInvariant, CompleteInvariant
<1>4. CASE Answer
  BY <1>4, OnItsWay DEF Answer, IInv, Typed
<1>5. CASE Retry
  <2>1. CASE Raise
    BY <2>1, RaiseInvariant
  <2>2. CASE ~Raise
    <3>1. /\ at = "request" /\ attempt' = attempt + 1
          /\ UNCHANGED <<manifest, blobs, offline, plan, known, todo, at>>
      BY <1>5, <2>2 DEF Retry
    <3>2. attempt' \in Nat
      BY <3>1 DEF IInv, Typed
    <3>3. QED
      BY <3>1, <3>2, OnItsWay
  <2>3. QED
    BY <2>1, <2>2
<1>6. CASE Use
  BY <1>6, NextOperation, RaiseInvariant DEF Use
<1>7. CASE UNCHANGED vars
  <2>1. UNCHANGED <<manifest, blobs, offline, plan, known, todo, attempt, at>>
    BY <1>7 DEF vars
  <2>2. OwnLayer' /\ RecordsBacked' /\ WithinRecorded' /\ Recorded' = Recorded
    BY <2>1, SameManifest
  <2>3. Typed' /\ RunInv' /\ PendingInv'
    BY <2>1, <2>2 DEF IInv, Typed, RunInv, PendingInv, Layer, Chunk, Blob
  <2>4. QED
    BY <2>2, <2>3 DEF IInv
<1>8. QED
  BY <1>1, <1>2, <1>3, <1>4, <1>5, <1>6, <1>7 DEF Next, Step

\* IInv is inductive.
THEOREM Invariance == Spec => []IInv
BY InitInvariant, NextInvariant, PTL DEF Spec

\* Wherever a run is killed, a manifest records only payloads that are there.
THEOREM PayloadsPrecedeRecords == Spec => []RecordsBacked
<1>1. IInv => RecordsBacked
  BY DEF IInv
<1>2. QED
  BY <1>1, Invariance, PTL

\* All layers and all runs together never record more than the budget.
THEOREM BudgetKept == Spec => []WithinBudget
<1>1. IInv => WithinBudget
  <2> SUFFICES ASSUME IInv PROVE WithinBudget
    OBVIOUS
  <2>1. {c \in Chunks : c \in manifest[LayerOf[c]]} = All
    BY StoreAssumption DEF All, IInv, Typed, OwnLayer
  <2>2. Recorded <= Budget
    BY DEF IInv, WithinRecorded
  <2>3. QED
    BY <2>1, <2>2 DEF WithinBudget, Recorded, All
<1>2. QED
  BY <1>1, Invariance, PTL

\* What is recorded is never forgotten and never asked for again.
THEOREM RunsResume == Spec => Resumes
<1>1. IInv /\ [Next]_vars
      => [ /\ \A l \in Layers : manifest[l] \subseteq manifest'[l]
           /\ at # "request" /\ at' = "request" => Chunk \notin manifest[Layer] ]_vars
  <2> SUFFICES ASSUME IInv, Next
               PROVE  /\ \A l \in Layers : manifest[l] \subseteq manifest'[l]
                      /\ at # "request" /\ at' = "request" => Chunk \notin manifest[Layer]
    OBVIOUS
  <2>1. CASE Record \/ Complete
    <3>1. at \in Working /\ at' # "request"
      BY <2>1 DEF Record, Complete, Working
    <3>2. known = manifest[Layer] /\ Layer \in Layers
      BY <3>1, AtHand DEF IInv
    <3>3. manifest' = [manifest EXCEPT ![Layer] = manifest'[Layer]] /\ known \subseteq manifest'[Layer]
      BY <2>1, <3>2 DEF Record, Complete, IInv, Typed
    <3>4. QED
      BY <3>1, <3>2, <3>3 DEF IInv, Typed
  <2>2. CASE Fetch
    <3>1. at = "work" /\ manifest' = manifest /\ (at' = "request" => Chunk \notin known)
      BY <2>2 DEF Fetch, Raise, Ended, disk
    <3>2. known = manifest[Layer]
      BY <3>1, AtHand DEF IInv, Working
    <3>3. QED
      BY <3>1, <3>2
  <2>3. CASE Start \/ Open \/ Finish \/ Answer \/ Retry \/ Store \/ Use \/ Stop \/ Damage
    <3>1. manifest' = manifest /\ (at' = "request" => at = "request")
      BY <2>3 DEF Start, Open, Finish, Answer, Retry, Store, Use, Stop, Damage, Raise, Ended, disk
    <3>2. QED
      BY <3>1
  <2>4. QED
    BY <2>1, <2>2, <2>3 DEF Next, Step
<1>2. QED
  BY <1>1, Invariance, PTL DEF Spec, Resumes
===============================================================================
