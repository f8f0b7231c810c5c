------------------------------ MODULE ModelProofs -----------------------------
(***************************************************************************)
(* What is proved of a model: of the catalogue that it is bound from, and  *)
(* of the blocks that a session with it holds.                             *)
(*                                                                         *)
(* First the inductive invariant of Catalogue and the proofs of its four   *)
(* invariants, for every index, hash function, set of headers and pinned   *)
(* checkpoint; then those of Session, for every set of contexts, ways to   *)
(* open a model and options.                                               *)
(***************************************************************************)
EXTENDS Catalogue, Session, DataLemmas, SequenceTheorems

Index == document.members

TypeOK ==
  /\ caller \in {"text", "production", "public"} /\ verifying \in BOOLEAN
  /\ files \in [1..Len(PinnedShards) -> Headers \cup {Unbound, Missing}]
  /\ document \in Documents /\ hash \in Hashes
  /\ at \in {"parse", "insert", "idle", "header", "bind", "unreadable", "failed", "ready"}
  /\ entries \in Seq([name : Names, shard : Shards, range : Ranges \cup {Unbound}])
  /\ slots \in Seq(Nat)
  /\ asked \in [shard : Shards \cup {Unbound}, header : Headers \cup {Unbound},
                tensors : Seq(Tensors)]
  /\ bound \in [ShardsOf(document) -> Headers \cup {Unbound}]

\* The entries are the members of the index up to the one that was put in last.
Indexed ==
  /\ Len(entries) <= Len(Index)
  /\ \A k \in 1..Len(entries) :
       entries[k].name = Index[k].name /\ entries[k].shard = Index[k].shard
  /\ slots = <<>> => entries = <<>>
  /\ at = "parse" => slots = <<>>
  /\ at = "insert" => slots # <<>> /\ Len(entries) < Len(Index)
  /\ at \notin {"parse", "insert", "failed"} => slots # <<>> /\ Len(entries) = Len(Index)
  /\ at = "failed" => Len(entries) = Len(Index) \/ ~Unique(Index)

\* Probing for the k-th entry comes to its slot over occupied ones.
Reachable(k) ==
  \E p \in 0..Len(slots) - 1 :
    /\ slots[Probed(entries[k].name, p) + 1] = k
    /\ \A q \in 0..p - 1 : slots[Probed(entries[k].name, q) + 1] # 0

\* The table has room for one more than the members, each entry has one slot at
\* most, and every entry is reachable.
Table ==
  slots # <<>> =>
    /\ Unique(Index) /\ Len(slots) > Len(Index)
    /\ \A i \in 1..Len(slots) : slots[i] \in 0..Len(entries)
    /\ \A i, j \in 1..Len(slots) : slots[i] = slots[j] /\ slots[i] # 0 => i = j
    /\ \A k \in 1..Len(entries) : Reachable(k)

\* A header that is being bound was read, and is admitted before it is compared.
Asking ==
  /\ at \in {"header", "bind"} => asked.header \in Headers
  /\ at = "bind" => Admitted(asked.header) /\ asked.tensors = Sorted(asked.header.tensors)

\* The header h has the tensors that the index has for the shard s, and no others.
Fits(s, h) ==
  /\ h \in Headers /\ Admitted(h)
  /\ \A i \in DOMAIN h.tensors : \E k \in DOMAIN Index :
       Index[k].shard = s /\ Index[k].name = h.tensors[i].name
  /\ \A k \in DOMAIN Index : Index[k].shard = s =>
       \E i \in DOMAIN h.tensors : h.tensors[i].name = Index[k].name

Fitting ==
  /\ \A s \in DOMAIN bound : bound[s] # Unbound => Fits(s, bound[s])
  /\ at \in {"parse", "insert"} => \A s \in DOMAIN bound : bound[s] = Unbound

\* What a production load or its verification binds is what verification saw.
Seen ==
  /\ verifying => caller = "production" /\ at # "ready"
  /\ caller = "production" =>
       /\ \A s \in DOMAIN bound : bound[s] # Unbound =>
            \E j \in DOMAIN files : PinnedShards[j] = s /\ files[j] = bound[s]
       /\ at \in {"header", "bind"} =>
            \E j \in DOMAIN files : PinnedShards[j] = asked.shard /\ files[j] = asked.header
  /\ caller = "production" /\ ~verifying =>
       /\ Mtp \in DOMAIN bound => bound[Mtp] = Unbound
       /\ at \in {"header", "bind"} => asked.shard \in DOMAIN bound \ {Mtp}

\* A pinned tensor is in the index, in a shard that verification saw, with its length.
Kept(p) ==
  \E k \in DOMAIN Index : \E j \in DOMAIN files :
    /\ Index[k].name = p.name /\ Index[k].shard # Mtp
    /\ PinnedShards[j] = Index[k].shard /\ files[j] \in Headers
    /\ \E i \in DOMAIN files[j].tensors :
         files[j].tensors[i].name = p.name /\ files[j].tensors[i].bytes = p.bytes

\* What verification leaves behind.
Verified ==
  caller = "production" /\ ~verifying =>
    /\ Index # <<>> /\ Unique(Index) /\ Mtp \in ShardsOf(document)
    /\ \A s \in ShardsOf(document) \ {Mtp} :
         \E j \in DOMAIN files : PinnedShards[j] = s /\ Fits(s, files[j])
    /\ \A p \in Pinned : p.mtp \/ Kept(p)

\* What is true of a catalogue from which a model is built.
Finished ==
  at = "ready" =>
    /\ \A k \in DOMAIN entries : entries[k].shard # Mtp => bound[entries[k].shard] # Unbound
    /\ TotalIsRight

IInv ==
  /\ TypeOK /\ Indexed /\ Table /\ Asking /\ Fitting /\ ShardMatchesHeader
  /\ Seen /\ Verified /\ VerifiedLoads /\ Finished

-------------------------------------------------------------------------------
\* The remainder of q * s + k.
LEMMA Remainder ==
  ASSUME NEW s \in Nat \ {0}, NEW q \in Nat, NEW k \in 0..s - 1
  PROVE  (s * q + k) % s = k
<1> DEFINE x == s * q + k
           d == x \div s
           r == x % s
<1>0. s * q \in Nat
  OBVIOUS
<1>1. x \in Nat
  BY <1>0
<1>2. d \in Int /\ r \in 0..s - 1 /\ x = s * d + r
  BY <1>1
<1>3. x = s * q + k
  OBVIOUS
<1> HIDE DEF x, d, r
<1>4. CASE d = q
  <2>1. r = k
    BY <1>0, <1>2, <1>3, <1>4
  <2> QED
    BY <2>1 DEF r, x
<1>5. CASE d >= q + 1
  <2>1. s * d >= s * (q + 1) /\ s * (q + 1) = s * q + s /\ s * d \in Int
    BY <1>2, <1>5
  <2> QED
    BY <1>0, <1>2, <1>3, <2>1
<1>6. CASE d <= q - 1
  <2>1. s * d <= s * (q - 1) /\ s * (q - 1) = s * q - s /\ s * d \in Int
    BY <1>2, <1>6
  <2> QED
    BY <1>0, <1>2, <1>3, <2>1
<1> QED
  BY <1>2, <1>4, <1>5, <1>6 DEF x

\* Probing from any hash comes to every slot.
LEMMA ProbingIsFull ==
  ASSUME NEW s \in Nat \ {0}, NEW h \in Nat, NEW k \in 0..s - 1
  PROVE  \E p \in 0..s - 1 : (h + p) % s = k
<1> DEFINE q == h \div s
           r == h % s
<1>1. q \in Nat /\ r \in 0..s - 1 /\ h = s * q + r
  OBVIOUS
<1> HIDE DEF q, r
<1>2. s * q \in Nat /\ s * (q + 1) = s * q + s
  BY <1>1
<1>3. CASE k >= r
  <2>1. k - r \in 0..s - 1 /\ h + (k - r) = s * q + k
    BY <1>1, <1>2, <1>3
  <2>2. (s * q + k) % s = k
    BY <1>1, Remainder
  <2> QED
    BY <2>1, <2>2
<1>4. CASE k < r
  <2>1. k - r + s \in 0..s - 1 /\ h + (k - r + s) = s * (q + 1) + k
    BY <1>1, <1>2, <1>4
  <2>2. q + 1 \in Nat
    BY <1>1
  <2>3. (s * (q + 1) + k) % s = k
    BY <2>2, Remainder
  <2> QED
    BY <2>1, <2>3
<1> QED
  BY <1>1, <1>3, <1>4

-------------------------------------------------------------------------------
\* The number of slots is twice the number of members or more.
LEMMA SlotCountIs ==
  ASSUME NEW doc \in Documents
  PROVE  /\ SlotCount(Len(doc.members)) \in Nat \ {0}
         /\ SlotCount(Len(doc.members)) >= 2 * Len(doc.members)
<1> DEFINE S == {n \in SlotCounts : n >= 2 * Len(doc.members)}
<1>1. S \in SUBSET Nat /\ S # {} /\ \A n \in S : n \in Nat \ {0} /\ n >= 2 * Len(doc.members)
  BY CatalogueAssumption
<1> HIDE DEF S
<1>2. Min(S) \in S
  BY <1>1, LeastIs
<1> QED
  BY <1>1, <1>2 DEF SlotCount, S

\* The members of an index.
LEMMA IndexType ==
  ASSUME TypeOK
  PROVE  /\ Index \in Seq(Members) /\ Len(Index) \in Nat /\ DOMAIN Index = 1..Len(Index)
         /\ \A k \in 1..Len(Index) : Index[k].name \in Names /\ Index[k].shard \in ShardsOf(document)
         /\ Len(entries) \in Nat /\ DOMAIN entries = 1..Len(entries)
         /\ \A k \in 1..Len(entries) : entries[k].name \in Names
         /\ Len(slots) \in Nat /\ DOMAIN slots = 1..Len(slots)
         /\ \A i \in 1..Len(slots) : slots[i] \in Nat
<1>1. document \in [members : Seq(Members), total : Nat]
  BY CatalogueAssumption DEF TypeOK
<1>2. Index \in Seq(Members)
  BY <1>1 DEF Index
<1>3. \A k \in 1..Len(Index) : Index[k] \in Members
  BY <1>2, ElementOfSeq
<1>4. \A k \in 1..Len(entries) : entries[k] \in [name : Names, shard : Shards, range : Ranges \cup {Unbound}]
  BY ElementOfSeq DEF TypeOK
<1>5. \A i \in 1..Len(slots) : slots[i] \in Nat
  BY ElementOfSeq DEF TypeOK
<1> QED
  BY <1>2, <1>3, <1>4, <1>5 DEF TypeOK, Members, ShardsOf, Index

\* Every slot that is looked at is in the table.
LEMMA ProbedIs ==
  ASSUME TypeOK, slots # <<>>, NEW n \in Names, NEW p \in Nat
  PROVE  Probed(n, p) \in 0..Len(slots) - 1
<1>1. hash[n] \in Nat
  BY CatalogueAssumption DEF TypeOK
<1>2. Len(slots) \in Nat \ {0}
  BY DEF TypeOK
<1> QED
  BY <1>1, <1>2 DEF Probed

\* Where find_slot() comes to: no slot if all are taken by other names, or else
\* the first one that is not.
LEMMA FindSlotIs ==
  ASSUME TypeOK, slots # <<>>, NEW n \in Names
  PROVE  \/ /\ FindSlot(n) = Len(slots)
            /\ \A p \in 0..Len(slots) - 1 : Occupied(Probed(n, p)) /\ NameAt(Probed(n, p)) # n
         \/ \E p \in 0..Len(slots) - 1 :
              /\ FindSlot(n) = Probed(n, p)
              /\ Occupied(Probed(n, p)) => NameAt(Probed(n, p)) = n
              /\ \A q \in 0..p - 1 : Occupied(Probed(n, q)) /\ NameAt(Probed(n, q)) # n
<1> DEFINE Hit(p) == Occupied(Probed(n, p)) => NameAt(Probed(n, p)) = n
           hits == {p \in 0..Len(slots) - 1 : Hit(p)}
<1>1. FindSlot(n) = IF hits = {} THEN Len(slots) ELSE Probed(n, Min(hits))
  BY DEF FindSlot
<1>2. CASE hits = {}
  BY <1>1, <1>2
<1>3. CASE hits # {}
  <2>1. Len(slots) \in Nat
    BY DEF TypeOK
  <2>2. hits \in SUBSET Nat
    BY <2>1
  <2> HIDE DEF hits
  <2>3. Min(hits) \in hits /\ \A x \in hits : Min(hits) <= x
    BY <1>3, <2>2, LeastIs
  <2> DEFINE p == Min(hits)
  <2>4. p \in 0..Len(slots) - 1 /\ Hit(p)
    BY <2>3 DEF hits
  <2>5. \A q \in 0..p - 1 : q \in 0..Len(slots) - 1 /\ q \notin hits
    BY <2>1, <2>2, <2>3, <2>4
  <2>6. \A q \in 0..p - 1 : ~Hit(q)
    BY <2>5 DEF hits
  <2>7. FindSlot(n) = Probed(n, p)
    BY <1>1, <1>3
  <2> HIDE DEF p
  <2> QED
    BY <2>4, <2>6, <2>7
<1> QED
  BY <1>2, <1>3

\* What the table says of the name in an occupied slot.
LEMMA InTheTable ==
  ASSUME TypeOK, Indexed, Table, slots # <<>>, NEW i \in 0..Len(slots) - 1, Occupied(i)
  PROVE  /\ slots[i + 1] \in 1..Len(entries)
         /\ NameAt(i) = entries[slots[i + 1]].name
         /\ \A k \in 1..Len(Index) : Index[k].name = NameAt(i) => k = slots[i + 1]
<1>1. Len(slots) \in Nat /\ Len(entries) \in Nat /\ Len(Index) \in Nat /\ DOMAIN Index = 1..Len(Index)
  BY IndexType
<1>2. i + 1 \in 1..Len(slots)
  BY <1>1
<1>3. slots[i + 1] \in 1..Len(entries)
  BY <1>1, <1>2 DEF Table, Occupied
<1>4. NameAt(i) = entries[slots[i + 1]].name
  BY DEF NameAt
<1>5. slots[i + 1] \in 1..Len(Index) /\ NameAt(i) = Index[slots[i + 1]].name
  BY <1>1, <1>3, <1>4 DEF Indexed
<1> QED
  BY <1>1, <1>3, <1>4, <1>5 DEF Table, Unique

\* Every entry is found under its name.
LEMMA Found ==
  ASSUME TypeOK, Indexed, Table, NEW k \in 1..Len(entries)
  PROVE  FindTensor(entries[k].name) = k
<1> DEFINE n == entries[k].name
<1>0. slots # <<>>
  <2>1. entries # <<>>
    <3>1. Len(<<>>) = 0 /\ 1..0 = {}
      OBVIOUS
    <3>2. entries = <<>> => 1..Len(entries) = {}
      BY <3>1
    <3> QED
      BY <3>2
  <2> QED
    BY <2>1 DEF Indexed
<1>1. /\ n \in Names /\ Len(slots) \in Nat /\ Len(entries) \in Nat /\ Len(Index) \in Nat
      /\ k \in 1..Len(Index) /\ Index[k].name = n /\ k # 0
  <2>1. n \in Names /\ Len(slots) \in Nat /\ Len(entries) \in Nat /\ Len(Index) \in Nat
    BY IndexType
  <2>2. n = Index[k].name /\ Len(entries) <= Len(Index)
    BY DEF Indexed
  <2> HIDE DEF n
  <2> QED
    BY <2>1, <2>2
<1>2. PICK p \in 0..Len(slots) - 1 :
        /\ slots[Probed(n, p) + 1] = k
        /\ \A q \in 0..p - 1 : slots[Probed(n, q) + 1] # 0
  BY <1>0 DEF Table, Reachable
<1> HIDE DEF n
<1>3. Occupied(Probed(n, p)) /\ NameAt(Probed(n, p)) = n
  BY <1>1, <1>2 DEF Occupied, NameAt, n
<1>4. PICK r \in 0..Len(slots) - 1 :
        /\ FindSlot(n) = Probed(n, r)
        /\ Occupied(Probed(n, r)) => NameAt(Probed(n, r)) = n
        /\ \A q \in 0..r - 1 : Occupied(Probed(n, q)) /\ NameAt(Probed(n, q)) # n
  BY <1>0, <1>1, <1>3, FindSlotIs
<1>5. p \in Nat /\ r \in Nat /\ r <= p
  BY <1>1, <1>3, <1>4
<1>6. Occupied(Probed(n, r))
  BY <1>2, <1>3, <1>5 DEF Occupied
<1>7. Probed(n, r) \in 0..Len(slots) - 1
  BY <1>0, <1>1, <1>5, ProbedIs
<1>8. slots[Probed(n, r) + 1] = k
  BY <1>0, <1>1, <1>4, <1>6, <1>7, InTheTable
<1>9. FindSlot(n) # Len(slots) /\ slots[FindSlot(n) + 1] = k
  BY <1>1, <1>4, <1>7, <1>8
<1> QED
  BY <1>0, <1>9 DEF FindTensor, n

\* What is found under a name has it.
LEMMA FoundHasTheName ==
  ASSUME TypeOK, Indexed, Table, NEW n \in Names, FindTensor(n) # 0
  PROVE  FindTensor(n) \in 1..Len(entries) /\ entries[FindTensor(n)].name = n
<1>1. slots # <<>> /\ FindSlot(n) # Len(slots) /\ FindTensor(n) = slots[FindSlot(n) + 1]
  BY DEF FindTensor
<1>2. PICK p \in 0..Len(slots) - 1 :
        /\ FindSlot(n) = Probed(n, p)
        /\ Occupied(Probed(n, p)) => NameAt(Probed(n, p)) = n
  BY <1>1, FindSlotIs
<1>3. p \in Nat
  BY IndexType
<1>4. Probed(n, p) \in 0..Len(slots) - 1
  BY <1>1, <1>3, ProbedIs
<1>5. Occupied(Probed(n, p))
  BY <1>1, <1>2 DEF Occupied
<1> QED
  BY <1>1, <1>2, <1>4, <1>5, InTheTable

\* Whatever is found, is found for the entries.
THEOREM IndexIsFound ==
  ASSUME TypeOK, Indexed, Table
  PROVE  FindsWhatIsIndexed
<1>0. DOMAIN entries = 1..Len(entries) /\ Len(entries) \in Nat /\ 0 \notin 1..Len(entries)
  BY IndexType
<1>1. ASSUME NEW n \in Names
      PROVE  LET positions == {k \in DOMAIN entries : entries[k].name = n}
             IN IF positions = {} THEN FindTensor(n) = 0 ELSE positions = {FindTensor(n)}
  <2> DEFINE positions == {k \in DOMAIN entries : entries[k].name = n}
  <2>1. \A k \in positions : FindTensor(n) = k
    BY <1>0, Found
  <2>2. FindTensor(n) # 0 => FindTensor(n) \in positions
    BY <1>0, FoundHasTheName
  <2> HIDE DEF positions
  <2>3. IF positions = {} THEN FindTensor(n) = 0 ELSE positions = {FindTensor(n)}
    BY <2>1, <2>2
  <2> QED
    BY <2>3 DEF positions
<1>2. at = "failed" /\ Len(entries) < Len(document.members) => ~Unique(document.members)
  <2>1. Len(entries) \in Nat /\ Len(Index) \in Nat
    BY IndexType
  <2> QED
    BY <2>1 DEF Indexed, Index
<1> QED
  BY <1>1, <1>2 DEF FindsWhatIsIndexed

-------------------------------------------------------------------------------
\* Some slot is free as long as there are fewer entries than slots.
LEMMA FreeSlot ==
  ASSUME TypeOK, Indexed, Table, slots # <<>>
  PROVE  \E i \in 0..Len(slots) - 1 : ~Occupied(i)
<1> SUFFICES ASSUME \A i \in 0..Len(slots) - 1 : Occupied(i) PROVE FALSE
  OBVIOUS
<1> DEFINE S == 1..Len(slots)
           T == 1..Len(entries)
<1>1. /\ Len(slots) \in Nat /\ Len(entries) \in Nat /\ Len(Index) \in Nat
      /\ Len(entries) <= Len(Index) /\ DOMAIN slots = S
      /\ Len(slots) > Len(Index)
  BY IndexType DEF Table, Indexed
<1>2. \A i \in S : i - 1 \in 0..Len(slots) - 1 /\ (i - 1) + 1 = i
  BY <1>1
<1>3. \A i \in S : slots[i] # 0
  BY <1>2 DEF Occupied
<1>4. \A i \in S : slots[i] \in T
  BY <1>1, <1>3 DEF Table
<1>5. slots \in [S -> T]
  BY <1>1, <1>4 DEF TypeOK
<1>6. IsFiniteSet(S) /\ IsFiniteSet(T) /\ Cardinality(S) = Len(slots) /\ Cardinality(T) = Len(entries)
  <2>1. ASSUME NEW n \in Nat PROVE IsFiniteSet(1..n) /\ Cardinality(1..n) = n
    <3>1. 1 \in Int /\ n \in Int
      OBVIOUS
    <3>2. Cardinality(1..n) = IF 1 > n THEN 0 ELSE n - 1 + 1
      BY <3>1, FS_Interval
    <3> QED
      BY <3>1, <3>2, FS_Interval
  <2> QED
    BY <1>1, <2>1
<1>7. Cardinality(T) < Cardinality(S)
  BY <1>1, <1>6
<1>8. \A i, j \in S : slots[i] = slots[j] => i = j
  BY <1>3 DEF Table
<1> HIDE DEF S, T
<1>9. \E x, y \in S : x # y /\ slots[x] = slots[y]
  BY <1>5, <1>6, <1>7, FS_PigeonHole
<1> QED
  BY <1>8, <1>9

\* The next member is not in the table yet, and probing for it comes to a free
\* slot over occupied ones.
LEMMA RoomForNext ==
  ASSUME TypeOK, Indexed, Table, slots # <<>>, Len(entries) < Len(Index)
  PROVE  LET n == Index[Len(entries) + 1].name
         IN \E p \in 0..Len(slots) - 1 :
              /\ FindSlot(n) = Probed(n, p) /\ FindSlot(n) \in 0..Len(slots) - 1
              /\ ~Occupied(FindSlot(n))
              /\ \A q \in 0..p - 1 : Occupied(Probed(n, q))
<1> DEFINE next == Len(entries) + 1
           n == Index[next].name
<1>1. /\ Len(slots) \in Nat \ {0} /\ Len(entries) \in Nat /\ next \in 1..Len(Index)
      /\ n \in Names /\ hash[n] \in Nat
  <2>1. Len(slots) \in Nat \ {0} /\ Len(entries) \in Nat /\ next \in 1..Len(Index)
    BY IndexType DEF TypeOK
  <2> HIDE DEF next
  <2>2. n \in Names
    BY <2>1, IndexType
  <2> QED
    BY <2>1, <2>2, CatalogueAssumption DEF TypeOK
<1>2. next \notin 1..Len(entries)
  BY <1>1
<1> HIDE DEF next
<1>3. \A i \in 0..Len(slots) - 1 : Occupied(i) => NameAt(i) # n
  BY <1>1, <1>2, InTheTable
<1>4. PICK i \in 0..Len(slots) - 1 : ~Occupied(i)
  BY FreeSlot
<1> HIDE DEF n
<1>5. PICK q \in 0..Len(slots) - 1 : Probed(n, q) = i
  BY <1>1, ProbingIsFull DEF Probed
<1>6. PICK p \in 0..Len(slots) - 1 :
        /\ FindSlot(n) = Probed(n, p)
        /\ Occupied(Probed(n, p)) => NameAt(Probed(n, p)) = n
        /\ \A r \in 0..p - 1 : Occupied(Probed(n, r)) /\ NameAt(Probed(n, r)) # n
  BY <1>1, <1>4, <1>5, FindSlotIs
<1>7. Probed(n, p) \in 0..Len(slots) - 1
  <2>1. p \in Nat
    BY <1>1
  <2> QED
    BY <1>1, <2>1, ProbedIs
<1>8. ~Occupied(Probed(n, p))
  BY <1>3, <1>6, <1>7
<1>9. /\ FindSlot(n) = Probed(n, p) /\ FindSlot(n) \in 0..Len(slots) - 1
      /\ ~Occupied(FindSlot(n))
      /\ \A r \in 0..p - 1 : Occupied(Probed(n, r))
  BY <1>6, <1>7, <1>8
<1> QED
  BY <1>9 DEF n, next

-------------------------------------------------------------------------------
\* The fields of tensors.
LEMMA TensorsAre ==
  ASSUME NEW q \in Seq(Tensors)
  PROVE  /\ Len(q) \in Nat /\ DOMAIN q = 1..Len(q)
         /\ \A i \in 1..Len(q) :
              /\ q[i] \in Tensors /\ q[i].name \in Names
              /\ q[i].start \in Nat /\ q[i].bytes \in Nat
<1>1. \A i \in 1..Len(q) : q[i] \in Tensors
  BY ElementOfSeq
<1> QED
  BY <1>1 DEF Tensors

\* One triple of numbers comes before another, as in a dictionary.
Lex(s, b, i, t, c, j) == s < t \/ (s = t /\ (b < c \/ (b = c /\ i < j)))

\* This order is transitive.
LEMMA Lexicographic ==
  ASSUME NEW s \in Nat, NEW b \in Nat, NEW i \in Nat, NEW t \in Nat, NEW c \in Nat, NEW j \in Nat,
         NEW u \in Nat, NEW d \in Nat, NEW k \in Nat, Lex(s, b, i, t, c, j), Lex(t, c, j, u, d, k)
  PROVE  Lex(s, b, i, u, d, k)
BY DEF Lex

\* Sorting rearranges the tensors.
LEMMA SortedIs ==
  ASSUME NEW tensors \in Seq(Tensors)
  PROVE  \E o \in [1..Len(tensors) -> 1..Len(tensors)] :
           /\ Sorted(tensors) = [k \in 1..Len(tensors) |-> tensors[o[k]]]
           /\ \A i, j \in 1..Len(tensors) : o[i] = o[j] => i = j
           /\ \A i \in 1..Len(tensors) : \E k \in 1..Len(tensors) : o[k] = i
<1> DEFINE n == Len(tensors)
           Earlier(i, j) == \/ Before(tensors[i], tensors[j])
                            \/ ~Before(tensors[j], tensors[i]) /\ i < j
           R == {x \in (1..n) \X (1..n) : Earlier(x[1], x[2])}
           Sorts(o) == \A i, j \in 1..n : i < j => o[i] # o[j] /\ ~Before(tensors[o[j]], tensors[o[i]])
<1>1. n \in Nat /\ DOMAIN tensors = 1..n
  OBVIOUS
<1>2. \A i \in 1..n : tensors[i].start \in Nat /\ tensors[i].bytes \in Nat
  BY TensorsAre
<1>3. \A i, j \in 1..n : <<i, j>> \in R <=> Earlier(i, j)
  OBVIOUS
<1> HIDE DEF n, R
<1>4. Ranks(R, 1..n)
  <2>1. \A i \in 1..n : ~Earlier(i, i)
    BY <1>1, <1>2 DEF Before
  <2>2. ASSUME NEW i \in 1..n, NEW j \in 1..n, NEW k \in 1..n, Earlier(i, j), Earlier(j, k)
        PROVE  Earlier(i, k)
    <3>1. /\ tensors[i].start \in Nat /\ tensors[j].start \in Nat /\ tensors[k].start \in Nat
          /\ tensors[i].bytes \in Nat /\ tensors[j].bytes \in Nat /\ tensors[k].bytes \in Nat
          /\ i \in Nat /\ j \in Nat /\ k \in Nat
      BY <1>1, <1>2
    <3>2. \A x, y \in 1..n : Earlier(x, y) <=>
            Lex(tensors[x].start, tensors[x].bytes, x, tensors[y].start, tensors[y].bytes, y)
      BY <1>1, <1>2 DEF Before, Lex
    <3> HIDE DEF Earlier
    <3>3. /\ Lex(tensors[i].start, tensors[i].bytes, i, tensors[j].start, tensors[j].bytes, j)
          /\ Lex(tensors[j].start, tensors[j].bytes, j, tensors[k].start, tensors[k].bytes, k)
      BY <2>2, <3>2
    <3>4. Lex(tensors[i].start, tensors[i].bytes, i, tensors[k].start, tensors[k].bytes, k)
      BY <3>1, <3>3, Lexicographic
    <3> QED
      BY <3>2, <3>4
  <2>3. \A i, j \in 1..n : i = j \/ Earlier(i, j) \/ Earlier(j, i)
    BY <1>1, <1>2 DEF Before
  <2> HIDE DEF Earlier
  <2> QED
    BY <1>3, <2>1, <2>2, <2>3 DEF Ranks
<1>5. PICK q : InOrder(q, R, n)
  BY <1>1, <1>4, Arrangement
<1>6. q \in [1..n -> 1..n] /\ Sorts(q)
  <2>1. q \in [1..n -> 1..n] /\ \A i, j \in 1..n : i < j => <<q[i], q[j]>> \in R
    BY <1>5 DEF InOrder
  <2>2. \A i, j \in 1..n : i < j => Earlier(q[i], q[j])
    BY <1>3, <2>1
  <2>3. ASSUME NEW i \in 1..n, NEW j \in 1..n, Earlier(i, j) PROVE i # j /\ ~Before(tensors[j], tensors[i])
    BY <1>1, <1>2, <2>3 DEF Before
  <2> HIDE DEF Earlier
  <2> QED
    BY <2>1, <2>2, <2>3
<1> DEFINE o == CHOOSE o \in [1..n -> 1..n] : Sorts(o)
<1>7. o \in [1..n -> 1..n] /\ Sorts(o)
  BY <1>6
<1>8. Sorted(tensors) = [k \in 1..n |-> tensors[o[k]]]
  BY <1>1 DEF Sorted
<1> HIDE DEF o
<1>9. \A i, j \in 1..n : o[i] = o[j] => i = j
  <2> SUFFICES ASSUME NEW i \in 1..n, NEW j \in 1..n, o[i] = o[j] PROVE i = j
    OBVIOUS
  <2>1. i < j \/ j < i \/ i = j
    BY <1>1
  <2> QED
    BY <1>7, <2>1
<1>10. \A i \in 1..n : \E k \in 1..n : o[k] = i
  <2> DEFINE S == 1..n
  <2>1. IsFiniteSet(S)
    BY <1>1, FS_Interval
  <2>2. o \in Injection(S, S)
    BY <1>7, <1>9 DEF Injection, IsInjective
  <2> HIDE DEF S
  <2>3. o \in Surjection(S, S)
    BY <2>1, <2>2, FS_Injection
  <2> QED
    BY <2>3 DEF Surjection, S
<1> QED
  BY <1>7, <1>8, <1>9, <1>10 DEF n

\* What is sorted are the same tensors, without repetitions if there were none.
LEMMA SortedHas ==
  ASSUME NEW tensors \in Seq(Tensors)
  PROVE  /\ Sorted(tensors) \in Seq(Tensors) /\ Len(Sorted(tensors)) = Len(tensors)
         /\ \A k \in 1..Len(tensors) : \E i \in 1..Len(tensors) : Sorted(tensors)[k] = tensors[i]
         /\ \A i \in 1..Len(tensors) : \E k \in 1..Len(tensors) : Sorted(tensors)[k] = tensors[i]
         /\ Unique(tensors) => Unique(Sorted(tensors))
<1> DEFINE n == Len(tensors)
<1>1. PICK o \in [1..n -> 1..n] :
        /\ Sorted(tensors) = [k \in 1..n |-> tensors[o[k]]]
        /\ \A i, j \in 1..n : o[i] = o[j] => i = j
        /\ \A i \in 1..n : \E k \in 1..n : o[k] = i
  BY SortedIs
<1>2. n \in Nat /\ DOMAIN tensors = 1..n /\ \A i \in 1..n : tensors[i] \in Tensors
  BY ElementOfSeq
<1> HIDE DEF n
<1>3. \A k \in 1..n : tensors[o[k]] \in Tensors
  BY <1>1, <1>2
<1>4. Sorted(tensors) \in Seq(Tensors) /\ Len(Sorted(tensors)) = n /\ DOMAIN Sorted(tensors) = 1..n
  BY <1>1, <1>2, <1>3
<1>5. \A k \in 1..n : Sorted(tensors)[k] = tensors[o[k]]
  BY <1>1
<1>6. Unique(tensors) => Unique(Sorted(tensors))
  BY <1>1, <1>2, <1>4, <1>5 DEF Unique
<1> QED
  <2>1. \A k \in 1..n : \E i \in 1..n : Sorted(tensors)[k] = tensors[i]
    BY <1>1, <1>5
  <2>2. \A i \in 1..n : \E k \in 1..n : Sorted(tensors)[k] = tensors[i]
    BY <1>1, <1>5
  <2> QED
    BY <1>4, <1>6, <2>1, <2>2 DEF n

\* A header has tensors.
LEMMA HeaderType ==
  ASSUME NEW h \in Headers
  PROVE  /\ h.tensors \in Seq(Tensors) /\ h.payload \in Nat
         /\ Len(h.tensors) \in Nat /\ DOMAIN h.tensors = 1..Len(h.tensors)
         /\ \A i \in 1..Len(h.tensors) :
              /\ h.tensors[i].name \in Names
              /\ h.tensors[i].start \in Nat /\ h.tensors[i].bytes \in Nat
<1>1. h.tensors \in Seq(Tensors) /\ h.payload \in Nat
  BY CatalogueAssumption
<1> QED
  BY <1>1, TensorsAre

-------------------------------------------------------------------------------
\* Tensors of different names are found at different entries; they are as many as
\* the entries of the shard just when each of these is found.
LEMMA Positions ==
  ASSUME TypeOK, Indexed, Table, NEW s, NEW q \in Seq(Tensors), Unique(q),
         \A i \in 1..Len(q) : FindTensor(q[i].name) # 0 /\ entries[FindTensor(q[i].name)].shard = s
  PROVE  Len(q) = Cardinality(Expected(s))
           <=> \A k \in Expected(s) : \E i \in 1..Len(q) : FindTensor(q[i].name) = k
<1> DEFINE S == 1..Len(q)
           T == Expected(s)
           g == [i \in S |-> FindTensor(q[i].name)]
<1>1. Len(entries) \in Nat /\ DOMAIN entries = 1..Len(entries)
  BY IndexType
<1>2. Len(q) \in Nat /\ DOMAIN q = S /\ \A i \in S : q[i].name \in Names
  BY TensorsAre
<1>3. IsFiniteSet(S) /\ Cardinality(S) = Len(q)
  <2>1. 1 \in Int /\ Len(q) \in Int
    BY <1>2
  <2>2. Cardinality(S) = IF 1 > Len(q) THEN 0 ELSE Len(q) - 1 + 1
    BY <2>1, FS_Interval
  <2> QED
    BY <1>2, <2>1, <2>2, FS_Interval
<1>4. IsFiniteSet(T)
  <2>1. IsFiniteSet(1..Len(entries)) /\ T \in SUBSET (1..Len(entries))
    BY <1>1, FS_Interval DEF Expected
  <2> HIDE DEF T
  <2> QED
    BY <2>1, FS_Subset
<1>5. \A i \in S : g[i] \in T /\ entries[g[i]].name = q[i].name
  BY <1>1, <1>2, FoundHasTheName DEF Expected
<1>6. \A i, j \in S : g[i] = g[j] => i = j
  BY <1>2, <1>5 DEF Unique
<1>7. g \in [S -> T]
  BY <1>5
<1> HIDE DEF S, T, g
<1>8. g \in Injection(S, T)
  BY <1>6, <1>7 DEF Injection, IsInjective
<1>9. Cardinality(S) = Cardinality(T) <=> g \in Surjection(S, T)
  BY <1>4, <1>8, FS_Injection
<1>10. g \in Surjection(S, T) <=> \A k \in T : \E i \in S : g[i] = k
  BY <1>7 DEF Surjection
<1> QED
  BY <1>3, <1>9, <1>10 DEF S, T, g

-------------------------------------------------------------------------------
\* The tensors that are compared are those of the header that was read.
LEMMA AskedIs ==
  ASSUME TypeOK, Indexed, Asking, at = "bind"
  PROVE  /\ asked.header \in Headers /\ Admitted(asked.header)
         /\ asked.tensors \in Seq(Tensors) /\ Unique(asked.tensors)
         /\ Len(asked.tensors) = Len(asked.header.tensors)
         /\ \A k \in 1..Len(asked.tensors) : \E i \in 1..Len(asked.tensors) :
              asked.tensors[k] = asked.header.tensors[i]
         /\ \A i \in 1..Len(asked.tensors) : \E k \in 1..Len(asked.tensors) :
              asked.tensors[k] = asked.header.tensors[i]
         /\ slots # <<>> /\ Len(entries) = Len(Index)
<1>1. asked.header \in Headers /\ Admitted(asked.header) /\ asked.tensors = Sorted(asked.header.tensors)
  BY DEF Asking
<1>2. asked.header.tensors \in Seq(Tensors)
  BY <1>1, HeaderType
<1>3. Unique(asked.header.tensors)
  BY <1>1 DEF Admitted
<1>4. slots # <<>> /\ Len(entries) = Len(Index)
  BY DEF Indexed
<1> DEFINE ts == asked.header.tensors
           q == Sorted(ts)
<1> HIDE DEF ts
<1>5. /\ q \in Seq(Tensors) /\ Len(q) = Len(ts) /\ Unique(q)
      /\ \A k \in 1..Len(ts) : \E i \in 1..Len(ts) : q[k] = ts[i]
      /\ \A i \in 1..Len(ts) : \E k \in 1..Len(ts) : q[k] = ts[i]
  BY <1>2, <1>3, SortedHas DEF ts
<1> HIDE DEF q
<1>6. asked.tensors = q
  BY <1>1 DEF q, ts
<1> QED
  BY <1>1, <1>4, <1>5, <1>6 DEF ts

\* A header that is compared with success has the tensors of the shard.
LEMMA ComparedFits ==
  ASSUME TypeOK, Indexed, Table, Asking, at = "bind", Compared
  PROVE  /\ Fits(asked.shard, asked.header) /\ asked.shard \in ShardsOf(document)
         /\ \A k \in Expected(asked.shard) : \E i \in 1..Len(asked.tensors) :
              FindTensor(asked.tensors[i].name) = k
<1> DEFINE q == asked.tensors
           h == asked.header
           s == asked.shard
           ts == h.tensors
<1>1. /\ h \in Headers /\ Admitted(h) /\ q \in Seq(Tensors) /\ Unique(q) /\ Len(q) = Len(ts)
      /\ \A k \in 1..Len(q) : \E i \in 1..Len(q) : q[k] = ts[i]
      /\ \A i \in 1..Len(q) : \E k \in 1..Len(q) : q[k] = ts[i]
      /\ slots # <<>> /\ Len(entries) = Len(Index)
  BY AskedIs
<1>2. /\ Expected(s) # {} /\ Len(q) = Cardinality(Expected(s))
      /\ \A k \in DOMAIN q : FindTensor(q[k].name) # 0 /\ entries[FindTensor(q[k].name)].shard = s
  BY DEF Compared
<1>3. /\ DOMAIN q = 1..Len(q) /\ \A k \in 1..Len(q) : q[k].name \in Names
      /\ DOMAIN ts = 1..Len(q)
  BY <1>1, TensorsAre, HeaderType
<1>4. /\ DOMAIN Index = 1..Len(entries) /\ DOMAIN entries = 1..Len(entries)
      /\ \A k \in 1..Len(entries) : entries[k].name = Index[k].name /\ entries[k].shard = Index[k].shard
  BY <1>1, IndexType DEF Indexed
<1> HIDE DEF q, h, s, ts
<1>5. \A k \in Expected(s) : \E i \in 1..Len(q) : FindTensor(q[i].name) = k
  <2>1. \A i \in 1..Len(q) : FindTensor(q[i].name) # 0 /\ entries[FindTensor(q[i].name)].shard = s
    BY <1>2, <1>3
  <2> QED
    BY <1>1, <1>2, <2>1, Positions
<1>6. \A i \in 1..Len(q) : /\ FindTensor(q[i].name) \in 1..Len(entries)
                         /\ entries[FindTensor(q[i].name)].name = q[i].name
  BY <1>2, <1>3, FoundHasTheName
<1>7. \A i \in DOMAIN ts : \E k \in DOMAIN Index : Index[k].shard = s /\ Index[k].name = ts[i].name
  <2> SUFFICES ASSUME NEW i \in 1..Len(q)
               PROVE  \E k \in 1..Len(entries) : Index[k].shard = s /\ Index[k].name = ts[i].name
    BY <1>3, <1>4
  <2>1. PICK k \in 1..Len(q) : q[k] = ts[i]
    BY <1>1
  <2>2. FindTensor(q[k].name) \in 1..Len(entries)
    BY <1>6
  <2> QED
    BY <1>2, <1>3, <1>4, <1>6, <2>1, <2>2
<1>8. \A k \in DOMAIN Index : Index[k].shard = s => \E i \in DOMAIN ts : ts[i].name = Index[k].name
  <2> SUFFICES ASSUME NEW k \in 1..Len(entries), Index[k].shard = s
               PROVE  \E i \in 1..Len(q) : ts[i].name = Index[k].name
    BY <1>3, <1>4
  <2>1. k \in Expected(s)
    BY <1>4 DEF Expected
  <2>2. PICK i \in 1..Len(q) : FindTensor(q[i].name) = k
    BY <1>5, <2>1
  <2>3. q[i].name = Index[k].name
    BY <1>4, <1>6, <2>2
  <2>4. PICK j \in 1..Len(q) : q[i] = ts[j]
    BY <1>1
  <2> QED
    BY <2>3, <2>4
<1>9. Fits(s, h)
  BY <1>1, <1>7, <1>8 DEF Fits, ts
<1>10. s \in ShardsOf(document)
  <2>1. PICK k \in Expected(s) : TRUE
    BY <1>2
  <2>2. k \in DOMAIN Index /\ Index[k].shard = s
    BY <1>4, <2>1 DEF Expected
  <2> QED
    BY <2>2 DEF ShardsOf, Index
<1> QED
  BY <1>5, <1>9, <1>10 DEF q, h, s

\* And a header that has them is compared with success.
LEMMA FitsCompared ==
  ASSUME TypeOK, Indexed, Table, Asking, at = "bind",
         Fits(asked.shard, asked.header), asked.shard \in ShardsOf(document)
  PROVE  Compared
<1> DEFINE q == asked.tensors
           h == asked.header
           s == asked.shard
           ts == h.tensors
<1>1. /\ h \in Headers /\ q \in Seq(Tensors) /\ Unique(q) /\ Len(q) = Len(ts)
      /\ \A k \in 1..Len(q) : \E i \in 1..Len(q) : q[k] = ts[i]
      /\ \A i \in 1..Len(q) : \E k \in 1..Len(q) : q[k] = ts[i]
      /\ Len(entries) = Len(Index)
  BY AskedIs
<1>2. /\ DOMAIN q = 1..Len(q) /\ \A k \in 1..Len(q) : q[k].name \in Names
      /\ DOMAIN ts = 1..Len(q)
  BY <1>1, TensorsAre, HeaderType
<1>3. /\ DOMAIN Index = 1..Len(entries) /\ DOMAIN entries = 1..Len(entries)
      /\ \A k \in 1..Len(entries) : entries[k].name = Index[k].name /\ entries[k].shard = Index[k].shard
      /\ Len(entries) \in Nat
  BY <1>1, IndexType DEF Indexed
<1>4. /\ \A i \in 1..Len(q) : \E k \in 1..Len(entries) : Index[k].shard = s /\ Index[k].name = ts[i].name
      /\ \A k \in 1..Len(entries) : Index[k].shard = s => \E i \in 1..Len(q) : ts[i].name = Index[k].name
  BY <1>2, <1>3 DEF Fits
<1>5. Expected(s) # {}
  <2>1. PICK k \in DOMAIN Index : Index[k].shard = s
    BY DEF ShardsOf, Index
  <2> QED
    BY <1>3, <2>1 DEF Expected
<1> HIDE DEF q, h, s, ts
<1>6. \A i \in 1..Len(q) : FindTensor(q[i].name) # 0 /\ entries[FindTensor(q[i].name)].shard = s
  <2> SUFFICES ASSUME NEW i \in 1..Len(q)
               PROVE  FindTensor(q[i].name) # 0 /\ entries[FindTensor(q[i].name)].shard = s
    OBVIOUS
  <2>1. PICK j \in 1..Len(q) : q[i] = ts[j]
    BY <1>1
  <2>2. PICK k \in 1..Len(entries) : Index[k].shard = s /\ Index[k].name = ts[j].name
    BY <1>4
  <2>3. FindTensor(entries[k].name) = k
    BY Found
  <2>4. entries[k].name = q[i].name /\ entries[k].shard = s /\ k # 0
    BY <1>3, <2>1, <2>2
  <2> QED
    BY <2>3, <2>4
<1>7. \A k \in Expected(s) : \E i \in 1..Len(q) : FindTensor(q[i].name) = k
  <2> SUFFICES ASSUME NEW k \in Expected(s) PROVE \E i \in 1..Len(q) : FindTensor(q[i].name) = k
    OBVIOUS
  <2>1. k \in 1..Len(entries) /\ Index[k].shard = s /\ entries[k].name = Index[k].name
    BY <1>3 DEF Expected
  <2>2. PICK i \in 1..Len(q) : ts[i].name = Index[k].name
    BY <1>4, <2>1
  <2>3. PICK j \in 1..Len(q) : q[j] = ts[i]
    BY <1>1
  <2>4. FindTensor(entries[k].name) = k
    BY <2>1, Found
  <2>5. q[j].name = entries[k].name
    BY <2>1, <2>2, <2>3
  <2> QED
    BY <2>4, <2>5
<1>8. Len(q) = Cardinality(Expected(s))
  BY <1>1, <1>6, <1>7, Positions
<1> QED
  BY <1>2, <1>5, <1>6, <1>8 DEF Compared, q, s

\* What the second half of bind_tensors() leaves: every entry of the shard has the
\* range of its tensor, the others are as they were.
LEMMA PublishedIs ==
  ASSUME TypeOK, Indexed, Table, Asking, at = "bind", Compared
  PROVE  /\ Published \in Seq([name : Names, shard : Shards, range : Ranges \cup {Unbound}])
         /\ Len(Published) = Len(entries) /\ DOMAIN Published = 1..Len(entries)
         /\ \A k \in 1..Len(entries) :
              /\ Published[k].name = entries[k].name /\ Published[k].shard = entries[k].shard
              /\ IF entries[k].shard = asked.shard
                   THEN \E i \in DOMAIN asked.header.tensors :
                          /\ asked.header.tensors[i].name = entries[k].name
                          /\ Published[k].range = RangeOf(asked.header.tensors[i])
                   ELSE Published[k] = entries[k]
<1> DEFINE q == asked.tensors
           h == asked.header
           s == asked.shard
           ts == h.tensors
           Entry == [name : Names, shard : Shards, range : Ranges \cup {Unbound}]
           Asks(k, e) == FindTensor(q[k].name) = e
           New(k) == IF \E i \in 1..Len(q) : Asks(i, k)
                       THEN [entries[k] EXCEPT !.range =
                               RangeOf(q[CHOOSE i \in 1..Len(q) : Asks(i, k)])]
                       ELSE entries[k]
<1>1. /\ h \in Headers /\ q \in Seq(Tensors) /\ Unique(q) /\ Len(q) = Len(ts)
      /\ \A k \in 1..Len(q) : \E i \in 1..Len(q) : q[k] = ts[i]
      /\ Len(entries) = Len(Index)
  BY AskedIs
<1>2. /\ DOMAIN q = 1..Len(q) /\ Len(q) \in Nat /\ DOMAIN ts = 1..Len(q)
      /\ \A k \in 1..Len(q) : q[k].name \in Names /\ q[k].start \in Nat /\ q[k].bytes \in Nat
  BY <1>1, TensorsAre, HeaderType
<1>3. /\ DOMAIN entries = 1..Len(entries) /\ Len(entries) \in Nat
      /\ \A k \in 1..Len(entries) : entries[k] \in Entry
  BY IndexType, ElementOfSeq DEF TypeOK
<1>4. /\ \A i \in 1..Len(q) : FindTensor(q[i].name) # 0 /\ entries[FindTensor(q[i].name)].shard = s
      /\ \A i \in 1..Len(q) : entries[FindTensor(q[i].name)].name = q[i].name
  <2>1. \A i \in 1..Len(q) : FindTensor(q[i].name) # 0 /\ entries[FindTensor(q[i].name)].shard = s
    BY <1>2 DEF Compared
  <2> HIDE DEF q
  <2> QED
    BY <1>2, <2>1, FoundHasTheName
<1>5. \A k \in Expected(s) : \E i \in 1..Len(q) : Asks(i, k)
  BY ComparedFits
<1> HIDE DEF q, h, s, ts, Entry
<1>6. \A k \in 1..Len(entries) : \A i, j \in 1..Len(q) : Asks(i, k) /\ Asks(j, k) => i = j
  <2> SUFFICES ASSUME NEW k \in 1..Len(entries), NEW i \in 1..Len(q), NEW j \in 1..Len(q),
                      Asks(i, k), Asks(j, k)
               PROVE  i = j
    BY Zenon
  <2>1. q[i].name = q[j].name
    BY <1>4
  <2> QED
    BY <1>1, <1>2, <2>1 DEF Unique
<1>7. ASSUME NEW k \in 1..Len(entries), NEW i \in 1..Len(q), Asks(i, k)
      PROVE  /\ New(k) = [entries[k] EXCEPT !.range = RangeOf(q[i])]
             /\ {j \in DOMAIN q : FindTensor(q[j].name) = k} = {i}
             /\ Max({i}) = i
  <2>1. {j \in DOMAIN q : FindTensor(q[j].name) = k} = {i}
    BY <1>2, <1>6, <1>7
  <2>2. Max({i}) = i
    <3>1. i >= i
      BY <1>2
    <3> QED
      BY <3>1 DEF Max
  <2>3. (CHOOSE j \in 1..Len(q) : Asks(j, k)) = i
    BY <1>6, <1>7
  <2> QED
    BY <1>7, <2>1, <2>2, <2>3
<1>8. Published = [k \in 1..Len(entries) |-> New(k)]
  <2>1. ASSUME NEW k \in 1..Len(entries)
        PROVE  (LET asking == {i \in DOMAIN q : FindTensor(q[i].name) = k}
                IN IF asking = {} THEN entries[k]
                   ELSE [entries[k] EXCEPT !.range = RangeOf(q[Max(asking)])]) = New(k)
    <3>1. CASE \E i \in 1..Len(q) : Asks(i, k)
      <4>1. PICK i \in 1..Len(q) : Asks(i, k)
        BY <3>1
      <4> HIDE DEF New
      <4> QED
        BY <1>7, <4>1
    <3>2. CASE ~ \E i \in 1..Len(q) : Asks(i, k)
      <4>1. {i \in DOMAIN q : FindTensor(q[i].name) = k} = {}
        BY <1>2, <3>2
      <4> QED
        BY <3>2, <4>1
    <3> QED
      BY <3>1, <3>2
  <2> HIDE DEF New
  <2> QED
    BY <1>3, <2>1 DEF Published, q
<1>9. ASSUME NEW k \in 1..Len(entries)
      PROVE  /\ New(k) \in Entry
             /\ New(k).name = entries[k].name /\ New(k).shard = entries[k].shard
             /\ IF entries[k].shard = s
                  THEN \E i \in DOMAIN ts : ts[i].name = entries[k].name /\ New(k).range = RangeOf(ts[i])
                  ELSE New(k) = entries[k]
  <2>1. CASE entries[k].shard = s
    <3>1. k \in Expected(s)
      BY <1>3, <2>1 DEF Expected
    <3>2. PICK i \in 1..Len(q) : Asks(i, k)
      BY <1>5, <3>1
    <3>3. New(k) = [entries[k] EXCEPT !.range = RangeOf(q[i])]
      BY <1>7, <3>2
    <3>4. PICK j \in 1..Len(q) : q[i] = ts[j]
      BY <1>1
    <3>5. q[i].name = entries[k].name
      BY <1>4, <3>2
    <3>6. RangeOf(q[i]) \in Ranges
      BY <1>2 DEF RangeOf, Ranges
    <3> HIDE DEF New
    <3>7. /\ New(k) \in Entry /\ New(k).name = entries[k].name /\ New(k).shard = entries[k].shard
          /\ New(k).range = RangeOf(q[i])
      BY <1>3, <3>3, <3>6 DEF Entry
    <3>8. j \in DOMAIN ts /\ ts[j].name = entries[k].name /\ New(k).range = RangeOf(ts[j])
      BY <1>2, <3>4, <3>5, <3>7
    <3> QED
      BY <2>1, <3>7, <3>8
  <2>2. CASE entries[k].shard # s
    <3>1. ~ \E i \in 1..Len(q) : Asks(i, k)
      BY <1>4, <2>2
    <3> QED
      BY <1>3, <2>2, <3>1
  <2> QED
    BY <2>1, <2>2
<1> HIDE DEF New
<1>10. Published \in Seq(Entry) /\ Len(Published) = Len(entries)
  BY <1>3, <1>8, <1>9
<1> QED
  BY <1>8, <1>9, <1>10 DEF Entry, s, h, ts

-------------------------------------------------------------------------------
\* The shard that is loaded next is one of the index, not the MTP shard and not
\* bound; there is none when all others are bound.
LEMMA NextShardIs ==
  ASSUME TypeOK, Indexed
  PROVE  /\ \A s \in NextShard : s \in ShardsOf(document) /\ s # Mtp /\ bound[s] = Unbound
         /\ NextShard = {} => \A k \in DOMAIN entries :
              entries[k].shard # Mtp => bound[entries[k].shard] # Unbound
<1> DEFINE open == {k \in DOMAIN entries :
                      entries[k].shard # Mtp /\ bound[entries[k].shard] = Unbound}
<1>1. open \in SUBSET Nat /\ \A k \in open :
        entries[k].shard \in ShardsOf(document) /\ entries[k].shard # Mtp /\ bound[entries[k].shard] = Unbound
  <2>1. /\ DOMAIN entries = 1..Len(entries) /\ Len(entries) \in Nat /\ Len(Index) \in Nat
        /\ \A k \in 1..Len(Index) : Index[k].shard \in ShardsOf(document)
    BY IndexType
  <2>2. \A k \in 1..Len(entries) : k \in 1..Len(Index) /\ entries[k].shard = Index[k].shard
    BY <2>1 DEF Indexed
  <2> QED
    BY <2>1, <2>2
<1>2. NextShard = IF open = {} THEN {} ELSE {entries[Min(open)].shard}
  BY DEF NextShard
<1>3. open = {} => \A k \in DOMAIN entries :
        entries[k].shard # Mtp => bound[entries[k].shard] # Unbound
  OBVIOUS
<1> HIDE DEF open
<1>4. open # {} => Min(open) \in open
  BY <1>1, LeastIs
<1> QED
  BY <1>1, <1>2, <1>3, <1>4

\* The pinned shard that is verified next has not been looked at.
LEMMA NextPinnedIs ==
  ASSUME TypeOK
  PROVE  \A k \in NextPinned : k \in 1..Len(PinnedShards) /\ files[k] = Unbound
<1> DEFINE open == {k \in DOMAIN files : files[k] = Unbound}
<1>0. DOMAIN files = 1..Len(PinnedShards) /\ Len(PinnedShards) \in Nat
  BY CatalogueAssumption DEF TypeOK
<1>1. open \in SUBSET Nat /\ \A k \in open : k \in 1..Len(PinnedShards) /\ files[k] = Unbound
  BY <1>0
<1>2. NextPinned = IF open = {} THEN {} ELSE {Min(open)}
  BY DEF NextPinned
<1> HIDE DEF open
<1>3. open # {} => Min(open) \in open
  BY <1>1, LeastIs
<1> QED
  BY <1>1, <1>2, <1>3

\* What verification has seen of the pinned shards.
LEMMA FilesAre ==
  ASSUME TypeOK
  PROVE  /\ DOMAIN files = 1..Len(PinnedShards) /\ Len(PinnedShards) \in Nat \ {0}
         /\ DOMAIN PinnedShards = 1..Len(PinnedShards)
         /\ \A k \in 1..Len(PinnedShards) : PinnedShards[k] \in Shards
         /\ \A j, k \in 1..Len(PinnedShards) : PinnedShards[j] = PinnedShards[k] => j = k
         /\ Unbound \notin Headers /\ Missing \notin Headers
<1>1. PinnedShards \in Seq(Shards) /\ PinnedShards # <<>>
  BY CatalogueAssumption
<1>2. \A k \in 1..Len(PinnedShards) : PinnedShards[k] \in Shards
  BY <1>1, ElementOfSeq
<1>3. Len(PinnedShards) \in Nat \ {0} /\ DOMAIN PinnedShards = 1..Len(PinnedShards)
  BY <1>1
<1> QED
  BY <1>2, <1>3, CatalogueAssumption DEF TypeOK

\* The header that a load may find in a shard is one of verification's if there
\* was one.
LEMMA HeadersOfIs ==
  ASSUME TypeOK, NEW s, NEW h \in HeadersOf(s)
  PROVE  /\ h \in Headers
         /\ caller = "production" => \E j \in DOMAIN files : PinnedShards[j] = s /\ files[j] = h
<1>1. CASE caller = "production"
  <2>1. PICK j \in DOMAIN files : PinnedShards[j] = s /\ files[j] = h /\ h # Missing /\ h # Unbound
    BY <1>1 DEF HeadersOf
  <2>2. files[j] \in Headers \cup {Unbound, Missing}
    BY <2>1 DEF TypeOK
  <2> QED
    BY <2>1, <2>2
<1>2. CASE caller # "production"
  BY <1>2 DEF HeadersOf
<1> QED
  BY <1>1, <1>2

\* What the next member becomes: inkling_index_load() does not fail here.
LEMMA InsertIs ==
  ASSUME TypeOK, Indexed, Table, Insert
  PROVE  LET m == Len(entries) + 1
             new == [name |-> Index[m].name, shard |-> Index[m].shard, range |-> Unbound]
         IN /\ entries' = Append(entries, new) /\ m \in 1..Len(Index)
            /\ at' = IF m = Len(Index) THEN "idle" ELSE "insert"
            /\ slots # <<>>
            /\ \E p \in 0..Len(slots) - 1 :
                 /\ Probed(new.name, p) + 1 \in 1..Len(slots)
                 /\ slots' = [slots EXCEPT ![Probed(new.name, p) + 1] = m]
                 /\ slots[Probed(new.name, p) + 1] = 0
                 /\ \A q \in 0..p - 1 : slots[Probed(new.name, q) + 1] # 0
<1> DEFINE m == Len(entries) + 1
           n == Index[m].name
           new == [name |-> n, shard |-> Index[m].shard, range |-> Unbound]
<1>1. slots # <<>> /\ Len(entries) < Len(Index) /\ Len(entries) \in Nat /\ Len(Index) \in Nat
      /\ Len(slots) \in Nat
  BY IndexType DEF Insert, Indexed
<1>2. m \in 1..Len(Index)
  BY <1>1
<1>3. PICK p \in 0..Len(slots) - 1 :
        /\ FindSlot(n) = Probed(n, p) /\ FindSlot(n) \in 0..Len(slots) - 1
        /\ ~Occupied(FindSlot(n))
        /\ \A q \in 0..p - 1 : Occupied(Probed(n, q))
  BY <1>1, RoomForNext
<1> DEFINE slot == FindSlot(n)
<1>4. IF slot = Len(slots) \/ Occupied(slot)
        THEN at' = "failed" /\ UNCHANGED <<entries, slots>>
        ELSE /\ entries' = Append(entries, new)
             /\ slots' = [slots EXCEPT ![slot + 1] = m]
             /\ at' = IF Len(entries') = Len(Index) THEN "idle" ELSE "insert"
  BY DEF Insert, Index
<1> HIDE DEF m, slot
<1>5. slot # Len(slots) /\ ~Occupied(slot) /\ slot = Probed(n, p) /\ slot + 1 \in 1..Len(slots)
  BY <1>1, <1>3 DEF slot
<1>6. /\ entries' = Append(entries, new)
      /\ slots' = [slots EXCEPT ![slot + 1] = m]
      /\ at' = IF Len(entries') = Len(Index) THEN "idle" ELSE "insert"
  BY <1>4, <1>5
<1>7. Len(entries') = m
  BY <1>6 DEF m, TypeOK
<1>8. /\ Probed(n, p) + 1 \in 1..Len(slots)
      /\ slots' = [slots EXCEPT ![Probed(n, p) + 1] = m]
      /\ slots[Probed(n, p) + 1] = 0
      /\ \A q \in 0..p - 1 : slots[Probed(n, q) + 1] # 0
  BY <1>3, <1>5, <1>6 DEF Occupied
<1>9. new.name = n
  OBVIOUS
<1> HIDE DEF n, new
<1>10. /\ entries' = Append(entries, new) /\ m \in 1..Len(Index)
       /\ at' = IF m = Len(Index) THEN "idle" ELSE "insert"
       /\ slots # <<>>
       /\ \E r \in 0..Len(slots) - 1 :
            /\ Probed(new.name, r) + 1 \in 1..Len(slots)
            /\ slots' = [slots EXCEPT ![Probed(new.name, r) + 1] = m]
            /\ slots[Probed(new.name, r) + 1] = 0
            /\ \A q \in 0..r - 1 : slots[Probed(new.name, q) + 1] # 0
  BY <1>1, <1>2, <1>6, <1>7, <1>8, <1>9
<1> QED
  BY <1>10 DEF n, new, m

-------------------------------------------------------------------------------
\* The steps of the table: what a new slot and a new entry leave reachable.
LEMMA InsertKeepsTable ==
  ASSUME TypeOK, Indexed, Table, Insert
  PROVE  TypeOK' /\ Indexed' /\ Table'
<1> DEFINE m == Len(entries) + 1
           new == [name |-> Index[m].name, shard |-> Index[m].shard, range |-> Unbound]
           n == new.name
           Entry == [name : Names, shard : Shards, range : Ranges \cup {Unbound}]
<1>1. /\ entries' = Append(entries, new) /\ m \in 1..Len(Index)
      /\ at' = IF m = Len(Index) THEN "idle" ELSE "insert"
      /\ slots # <<>>
  BY InsertIs
<1>2. PICK p \in 0..Len(slots) - 1 :
        /\ Probed(n, p) + 1 \in 1..Len(slots)
        /\ slots' = [slots EXCEPT ![Probed(n, p) + 1] = m]
        /\ slots[Probed(n, p) + 1] = 0
        /\ \A q \in 0..p - 1 : slots[Probed(n, q) + 1] # 0
  BY InsertIs
<1>3. UNCHANGED <<caller, document, hash, verifying, files, asked, bound>>
  BY DEF Insert, given
<1>4. /\ Len(entries) \in Nat /\ Len(Index) \in Nat /\ Len(slots) \in Nat
      /\ m \in Nat /\ m = Len(entries) + 1 /\ m <= Len(Index)
      /\ Index' = Index
      /\ DOMAIN slots = 1..Len(slots) /\ \A i \in 1..Len(slots) : slots[i] \in Nat
  BY <1>1, <1>3, IndexType DEF Index
<1>5. new \in Entry /\ new.name = Index[m].name /\ new.shard = Index[m].shard
  <2>1. Index \in Seq(Members)
    BY IndexType
  <2>2. Index[m] \in Members
    BY <1>1, <2>1, ElementOfSeq
  <2> QED
    BY <2>2 DEF Members
<1> DEFINE z == Probed(n, p) + 1
<1> HIDE DEF m, new, z
<1>6. /\ entries' \in Seq(Entry) /\ Len(entries') = m
      /\ entries'[m] = new /\ \A k \in 1..Len(entries) : entries'[k] = entries[k]
  BY <1>1, <1>4, <1>5 DEF TypeOK
<1>7. /\ slots' \in Seq(Nat) /\ Len(slots') = Len(slots)
      /\ slots'[z] = m /\ z \in 1..Len(slots)
      /\ \A i \in 1..Len(slots) : i # z => slots'[i] = slots[i]
  BY <1>2, <1>4 DEF TypeOK, z
<1>8. TypeOK'
  BY <1>1, <1>3, <1>6, <1>7 DEF TypeOK
<1>9. Indexed'
  <2>1. Len(entries') <= Len(Index')
    BY <1>1, <1>4, <1>6
  <2>2. \A k \in 1..Len(entries') : entries'[k].name = Index'[k].name /\ entries'[k].shard = Index'[k].shard
    <3> SUFFICES ASSUME NEW k \in 1..m
                 PROVE  entries'[k].name = Index[k].name /\ entries'[k].shard = Index[k].shard
      BY <1>4, <1>6
    <3>1. CASE k = m
      BY <1>5, <1>6, <3>1
    <3>2. CASE k \in 1..Len(entries)
      BY <1>6, <3>2 DEF Indexed
    <3> QED
      BY <1>4, <3>1, <3>2
  <2>3. slots' # <<>>
    <3>1. Len(slots') # 0
      BY <1>4, <1>7
    <3>2. Len(<<>>) = 0
      OBVIOUS
    <3> QED
      BY <3>1, <3>2
  <2>4. CASE m = Len(Index)
    <3>1. at' = "idle"
      BY <1>1, <2>4
    <3> QED
      BY <1>4, <1>6, <2>1, <2>2, <2>3, <2>4, <3>1 DEF Indexed
  <2>5. CASE m # Len(Index)
    <3>1. at' = "insert"
      BY <1>1, <2>5
    <3> QED
      BY <1>4, <1>6, <2>1, <2>2, <2>3, <2>5, <3>1 DEF Indexed
  <2> QED
    BY <2>4, <2>5
<1>10. Table'
  <2>1. Unique(Index') /\ Len(slots') > Len(Index')
    BY <1>1, <1>4, <1>7 DEF Table
  <2>2. \A i \in 1..Len(slots') : slots'[i] \in 0..Len(entries')
    <3> SUFFICES ASSUME NEW i \in 1..Len(slots) PROVE slots'[i] \in 0..m
      BY <1>6, <1>7
    <3>1. CASE i = z
      BY <1>4, <1>7, <3>1
    <3>2. CASE i # z
      <4>1. slots[i] \in 0..Len(entries)
        BY <1>1 DEF Table
      <4> QED
        BY <1>4, <1>7, <3>2, <4>1
    <3> QED
      BY <3>1, <3>2
  <2>3. \A i, j \in 1..Len(slots') : slots'[i] = slots'[j] /\ slots'[i] # 0 => i = j
    <3> SUFFICES ASSUME NEW i \in 1..Len(slots), NEW j \in 1..Len(slots),
                        slots'[i] = slots'[j], slots'[i] # 0
                 PROVE  i = j
      BY <1>7
    <3>1. \A k \in 1..Len(slots) : k # z => slots'[k] \in 0..Len(entries) /\ slots'[k] # m
      <4> SUFFICES ASSUME NEW k \in 1..Len(slots), k # z
                   PROVE  slots'[k] \in 0..Len(entries) /\ slots'[k] # m
        OBVIOUS
      <4>1. slots[k] \in 0..Len(entries)
        BY <1>1 DEF Table
      <4>2. slots'[k] = slots[k]
        BY <1>7
      <4> QED
        BY <1>4, <4>1, <4>2
    <3>2. CASE i = z \/ j = z
      BY <1>7, <3>1, <3>2
    <3>3. CASE i # z /\ j # z
      BY <1>1, <1>7, <3>3 DEF Table
    <3> QED
      BY <3>2, <3>3
  <2>4. \A k \in 1..Len(entries') : Reachable(k)'
    <3> SUFFICES ASSUME NEW k \in 1..m PROVE Reachable(k)'
      BY <1>6
    <3>1. \A name, q : Probed(name, q)' = Probed(name, q)
      BY <1>3, <1>7 DEF Probed
    <3>2. CASE k = m
      <4>1. n = entries'[m].name /\ n \in Names
        BY <1>5, <1>6
      <4>2. slots'[Probed(n, p) + 1] = m
        BY <1>7 DEF z
      <4>3. ASSUME NEW q \in 0..p - 1 PROVE slots'[Probed(n, q) + 1] # 0
        <5>1. q \in Nat /\ slots[Probed(n, q) + 1] # 0
          BY <1>2, <1>4
        <5>2. Probed(n, q) \in 0..Len(slots) - 1
          BY <1>1, <4>1, <5>1, ProbedIs
        <5>3. Probed(n, q) + 1 \in 1..Len(slots)
          BY <1>4, <5>2
        <5>4. Probed(n, q) + 1 # z
          BY <1>2, <5>1 DEF z
        <5>5. slots'[Probed(n, q) + 1] = slots[Probed(n, q) + 1]
          BY <1>7, <5>3, <5>4
        <5> QED
          BY <5>1, <5>5
      <4> QED
        BY <1>2, <1>7, <3>1, <3>2, <4>1, <4>2, <4>3 DEF Reachable
    <3>3. CASE k \in 1..Len(entries)
      <4> DEFINE w == entries[k].name
      <4>1. PICK r \in 0..Len(slots) - 1 :
              /\ slots[Probed(w, r) + 1] = k
              /\ \A q \in 0..r - 1 : slots[Probed(w, q) + 1] # 0
        BY <1>1, <3>3 DEF Table, Reachable
      <4>2. w = entries'[k].name /\ w \in Names
        BY <1>6, <3>3, IndexType
      <4> HIDE DEF w
      <4>3. ASSUME NEW q \in 0..r PROVE slots'[Probed(w, q) + 1] = slots[Probed(w, q) + 1]
        <5>1. q \in Nat /\ slots[Probed(w, q) + 1] # 0
          <6>1. q \in Nat /\ (q = r \/ q \in 0..r - 1) /\ k # 0
            BY <1>4, <3>3
          <6> QED
            BY <4>1, <6>1
        <5>2. Probed(w, q) \in 0..Len(slots) - 1
          BY <1>1, <4>2, <5>1, ProbedIs
        <5>3. Probed(w, q) + 1 \in 1..Len(slots)
          BY <1>4, <5>2
        <5>4. Probed(w, q) + 1 # z
          BY <1>2, <5>1 DEF z
        <5> QED
          BY <1>7, <5>3, <5>4
      <4>4. /\ slots'[Probed(w, r) + 1] = k
            /\ \A q \in 0..r - 1 : slots'[Probed(w, q) + 1] # 0
        <5>1. r \in 0..r /\ \A q \in 0..r - 1 : q \in 0..r
          BY <1>4
        <5> QED
          BY <4>1, <4>3, <5>1
      <4> QED
        BY <1>7, <3>1, <4>2, <4>4 DEF Reachable
    <3> QED
      BY <1>4, <3>2, <3>3
  <2> QED
    BY <2>1, <2>2, <2>3, <2>4 DEF Table
<1> QED
  BY <1>8, <1>9, <1>10

\* Giving ranges to entries does not touch their names.
LEMMA BindKeepsTable ==
  ASSUME TypeOK, Indexed, Table, Asking, Bind
  PROVE  TypeOK' /\ Indexed' /\ Table'
<1>1. at = "bind" /\ UNCHANGED <<caller, document, hash, verifying, files, slots>>
  BY DEF Bind, given
<1>2. Index' = Index /\ Len(entries) = Len(Index) /\ slots # <<>>
  BY <1>1 DEF Index, Indexed
<1>3. Nothing \in [shard : Shards \cup {Unbound}, header : Headers \cup {Unbound},
                   tensors : Seq(Tensors)]
  BY DEF Nothing
<1>4. CASE Compared
  <2>1. /\ entries' = Published /\ at' = "idle" /\ asked' = Nothing
        /\ bound' = [bound EXCEPT ![asked.shard] = asked.header]
    BY <1>4 DEF Bind
  <2>2. /\ Published \in Seq([name : Names, shard : Shards, range : Ranges \cup {Unbound}])
        /\ Len(Published) = Len(entries)
        /\ \A k \in 1..Len(entries) :
             Published[k].name = entries[k].name /\ Published[k].shard = entries[k].shard
    BY <1>1, <1>4, PublishedIs
  <2>3. asked.header \in Headers
    BY <1>1, AskedIs
  <2>4. TypeOK'
    BY <1>1, <1>3, <2>1, <2>2, <2>3 DEF TypeOK
  <2>5. Indexed'
    BY <1>1, <1>2, <2>1, <2>2 DEF Indexed
  <2>6. Table'
    <3>1. ASSUME NEW k \in 1..Len(entries) PROVE Reachable(k)'
      <4>1. \A name, q : Probed(name, q)' = Probed(name, q)
        BY <1>1 DEF Probed
      <4>2. entries'[k].name = entries[k].name
        BY <2>1, <2>2
      <4>3. Reachable(k)
        BY <1>2 DEF Table
      <4> QED
        BY <1>1, <4>1, <4>2, <4>3 DEF Reachable
    <3> QED
      BY <1>1, <1>2, <2>1, <2>2, <3>1 DEF Table
  <2> QED
    BY <2>4, <2>5, <2>6
<1>5. CASE ~Compared
  <2>1. at' \in {"idle", "failed"} /\ asked' = Nothing /\ UNCHANGED <<entries, bound>>
    BY <1>5 DEF Bind, Refused
  <2>2. TypeOK'
    BY <1>1, <1>3, <2>1 DEF TypeOK
  <2>3. Indexed'
    BY <1>1, <1>2, <2>1 DEF Indexed
  <2>4. Table'
    <3>1. \A name, q : Probed(name, q)' = Probed(name, q)
      BY <1>1 DEF Probed
    <3>2. \A k : Reachable(k)' <=> Reachable(k)
      BY <1>1, <2>1, <3>1 DEF Reachable
    <3> QED
      BY <1>1, <1>2, <2>1, <3>2 DEF Table
  <2> QED
    BY <2>2, <2>3, <2>4
<1> QED
  BY <1>4, <1>5

\* So does a step that leaves the table alone; it takes a whole catalogue to another
\* one, or ends.
LEMMA UnmovedTable ==
  ASSUME TypeOK, Indexed, Table, UNCHANGED <<document, hash, entries, slots>>,
         \/ at' = at
         \/ /\ at \notin {"parse", "insert", "failed"}
            /\ at' \notin {"parse", "insert"}
  PROVE  Indexed' /\ Table'
<1>1. Index' = Index
  BY DEF Index
<1>2. Table'
  <2>1. \A name, q : Probed(name, q)' = Probed(name, q)
    BY DEF Probed
  <2>2. \A k : Reachable(k)' <=> Reachable(k)
    BY <2>1 DEF Reachable
  <2> QED
    BY <1>1, <2>2 DEF Table
<1>3. CASE at' = at
  BY <1>1, <1>2, <1>3 DEF Indexed
<1>4. CASE at \notin {"parse", "insert", "failed"} /\ at' \notin {"parse", "insert"}
  BY <1>1, <1>2, <1>4 DEF Indexed
<1> QED
  BY <1>2, <1>3, <1>4

\* A table that is begun is empty.
LEMMA ParseKeepsTable ==
  ASSUME TypeOK, Indexed, Table, ParseIndex
  PROVE  TypeOK' /\ Indexed' /\ Table'
<1> DEFINE size == SlotCount(Len(document.members))
<1>1. at = "parse" /\ slots = <<>> /\ entries = <<>>
      /\ UNCHANGED <<caller, document, hash, verifying, files, entries, asked, bound>>
  BY DEF ParseIndex, Indexed, given
<1>2. Index' = Index /\ Len(Index) \in Nat /\ Len(entries') = 0
  BY <1>1, IndexType DEF Index
<1>3. CASE document.members # <<>> /\ Unique(document.members)
  <2>1. slots' = [k \in 1..size |-> 0] /\ at' = "insert"
    BY <1>3 DEF ParseIndex
  <2>2. size \in Nat \ {0} /\ size >= 2 * Len(Index)
    BY SlotCountIs DEF TypeOK, Index
  <2> HIDE DEF size
  <2>3. Len(Index) > 0
    BY <1>3, IndexType DEF Index
  <2>4. /\ slots' \in Seq(Nat) /\ Len(slots') = size /\ DOMAIN slots' = 1..size
        /\ \A i \in 1..size : slots'[i] = 0
    BY <2>1, <2>2
  <2>5. slots' # <<>>
    <3>1. Len(<<>>) = 0
      OBVIOUS
    <3> QED
      BY <2>2, <2>4, <3>1
  <2>6. TypeOK'
    BY <1>1, <2>1, <2>4 DEF TypeOK
  <2>7. Indexed'
    <3>1. 1..Len(entries') = {}
      BY <1>2
    <3> QED
      BY <1>1, <1>2, <2>1, <2>3, <2>5, <3>1 DEF Indexed
  <2>8. Table'
    <3>1. 1..Len(entries') = {}
      BY <1>2
    <3>2. Unique(Index') /\ Len(slots') > Len(Index')
      BY <1>2, <1>3, <2>2, <2>3, <2>4 DEF Index
    <3>3. \A i \in 1..Len(slots') : slots'[i] = 0 /\ slots'[i] \in 0..Len(entries')
      BY <1>2, <2>4
    <3> QED
      BY <3>1, <3>2, <3>3 DEF Table
  <2> QED
    BY <2>6, <2>7, <2>8
<1>4. CASE ~(document.members # <<>> /\ Unique(document.members))
  <2>1. at' = "failed" /\ slots' = <<>>
    BY <1>1, <1>4 DEF ParseIndex
  <2>2. TypeOK'
    BY <1>1, <2>1 DEF TypeOK
  <2>3. Indexed'
    <3>1. 1..Len(entries') = {}
      BY <1>2
    <3>2. Len(entries') = Len(Index') \/ ~Unique(Index')
      BY <1>2, <1>4 DEF Index
    <3> QED
      BY <1>1, <1>2, <2>1, <3>1, <3>2 DEF Indexed
  <2>4. Table'
    BY <2>1 DEF Table
  <2> QED
    BY <2>2, <2>3, <2>4
<1> QED
  BY <1>3, <1>4

\* Every step keeps the types, the entries and the table.
LEMMA TableStep ==
  ASSUME TypeOK, Indexed, Table, Asking, [Next]_vars
  PROVE  TypeOK' /\ Indexed' /\ Table'
<1>0. Nothing \in [shard : Shards \cup {Unbound}, header : Headers \cup {Unbound},
                   tensors : Seq(Tensors)]
  BY DEF Nothing
<1>1. ASSUME NEW s \in Shards \cup {Unbound}, NEW h \in Headers \cup {Unbound}
      PROVE  [shard |-> s, header |-> h, tensors |-> <<>>]
               \in [shard : Shards \cup {Unbound}, header : Headers \cup {Unbound}, tensors : Seq(Tensors)]
  OBVIOUS
<1>2. \A s \in ShardsOf(document) : s \in Shards
  <2>1. \A k \in 1..Len(Index) : Index[k] \in Members
    BY IndexType, ElementOfSeq
  <2> QED
    BY <2>1, IndexType DEF ShardsOf, Index, Members
<1>3. CASE ReadHeader
  <2>0. PICK s \in (IF caller = "public" THEN DOMAIN bound ELSE NextShard) :
          \E h \in HeadersOf(s) : asked' = [shard |-> s, header |-> h, tensors |-> <<>>]
    BY <1>3 DEF ReadHeader
  <2>1. PICK h \in HeadersOf(s) : asked' = [shard |-> s, header |-> h, tensors |-> <<>>]
    BY <2>0
  <2>2. s \in Shards /\ h \in Headers
    BY <1>2, NextShardIs, HeadersOfIs DEF TypeOK
  <2>3. /\ at = "idle" /\ at' = "header"
        /\ UNCHANGED <<caller, document, hash, verifying, files, entries, slots, bound>>
    BY <1>3 DEF ReadHeader, given
  <2>4. TypeOK'
    BY <1>1, <2>1, <2>2, <2>3 DEF TypeOK
  <2> QED
    BY <2>3, <2>4, UnmovedTable
<1>4. CASE ReadFails
  <2>1. /\ at = "idle" /\ at' = "unreadable"
        /\ UNCHANGED <<caller, document, hash, verifying, files, entries, slots, asked, bound>>
    BY <1>4 DEF ReadFails, given
  <2>2. TypeOK'
    BY <2>1 DEF TypeOK
  <2> QED
    BY <2>1, <2>2, UnmovedTable
<1>5. CASE ParseHeader
  <2>1. /\ at = "header" /\ at' \in {"bind", "idle", "failed"}
        /\ asked' = Nothing \/ asked' = [asked EXCEPT !.tensors = Sorted(asked.header.tensors)]
        /\ UNCHANGED <<caller, document, hash, verifying, files, entries, slots, bound>>
    BY <1>5 DEF ParseHeader, Refused, given
  <2>2. asked.header \in Headers
    BY <2>1 DEF Asking
  <2>3. Sorted(asked.header.tensors) \in Seq(Tensors)
    BY <2>2, HeaderType, SortedHas
  <2>4. asked' \in [shard : Shards \cup {Unbound}, header : Headers \cup {Unbound}, tensors : Seq(Tensors)]
    BY <1>0, <2>1, <2>3 DEF TypeOK
  <2>5. TypeOK'
    BY <2>1, <2>4 DEF TypeOK
  <2> QED
    BY <2>1, <2>5, UnmovedTable
<1>6. CASE Complete
  <2>1. /\ at = "idle" /\ at' \in {"ready", "failed"}
        /\ UNCHANGED <<caller, document, hash, verifying, files, entries, slots, asked, bound>>
    BY <1>6 DEF Complete, given
  <2>2. TypeOK'
    BY <2>1 DEF TypeOK
  <2> QED
    BY <2>1, <2>2, UnmovedTable
<1>7. CASE VerifyHeader
  <2>1. PICK k \in NextPinned, h \in Headers :
          /\ files' = [files EXCEPT ![k] = h]
          /\ asked' = [shard |-> PinnedShards[k], header |-> h, tensors |-> <<>>]
    BY <1>7 DEF VerifyHeader
  <2>2. /\ at = "idle" /\ at' = "header"
        /\ UNCHANGED <<caller, document, hash, verifying, entries, slots, bound>>
    BY <1>7 DEF VerifyHeader, given
  <2>3. k \in 1..Len(PinnedShards) /\ PinnedShards[k] \in Shards
    BY NextPinnedIs, FilesAre
  <2>4. TypeOK'
    BY <1>1, <2>1, <2>2, <2>3 DEF TypeOK
  <2> QED
    BY <2>2, <2>4, UnmovedTable
<1>8. CASE SkipMtp
  <2>1. PICK k \in NextPinned : files' = [files EXCEPT ![k] = Missing]
    BY <1>8 DEF SkipMtp
  <2>2. UNCHANGED <<caller, document, hash, verifying, at, entries, slots, asked, bound>>
    BY <1>8 DEF SkipMtp, given
  <2>3. TypeOK'
    BY <2>1, <2>2 DEF TypeOK
  <2> QED
    BY <2>2, <2>3, UnmovedTable
<1>9. CASE Verify
  <2>1. at = "idle" /\ UNCHANGED <<caller, document, hash, files, asked>>
    BY <1>9 DEF Verify, given
  <2>2. CASE Contract
    <3>1. /\ verifying' = FALSE /\ at' = "parse" /\ entries' = <<>> /\ slots' = <<>>
          /\ bound' = [s \in DOMAIN bound |-> Unbound]
      BY <1>9, <2>2 DEF Verify
    <3>2. TypeOK'
      <4>1. bound' \in [ShardsOf(document') -> Headers \cup {Unbound}]
        BY <2>1, <3>1 DEF TypeOK
      <4>2. /\ entries' \in Seq([name : Names, shard : Shards, range : Ranges \cup {Unbound}])
            /\ slots' \in Seq(Nat)
        BY <3>1
      <4> QED
        BY <2>1, <3>1, <4>1, <4>2 DEF TypeOK
    <3>3. Len(entries') = 0 /\ 1..Len(entries') = {} /\ Len(Index') \in Nat
      BY <2>1, <3>1, IndexType DEF Index
    <3>4. Indexed'
      BY <3>1, <3>3 DEF Indexed
    <3>5. Table'
      BY <3>1 DEF Table
    <3> QED
      BY <3>2, <3>4, <3>5
  <2>3. CASE ~Contract
    <3>1. at' = "failed" /\ UNCHANGED <<verifying, entries, slots, bound>>
      BY <1>9, <2>3 DEF Verify
    <3>2. TypeOK'
      BY <2>1, <3>1 DEF TypeOK
    <3> QED
      BY <2>1, <3>1, <3>2, UnmovedTable
  <2> QED
    BY <2>2, <2>3
<1>10. CASE UNCHANGED vars
  <2>1. UNCHANGED <<caller, verifying, files, document, hash, at, entries, slots, asked, bound>>
    BY <1>10 DEF vars
  <2>2. TypeOK'
    BY <2>1 DEF TypeOK
  <2> QED
    BY <2>1, <2>2, UnmovedTable
<1> QED
  BY <1>3, <1>4, <1>5, <1>6, <1>7, <1>8, <1>9, <1>10,
     ParseKeepsTable, InsertKeepsTable, BindKeepsTable DEF Next

-------------------------------------------------------------------------------
\* The index does not change, so a header that fits goes on to fit.
LEMMA StillFits ==
  ASSUME document' = document
  PROVE  \A s, h : Fits(s, h)' <=> Fits(s, h)
BY DEF Fits, Index

\* A step that binds nothing, and does not start over, keeps what is bound.
LEMMA UnmovedRanges ==
  ASSUME Fitting, ShardMatchesHeader, UNCHANGED <<document, entries, bound>>,
         at' = at \/ at = "parse" \/ at' \notin {"parse", "insert"}
  PROVE  Fitting' /\ ShardMatchesHeader'
<1>1. \A s, h : Fits(s, h)' <=> Fits(s, h)
  BY StillFits
<1>2. Fitting'
  BY <1>1 DEF Fitting
<1>3. ShardMatchesHeader'
  BY DEF ShardMatchesHeader, Expected, IsBound
<1> QED
  BY <1>2, <1>3

\* A new entry has no range, and nothing is bound while there are new entries.
LEMMA InsertKeepsRanges ==
  ASSUME TypeOK, Indexed, Table, Fitting, ShardMatchesHeader, Insert
  PROVE  Fitting' /\ ShardMatchesHeader'
<1> DEFINE m == Len(entries) + 1
           new == [name |-> Index[m].name, shard |-> Index[m].shard, range |-> Unbound]
<1>1. entries' = Append(entries, new)
  BY InsertIs
<1>2. at = "insert" /\ UNCHANGED <<document, bound>>
  BY DEF Insert, given
<1>3. \A s \in DOMAIN bound : bound[s] = Unbound
  BY <1>2 DEF Fitting
<1>4. Fitting'
  BY <1>2, <1>3 DEF Fitting
<1>5. new.range = Unbound
  OBVIOUS
<1> HIDE DEF new
<1>6. /\ DOMAIN entries' = 1..m /\ entries'[m] = new /\ Len(entries) \in Nat
      /\ DOMAIN entries = 1..Len(entries)
      /\ \A k \in 1..Len(entries) : entries'[k] = entries[k]
  BY <1>1 DEF TypeOK
<1>7. ASSUME NEW s \in DOMAIN bound, NEW k \in 1..m, entries'[k].shard = s
      PROVE  entries'[k].range = Unbound
  <2>1. CASE k = m
    BY <1>5, <1>6, <2>1
  <2>2. CASE k # m
    <3>1. k \in 1..Len(entries)
      BY <1>6, <2>2
    <3>2. k \in Expected(s)
      BY <1>6, <1>7, <3>1 DEF Expected
    <3>3. entries[k].range = Unbound
      BY <1>3, <3>2 DEF ShardMatchesHeader, IsBound
    <3> QED
      BY <1>6, <3>1, <3>3
  <2> QED
    BY <2>1, <2>2
<1>8. ShardMatchesHeader'
  BY <1>2, <1>3, <1>6, <1>7 DEF ShardMatchesHeader, Expected, IsBound
<1> QED
  BY <1>4, <1>8

\* Binding a header gives all entries of its shard ranges from it.
LEMMA BindKeepsRanges ==
  ASSUME TypeOK, Indexed, Table, Asking, Fitting, ShardMatchesHeader, Bind
  PROVE  Fitting' /\ ShardMatchesHeader'
<1>1. at = "bind" /\ at' \in {"idle", "failed"} /\ UNCHANGED document
  BY DEF Bind, Refused, given
<1>2. CASE ~Compared
  BY <1>1, <1>2, UnmovedRanges DEF Bind
<1>3. CASE Compared
  <2> DEFINE t == asked.shard
             h == asked.header
  <2>1. entries' = Published /\ bound' = [bound EXCEPT ![t] = h]
    BY <1>3 DEF Bind
  <2>2. Fits(t, h) /\ t \in DOMAIN bound
    BY <1>1, <1>3, ComparedFits DEF TypeOK
  <2>3. /\ DOMAIN Published = 1..Len(entries) /\ DOMAIN entries = 1..Len(entries)
        /\ \A k \in 1..Len(entries) :
             /\ Published[k].name = entries[k].name /\ Published[k].shard = entries[k].shard
             /\ IF entries[k].shard = t
                  THEN \E i \in DOMAIN h.tensors :
                         /\ h.tensors[i].name = entries[k].name
                         /\ Published[k].range = RangeOf(h.tensors[i])
                  ELSE Published[k] = entries[k]
    BY <1>1, <1>3, PublishedIs, IndexType
  <2>4. h # Unbound
    BY <2>2, FilesAre DEF Fits
  <2> HIDE DEF t, h
  <2>5. DOMAIN bound' = DOMAIN bound /\ bound'[t] = h /\ \A s \in DOMAIN bound : s # t => bound'[s] = bound[s]
    BY <2>1, <2>2
  <2>6. Fitting'
    <3>1. \A s, g : Fits(s, g)' <=> Fits(s, g)
      BY <1>1, StillFits
    <3> QED
      BY <1>1, <2>2, <2>5, <3>1 DEF Fitting
  <2>7. ASSUME NEW s \in DOMAIN bound, NEW k \in 1..Len(entries), entries'[k].shard = s
        PROVE  IF bound'[s] = Unbound THEN entries'[k].range = Unbound
               ELSE \E i \in DOMAIN bound'[s].tensors :
                      /\ bound'[s].tensors[i].name = entries'[k].name
                      /\ entries'[k].range = RangeOf(bound'[s].tensors[i])
    <3>1. CASE s = t
      BY <2>1, <2>3, <2>4, <2>5, <2>7, <3>1
    <3>2. CASE s # t
      <4>1. entries'[k] = entries[k] /\ bound'[s] = bound[s]
        BY <2>1, <2>3, <2>5, <2>7, <3>2
      <4>2. k \in Expected(s)
        BY <2>3, <2>7, <4>1 DEF Expected
      <4>3. IF bound[s] = Unbound THEN entries[k].range = Unbound
            ELSE \E i \in DOMAIN bound[s].tensors :
                   /\ bound[s].tensors[i].name = entries[k].name
                   /\ entries[k].range = RangeOf(bound[s].tensors[i])
        BY <4>2 DEF ShardMatchesHeader, IsBound
      <4> QED
        BY <4>1, <4>3
    <3> QED
      BY <3>1, <3>2
  <2>8. ShardMatchesHeader'
    <3>1. DOMAIN entries' = 1..Len(entries)
      BY <2>1, <2>3
    <3> QED
      BY <2>5, <2>7, <3>1 DEF ShardMatchesHeader, Expected, IsBound
  <2> QED
    BY <2>6, <2>8
<1> QED
  BY <1>2, <1>3

\* Every step keeps what is asked and what is bound in order.
LEMMA RangesStep ==
  ASSUME TypeOK, Indexed, Table, Asking, Fitting, ShardMatchesHeader, [Next]_vars
  PROVE  Asking' /\ Fitting' /\ ShardMatchesHeader'
<1>1. CASE ParseIndex
  <2>1. at = "parse" /\ at' \in {"insert", "failed"} /\ UNCHANGED <<document, entries, bound>>
    BY <1>1 DEF ParseIndex, given
  <2> QED
    BY <2>1, UnmovedRanges DEF Asking
<1>2. CASE Insert
  <2>1. at' \in {"insert", "idle", "failed"}
    BY <1>2 DEF Insert
  <2> QED
    BY <1>2, <2>1, InsertKeepsRanges DEF Asking
<1>3. CASE ReadHeader
  <2>0. PICK s \in (IF caller = "public" THEN DOMAIN bound ELSE NextShard) :
          \E h \in HeadersOf(s) : asked' = [shard |-> s, header |-> h, tensors |-> <<>>]
    BY <1>3 DEF ReadHeader
  <2>1. PICK h \in HeadersOf(s) : asked' = [shard |-> s, header |-> h, tensors |-> <<>>]
    BY <2>0
  <2>2. at' = "header" /\ UNCHANGED <<document, entries, bound>> /\ asked'.header \in Headers
    BY <1>3, <2>1, HeadersOfIs DEF ReadHeader, given
  <2> QED
    BY <2>2, UnmovedRanges DEF Asking
<1>4. CASE ReadFails
  <2>1. at' = "unreadable" /\ UNCHANGED <<document, entries, bound>>
    BY <1>4 DEF ReadFails, given
  <2> QED
    BY <2>1, UnmovedRanges DEF Asking
<1>5. CASE ParseHeader
  <2>1. at = "header" /\ UNCHANGED <<document, entries, bound>>
    BY <1>5 DEF ParseHeader, given
  <2>2. \/ at' \in {"idle", "failed"}
        \/ /\ at' = "bind" /\ Admitted(asked.header)
           /\ asked' = [asked EXCEPT !.tensors = Sorted(asked.header.tensors)]
    BY <1>5 DEF ParseHeader, Refused
  <2>3. Asking'
    <3>1. CASE at' \in {"idle", "failed"}
      BY <3>1 DEF Asking
    <3>2. CASE at' = "bind" /\ Admitted(asked.header)
               /\ asked' = [asked EXCEPT !.tensors = Sorted(asked.header.tensors)]
      <4>1. asked.header \in Headers
        BY <2>1 DEF Asking
      <4>2. asked'.header = asked.header /\ asked'.tensors = Sorted(asked.header.tensors)
        BY <3>2 DEF TypeOK
      <4> QED
        BY <3>2, <4>1, <4>2 DEF Asking
    <3> QED
      BY <2>2, <3>1, <3>2
  <2> QED
    BY <2>1, <2>2, <2>3, UnmovedRanges
<1>6. CASE Bind
  <2>1. at' \in {"idle", "failed"}
    BY <1>6 DEF Bind, Refused
  <2> QED
    BY <1>6, <2>1, BindKeepsRanges DEF Asking
<1>7. CASE Complete
  <2>1. at' \in {"ready", "failed"} /\ UNCHANGED <<document, entries, bound>>
    BY <1>7 DEF Complete, given
  <2> QED
    BY <2>1, UnmovedRanges DEF Asking
<1>8. CASE VerifyHeader
  <2>1. PICK k \in NextPinned, h \in Headers :
          asked' = [shard |-> PinnedShards[k], header |-> h, tensors |-> <<>>]
    BY <1>8 DEF VerifyHeader
  <2>2. at' = "header" /\ UNCHANGED <<document, entries, bound>> /\ asked'.header \in Headers
    BY <1>8, <2>1 DEF VerifyHeader, given
  <2> QED
    BY <2>2, UnmovedRanges DEF Asking
<1>9. CASE SkipMtp
  <2>1. at' = at /\ UNCHANGED <<document, entries, bound, asked>>
    BY <1>9 DEF SkipMtp, given
  <2> QED
    BY <2>1, UnmovedRanges DEF Asking
<1>10. CASE Verify
  <2>1. UNCHANGED document
    BY <1>10 DEF Verify, given
  <2>2. CASE Contract
    <3>1. at' = "parse" /\ entries' = <<>> /\ bound' = [s \in DOMAIN bound |-> Unbound]
      BY <1>10, <2>2 DEF Verify
    <3>2. Asking'
      BY <3>1 DEF Asking
    <3>3. Fitting'
      BY <3>1 DEF Fitting
    <3>4. DOMAIN entries' = {}
      BY <3>1
    <3>5. ShardMatchesHeader'
      BY <3>4 DEF ShardMatchesHeader, Expected
    <3> QED
      BY <3>2, <3>3, <3>5
  <2>3. CASE ~Contract
    <3>1. at' = "failed" /\ UNCHANGED <<entries, bound>>
      BY <1>10, <2>3 DEF Verify
    <3> QED
      BY <2>1, <3>1, UnmovedRanges DEF Asking
  <2> QED
    BY <2>2, <2>3
<1>11. CASE UNCHANGED vars
  <2>1. UNCHANGED <<document, at, entries, asked, bound>>
    BY <1>11 DEF vars
  <2> QED
    BY <2>1, UnmovedRanges DEF Asking
<1> QED
  BY <1>1, <1>2, <1>3, <1>4, <1>5, <1>6, <1>7, <1>8, <1>9, <1>10, <1>11 DEF Next

-------------------------------------------------------------------------------
\* The total is one of the entries and the index.
LEMMA TotalStays ==
  ASSUME UNCHANGED <<entries, document>>
  PROVE  TotalIsRight' <=> TotalIsRight
BY DEF TotalIsRight, BoundBytes, IsBound, MapThenSumSet, MapThenFoldSet

\* Only load_shards() finishes a catalogue, when nothing is left to read.
LEMMA FinishedStep ==
  ASSUME TypeOK, Indexed, Seen, Finished, [Next]_vars
  PROVE  Finished'
<1>1. CASE UNCHANGED vars
  <2>1. UNCHANGED <<at, entries, bound, document>>
    BY <1>1 DEF vars
  <2>2. TotalIsRight' <=> TotalIsRight
    BY <2>1, TotalStays
  <2> QED
    BY <2>1, <2>2 DEF Finished
<1>2. CASE Complete
  <2>1. /\ NextShard = {} /\ UNCHANGED <<entries, bound, document>>
        /\ at' = "ready" => TotalIsRight
    BY <1>2 DEF Complete, given
  <2>2. TotalIsRight' <=> TotalIsRight
    BY <2>1, TotalStays
  <2> QED
    BY <2>1, <2>2, NextShardIs DEF Finished
<1>3. CASE at' # "ready"
  BY <1>3 DEF Finished
<1>4. ParseIndex \/ Insert \/ ReadHeader \/ ReadFails \/ ParseHeader \/ Bind \/ VerifyHeader
        \/ SkipMtp \/ Verify => at' # "ready"
  BY DEF ParseIndex, Insert, ReadHeader, ReadFails, ParseHeader, Bind, VerifyHeader, SkipMtp,
         Verify, Refused
<1> QED
  BY <1>1, <1>2, <1>3, <1>4 DEF Next

\* What verification saw of a file stays, and a production load reads no other.
LEMMA SeenStep ==
  ASSUME TypeOK, Indexed, Asking, Seen, [Next]_vars
  PROVE  Seen'
<1>1. ASSUME UNCHANGED <<caller, verifying, files, bound>>, at' \notin {"header", "bind"},
             at' # "ready" \/ at = "ready" \/ ~verifying
      PROVE  Seen'
  BY <1>1 DEF Seen
<1>2. CASE ParseIndex
  <2>1. UNCHANGED <<caller, verifying, files, bound>> /\ at' \notin {"header", "bind", "ready"}
    BY <1>2 DEF ParseIndex, given
  <2> QED
    BY <1>1, <2>1
<1>3. CASE Insert
  <2>1. UNCHANGED <<caller, verifying, files, bound>> /\ at' \notin {"header", "bind", "ready"}
    BY <1>3 DEF Insert, given
  <2> QED
    BY <1>1, <2>1
<1>4. CASE ReadHeader
  <2>0. PICK s \in (IF caller = "public" THEN DOMAIN bound ELSE NextShard) :
          \E h \in HeadersOf(s) : asked' = [shard |-> s, header |-> h, tensors |-> <<>>]
    BY <1>4 DEF ReadHeader
  <2>1. PICK h \in HeadersOf(s) : asked' = [shard |-> s, header |-> h, tensors |-> <<>>]
    BY <2>0
  <2>2. ~verifying /\ at' = "header" /\ UNCHANGED <<caller, verifying, files, bound>>
    BY <1>4 DEF ReadHeader, given
  <2>3. asked'.shard = s /\ asked'.header = h
    BY <2>1
  <2>4. caller = "production" =>
          /\ s \in DOMAIN bound \ {Mtp}
          /\ \E j \in DOMAIN files : PinnedShards[j] = s /\ files[j] = h
    <3> SUFFICES ASSUME caller = "production"
                 PROVE  /\ s \in DOMAIN bound \ {Mtp}
                        /\ \E j \in DOMAIN files : PinnedShards[j] = s /\ files[j] = h
      OBVIOUS
    <3>1. s \in NextShard /\ DOMAIN bound = ShardsOf(document)
      BY DEF TypeOK
    <3>2. s \in DOMAIN bound \ {Mtp}
      BY <3>1, NextShardIs
    <3> QED
      BY <3>2, HeadersOfIs
  <2> QED
    BY <2>2, <2>3, <2>4 DEF Seen
<1>5. CASE ReadFails
  <2>1. UNCHANGED <<caller, verifying, files, bound>> /\ at' = "unreadable"
    BY <1>5 DEF ReadFails, given
  <2> QED
    BY <1>1, <2>1
<1>6. CASE ParseHeader
  <2>1. at = "header" /\ UNCHANGED <<caller, verifying, files, bound>>
    BY <1>6 DEF ParseHeader, given
  <2>2. CASE at' \in {"idle", "failed"}
    BY <1>1, <2>1, <2>2
  <2>3. CASE at' = "bind" /\ asked' = [asked EXCEPT !.tensors = Sorted(asked.header.tensors)]
    <3>1. asked'.shard = asked.shard /\ asked'.header = asked.header
      BY <2>3 DEF TypeOK
    <3> QED
      BY <2>1, <2>3, <3>1 DEF Seen
  <2> QED
    BY <1>6, <2>2, <2>3 DEF ParseHeader, Refused
<1>7. CASE Bind
  <2>1. /\ at = "bind" /\ at' \in {"idle", "failed"} /\ UNCHANGED <<caller, verifying, files>>
        /\ bound' = bound \/ bound' = [bound EXCEPT ![asked.shard] = asked.header]
    BY <1>7 DEF Bind, Refused, given
  <2>2. CASE bound' = bound
    BY <1>1, <2>1, <2>2
  <2>3. CASE bound' = [bound EXCEPT ![asked.shard] = asked.header]
    <3>1. DOMAIN bound' = DOMAIN bound /\ \A s \in DOMAIN bound :
            bound'[s] = IF s = asked.shard THEN asked.header ELSE bound[s]
      BY <2>3 DEF TypeOK
    <3> QED
      BY <2>1, <3>1 DEF Seen
  <2> QED
    BY <2>1, <2>2, <2>3
<1>8. CASE Complete
  <2>1. ~verifying /\ UNCHANGED <<caller, verifying, files, bound>> /\ at' \in {"ready", "failed"}
    BY <1>8 DEF Complete, given
  <2> QED
    BY <1>1, <2>1
<1>9. ASSUME verifying, NEW k \in NextPinned, NEW h, files' = [files EXCEPT ![k] = h]
      PROVE  /\ DOMAIN files' = DOMAIN files /\ files'[k] = h /\ k \in DOMAIN files
             /\ caller = "production"
             /\ \A s \in DOMAIN bound : bound[s] # Unbound =>
                  \E j \in DOMAIN files : PinnedShards[j] = s /\ files'[j] = bound[s]
  <2>1. k \in DOMAIN files /\ files[k] = Unbound
    BY NextPinnedIs, FilesAre
  <2>2. DOMAIN files' = DOMAIN files /\ files'[k] = h /\ \A j \in DOMAIN files : j # k => files'[j] = files[j]
    BY <1>9, <2>1
  <2>3. caller = "production"
    BY <1>9 DEF Seen
  <2> SUFFICES ASSUME NEW s \in DOMAIN bound, bound[s] # Unbound
               PROVE  \E j \in DOMAIN files : PinnedShards[j] = s /\ files'[j] = bound[s]
    BY <2>1, <2>2, <2>3
  <2>4. PICK j \in DOMAIN files : PinnedShards[j] = s /\ files[j] = bound[s]
    BY <2>3 DEF Seen
  <2> QED
    BY <2>1, <2>2, <2>4
<1>10. CASE VerifyHeader
  <2>1. PICK k \in NextPinned, h \in Headers :
          /\ files' = [files EXCEPT ![k] = h]
          /\ asked' = [shard |-> PinnedShards[k], header |-> h, tensors |-> <<>>]
    BY <1>10 DEF VerifyHeader
  <2>2. verifying /\ at' = "header" /\ UNCHANGED <<caller, verifying, bound>>
    BY <1>10 DEF VerifyHeader, given
  <2>3. asked'.shard = PinnedShards[k] /\ asked'.header = h
    BY <2>1
  <2>4. /\ DOMAIN files' = DOMAIN files /\ files'[k] = h /\ k \in DOMAIN files /\ caller = "production"
        /\ \A s \in DOMAIN bound : bound[s] # Unbound =>
             \E j \in DOMAIN files : PinnedShards[j] = s /\ files'[j] = bound[s]
    BY <1>9, <2>1, <2>2
  <2> QED
    BY <2>2, <2>3, <2>4 DEF Seen
<1>11. CASE SkipMtp
  <2>1. PICK k \in NextPinned : files' = [files EXCEPT ![k] = Missing]
    BY <1>11 DEF SkipMtp
  <2>2. at = "idle" /\ verifying /\ UNCHANGED <<caller, verifying, at, bound>>
    BY <1>11 DEF SkipMtp, given
  <2>3. /\ DOMAIN files' = DOMAIN files /\ caller = "production"
        /\ \A s \in DOMAIN bound : bound[s] # Unbound =>
             \E j \in DOMAIN files : PinnedShards[j] = s /\ files'[j] = bound[s]
    BY <1>9, <2>1, <2>2
  <2> QED
    BY <2>2, <2>3 DEF Seen
<1>12. CASE Verify
  <2>1. UNCHANGED <<caller, files>>
    BY <1>12 DEF Verify, given
  <2>2. CASE Contract
    <3>1. verifying' = FALSE /\ at' = "parse" /\ bound' = [s \in DOMAIN bound |-> Unbound]
      BY <1>12, <2>2 DEF Verify
    <3> QED
      BY <2>1, <3>1 DEF Seen
  <2>3. CASE ~Contract
    <3>1. at' = "failed" /\ UNCHANGED <<verifying, bound>>
      BY <1>12, <2>3 DEF Verify
    <3> QED
      BY <1>1, <2>1, <3>1
  <2> QED
    BY <2>2, <2>3
<1>13. CASE UNCHANGED vars
  <2>1. UNCHANGED <<caller, verifying, files, at, asked, bound>>
    BY <1>13 DEF vars
  <2> QED
    BY <2>1 DEF Seen
<1> QED
  BY <1>2, <1>3, <1>4, <1>5, <1>6, <1>7, <1>8, <1>10, <1>11, <1>12, <1>13 DEF Next

-------------------------------------------------------------------------------
\* A pinned tensor that the contract finds is an entry; outside the MTP shard it has
\* its pinned length from a file that was seen, and the file fits its shard.
LEMMA ContractIs ==
  ASSUME TypeOK, Indexed, Table, Fitting, ShardMatchesHeader, Seen,
         caller = "production", at = "idle", Contract, NEW p \in Pinned
  PROVE  \E k \in 1..Len(entries) :
           /\ k = FindTensor(p.name) /\ entries[k].name = p.name /\ k \in DOMAIN Index
           /\ Index[k].name = p.name /\ Index[k].shard = entries[k].shard
           /\ Index[k].shard \in ShardsOf(document)
           /\ p.mtp <=> Index[k].shard = Mtp
           /\ Index[k].shard # Mtp => \E j \in DOMAIN files :
                /\ PinnedShards[j] = Index[k].shard /\ Fits(Index[k].shard, files[j])
                /\ \E i \in DOMAIN files[j].tensors :
                     files[j].tensors[i].name = p.name /\ files[j].tensors[i].bytes = p.bytes
<1> DEFINE k == FindTensor(p.name)
           s == entries[k].shard
<1>1. /\ k # 0
      /\ p.mtp <=> s = Mtp
      /\ ~p.mtp => IsBound(k) /\ entries[k].range.bytes = p.bytes
  BY DEF Contract, Required
<1>2. p.name \in Names
  BY CatalogueAssumption
<1>3. k \in 1..Len(entries) /\ entries[k].name = p.name
  BY <1>1, <1>2, FoundHasTheName
<1> HIDE DEF k, s
<1>4. /\ k \in DOMAIN Index /\ k \in DOMAIN entries
      /\ Index[k].name = p.name /\ Index[k].shard = s /\ s \in ShardsOf(document)
  <2>1. Len(entries) = Len(Index)
    BY DEF Indexed
  <2>2. Index[k].name = entries[k].name /\ Index[k].shard = s
    BY <1>3 DEF Indexed, s
  <2> QED
    BY <1>3, <2>1, <2>2, IndexType
<1>5. ASSUME s # Mtp
      PROVE  \E j \in DOMAIN files :
               /\ PinnedShards[j] = s /\ Fits(s, files[j])
               /\ \E i \in DOMAIN files[j].tensors :
                    files[j].tensors[i].name = p.name /\ files[j].tensors[i].bytes = p.bytes
  <2>1. IsBound(k) /\ entries[k].range.bytes = p.bytes
    BY <1>1, <1>5
  <2>2. k \in Expected(s) /\ s \in DOMAIN bound
    BY <1>4 DEF Expected, s, TypeOK
  <2>3. bound[s] # Unbound
    BY <2>1, <2>2 DEF ShardMatchesHeader
  <2>4. PICK i \in DOMAIN bound[s].tensors :
          bound[s].tensors[i].name = entries[k].name /\ entries[k].range = RangeOf(bound[s].tensors[i])
    BY <2>2, <2>3 DEF ShardMatchesHeader
  <2>5. PICK j \in DOMAIN files : PinnedShards[j] = s /\ files[j] = bound[s]
    BY <2>2, <2>3 DEF Seen
  <2>6. Fits(s, bound[s])
    BY <2>2, <2>3 DEF Fitting
  <2>7. entries[k].range.bytes = bound[s].tensors[i].bytes
    BY <2>4 DEF RangeOf
  <2> QED
    BY <1>3, <2>1, <2>4, <2>5, <2>6, <2>7
<1> QED
  BY <1>1, <1>3, <1>4, <1>5 DEF k, s

\* So verification leaves an index that has the MTP shard and whose other shards are
\* pinned ones that were seen to fit.
LEMMA VerifyLeaves ==
  ASSUME TypeOK, Indexed, Table, Fitting, ShardMatchesHeader, Seen,
         caller = "production", at = "idle", Contract
  PROVE  /\ Index # <<>> /\ Unique(Index) /\ Mtp \in ShardsOf(document)
         /\ \A s \in ShardsOf(document) \ {Mtp} :
              \E j \in DOMAIN files : PinnedShards[j] = s /\ Fits(s, files[j])
         /\ \A p \in Pinned : p.mtp \/ Kept(p)
<1>1. \A s \in ShardsOf(document) \ {Mtp} :
        \E j \in DOMAIN files : PinnedShards[j] = s /\ Fits(s, files[j])
  <2> SUFFICES ASSUME NEW s \in ShardsOf(document) \ {Mtp}
               PROVE  \E j \in DOMAIN files : PinnedShards[j] = s /\ Fits(s, files[j])
    OBVIOUS
  <2>1. PICK e \in DOMAIN Index : Index[e].shard = s
    BY DEF ShardsOf, Index
  <2>2. e \in 1..Len(entries) /\ e \in DOMAIN entries
    BY IndexType DEF Indexed
  <2>3. PICK p \in Pinned : p.name = entries[e].name
    BY <2>2 DEF Contract
  <2>4. FindTensor(p.name) = e
    BY <2>2, <2>3, Found
  <2>5. PICK k \in 1..Len(entries) :
           /\ k = FindTensor(p.name)
           /\ Index[k].shard # Mtp => \E j \in DOMAIN files :
                PinnedShards[j] = Index[k].shard /\ Fits(Index[k].shard, files[j])
    BY ContractIs
  <2> QED
    BY <2>1, <2>4, <2>5
<1>2. \A p \in Pinned : p.mtp \/ Kept(p)
  <2> SUFFICES ASSUME NEW p \in Pinned, ~p.mtp PROVE Kept(p)
    OBVIOUS
  <2>1. PICK k \in 1..Len(entries) :
           /\ k \in DOMAIN Index /\ Index[k].name = p.name
           /\ p.mtp <=> Index[k].shard = Mtp
           /\ Index[k].shard # Mtp => \E j \in DOMAIN files :
                /\ PinnedShards[j] = Index[k].shard /\ Fits(Index[k].shard, files[j])
                /\ \E i \in DOMAIN files[j].tensors :
                     files[j].tensors[i].name = p.name /\ files[j].tensors[i].bytes = p.bytes
    BY ContractIs
  <2>2. Index[k].shard # Mtp
    BY <2>1
  <2>3. PICK j \in DOMAIN files :
          /\ PinnedShards[j] = Index[k].shard /\ Fits(Index[k].shard, files[j])
          /\ \E i \in DOMAIN files[j].tensors :
               files[j].tensors[i].name = p.name /\ files[j].tensors[i].bytes = p.bytes
    BY <2>1, <2>2
  <2>4. files[j] \in Headers
    BY <2>3 DEF Fits
  <2> QED
    BY <2>1, <2>2, <2>3, <2>4 DEF Kept
<1>3. Mtp \in ShardsOf(document)
  <2> SUFFICES ASSUME Mtp \notin ShardsOf(document) PROVE FALSE
    OBVIOUS
  <2> DEFINE L == 1..Len(PinnedShards)
             Q == {PinnedShards[j] : j \in L}
             D == ShardsOf(document)
  <2>1. /\ Len(PinnedShards) \in Nat \ {0} /\ DOMAIN files = L /\ DOMAIN PinnedShards = L
        /\ \A j, k \in L : PinnedShards[j] = PinnedShards[k] => j = k
    BY FilesAre
  <2>2. PinnedShards \in [L -> Q]
    BY <2>1, CatalogueAssumption
  <2>3. Mtp \in Q
    BY <2>1, CatalogueAssumption
  <2>4. D \in SUBSET Q
    BY <1>1, <2>1
  <2>5. IsFiniteSet(L) /\ Cardinality(L) = Len(PinnedShards)
    <3>1. 1 \in Int /\ Len(PinnedShards) \in Int /\ ~(1 > Len(PinnedShards))
          /\ Len(PinnedShards) - 1 + 1 = Len(PinnedShards)
      BY <2>1
    <3>2. Cardinality(L) = IF 1 > Len(PinnedShards) THEN 0 ELSE Len(PinnedShards) - 1 + 1
      BY <3>1, FS_Interval
    <3> QED
      BY <3>1, <3>2, FS_Interval
  <2>6. Cardinality(D) = Len(PinnedShards) /\ Mtp \notin D
    BY DEF Contract
  <2> HIDE DEF D
  <2>7. PinnedShards \in Surjection(L, Q) /\ PinnedShards \in Injection(L, Q)
    <3>1. \A t \in Q : \E j \in L : PinnedShards[j] = t
      OBVIOUS
    <3> HIDE DEF Q, L
    <3> QED
      BY <2>1, <2>2, <3>1 DEF Surjection, Injection, IsInjective
  <2> HIDE DEF L, Q
  <2>8. IsFiniteSet(Q) /\ Cardinality(Q) = Cardinality(L)
    BY <2>5, <2>7, FS_Surjection
  <2>9. Cardinality(Q) = Cardinality(D) => Q = D
    BY <2>4, <2>8, FS_Subset
  <2> QED
    BY <2>3, <2>5, <2>6, <2>8, <2>9
<1>4. Index # <<>>
  <2>1. PICK k \in DOMAIN Index : TRUE
    BY <1>3 DEF ShardsOf, Index
  <2>2. DOMAIN <<>> = {}
    OBVIOUS
  <2> QED
    BY <2>1, <2>2
<1>5. Unique(Index)
  BY DEF Table, Indexed
<1> QED
  BY <1>1, <1>2, <1>3, <1>4, <1>5

\* What verification leaves behind stays as it is.
LEMMA VerifiedStep ==
  ASSUME TypeOK, Indexed, Table, Fitting, ShardMatchesHeader, Seen, Verified, [Next]_vars
  PROVE  Verified'
<1>1. ASSUME UNCHANGED <<caller, document, files>>
      PROVE  /\ Index' = Index /\ \A p \in Pinned : Kept(p)' <=> Kept(p)
             /\ \A s, h : Fits(s, h)' <=> Fits(s, h)
  BY <1>1, StillFits DEF Index, Kept
<1>2. ASSUME UNCHANGED <<caller, document, files, verifying>> PROVE Verified'
  <2> QED
    BY <1>1, <1>2 DEF Verified
<1>3. CASE VerifyHeader \/ SkipMtp
  <2>1. verifying /\ verifying' = verifying
    BY <1>3 DEF VerifyHeader, SkipMtp
  <2> QED
    BY <2>1 DEF Verified
<1>4. CASE Verify
  <2>1. at = "idle" /\ verifying /\ UNCHANGED <<caller, document, files>>
    BY <1>4 DEF Verify, given
  <2>2. caller = "production"
    BY <2>1 DEF Seen
  <2>3. CASE Contract
    <3>1. /\ Index # <<>> /\ Unique(Index) /\ Mtp \in ShardsOf(document)
          /\ \A s \in ShardsOf(document) \ {Mtp} :
               \E j \in DOMAIN files : PinnedShards[j] = s /\ Fits(s, files[j])
          /\ \A p \in Pinned : p.mtp \/ Kept(p)
      BY <2>1, <2>2, <2>3, VerifyLeaves
    <3> QED
      BY <1>1, <2>1, <3>1 DEF Verified
  <2>4. CASE ~Contract
    <3>1. verifying' = verifying
      BY <1>4, <2>4 DEF Verify
    <3> QED
      BY <2>1, <3>1 DEF Verified
  <2> QED
    BY <2>3, <2>4
<1>5. ParseIndex \/ Insert \/ ReadHeader \/ ReadFails \/ ParseHeader \/ Bind \/ Complete \/ UNCHANGED vars
        => UNCHANGED <<caller, document, files, verifying>>
  BY DEF ParseIndex, Insert, ReadHeader, ReadFails, ParseHeader, Bind, Complete, vars, given
<1> QED
  BY <1>2, <1>3, <1>4, <1>5 DEF Next

\* So a load after verification does not fail.
LEMMA LoadsStep ==
  ASSUME TypeOK, Indexed, Table, Asking, Fitting, ShardMatchesHeader, Seen, Verified, VerifiedLoads,
         [Next]_vars
  PROVE  VerifiedLoads'
<1> SUFFICES ASSUME caller' = "production", ~verifying', at' = "failed" PROVE FALSE
  BY DEF VerifiedLoads
<1>1. CASE verifying
  <2>1. ~UNCHANGED verifying
    BY <1>1
  <2>2. Verify
    BY <2>1 DEF Next, ParseIndex, Insert, ReadHeader, ReadFails, ParseHeader, Bind, Complete,
                VerifyHeader, SkipMtp, vars
  <2> QED
    BY <1>1, <2>2 DEF Verify
<1>2. CASE ~verifying
  <2>1. ~VerifyHeader /\ ~SkipMtp /\ ~Verify
    BY <1>2 DEF VerifyHeader, SkipMtp, Verify
  <2>2. caller = "production"
    BY <2>1 DEF Next, ParseIndex, Insert, ReadHeader, ReadFails, ParseHeader, Bind, Complete, vars, given
  <2>3. ASSUME at \in {"header", "bind"}
        PROVE  Fits(asked.shard, asked.header) /\ asked.shard \in ShardsOf(document)
    <3>1. PICK j \in DOMAIN files : PinnedShards[j] = asked.shard /\ files[j] = asked.header
      BY <2>2, <2>3 DEF Seen
    <3>2. asked.shard \in ShardsOf(document) \ {Mtp}
      BY <1>2, <2>2, <2>3 DEF Seen, TypeOK
    <3>3. PICK i \in DOMAIN files : PinnedShards[i] = asked.shard /\ Fits(asked.shard, files[i])
      BY <1>2, <2>2, <3>2 DEF Verified
    <3>4. i = j
      BY <3>1, <3>3, FilesAre
    <3> QED
      BY <3>1, <3>2, <3>3, <3>4
  <2>4. ~ParseIndex
    <3>1. document.members # <<>> /\ Unique(document.members)
      BY <1>2, <2>2 DEF Verified, Index
    <3> QED
      BY <3>1 DEF ParseIndex
  <2>5. ~Insert
    <3>1. Insert => at' \in {"idle", "insert"}
      BY InsertIs
    <3> QED
      BY <3>1
  <2>6. ~ParseHeader
    <3> SUFFICES ASSUME ParseHeader PROVE FALSE
      OBVIOUS
    <3>1. at = "header"
      BY DEF ParseHeader
    <3>2. Admitted(asked.header)
      BY <2>3, <3>1 DEF Fits
    <3> QED
      BY <3>2 DEF ParseHeader
  <2>7. ~Bind
    <3> SUFFICES ASSUME Bind PROVE FALSE
      OBVIOUS
    <3>1. at = "bind"
      BY DEF Bind
    <3>2. Compared
      BY <2>3, <3>1, FitsCompared
    <3> QED
      BY <3>2 DEF Bind
  <2>8. ~Complete
    <3> SUFFICES ASSUME Complete PROVE FALSE
      OBVIOUS
    <3>1. at = "idle" /\ ~TotalIsRight
      BY DEF Complete
    <3>2. Mtp \in ShardsOf(document)
      BY <1>2, <2>2 DEF Verified
    <3>3. PICK k \in DOMAIN Index : Index[k].shard = Mtp
      BY <3>2 DEF ShardsOf, Index
    <3>4. k \in DOMAIN entries /\ entries[k].shard = Mtp
      <4>1. Len(entries) = Len(Index)
        BY <3>1 DEF Indexed
      <4> QED
        BY <3>3, <4>1, IndexType DEF Indexed
    <3>5. Mtp \in DOMAIN bound /\ bound[Mtp] = Unbound
      BY <1>2, <2>2, <3>2 DEF Seen, TypeOK
    <3>6. k \in Expected(Mtp)
      BY <3>4 DEF Expected
    <3>7. ~IsBound(k)
      BY <3>5, <3>6 DEF ShardMatchesHeader
    <3> QED
      BY <3>1, <3>4, <3>7 DEF TotalIsRight
  <2>9. ~ReadHeader /\ ~ReadFails
    BY DEF ReadHeader, ReadFails
  <2>10. ~UNCHANGED vars
    BY <1>2, <2>2 DEF vars, VerifiedLoads
  <2> QED
    BY <2>1, <2>4, <2>5, <2>6, <2>7, <2>8, <2>9, <2>10 DEF Next
<1> QED
  BY <1>1, <1>2

-------------------------------------------------------------------------------
\* No tensor of a contiguous list starts before an earlier one ends.
LEMMA EndsBefore ==
  ASSUME NEW q \in Seq(Tensors), NEW payload \in Nat, Contiguous(q, payload),
         NEW i \in 1..Len(q), NEW j \in 1..Len(q), i < j
  PROVE  Ends(q[i]) <= q[j].start
<1> DEFINE n == Len(q)
           Bad == {m \in 1..n : i < m /\ ~(Ends(q[i]) <= q[m].start)}
<1> SUFFICES ASSUME Bad # {} PROVE FALSE
  OBVIOUS
<1>1. /\ n \in Nat /\ DOMAIN q = 1..n
      /\ \A m \in 1..n : q[m].start \in Nat /\ q[m].bytes \in Nat
  BY TensorsAre
<1>2. PICK m \in Bad : \A t \in Bad : m <= t
  <2>1. Bad \in SUBSET Nat
    BY <1>1
  <2> HIDE DEF Bad
  <2> QED
    BY <2>1, LeastNatural
<1>3. m \in 1..n /\ i < m /\ ~(Ends(q[i]) <= q[m].start)
  OBVIOUS
<1>4. q[m].start = Ends(q[m - 1])
  <2>1. m # 1
    BY <1>1, <1>3
  <2> QED
    BY <1>1, <1>3, <2>1 DEF Contiguous
<1>5. m - 1 \in 1..n /\ i <= m - 1 /\ m - 1 < m
  BY <1>1, <1>3
<1>6. m - 1 \notin Bad
  BY <1>1, <1>2, <1>5
<1>7. i # m - 1
  BY <1>1, <1>3, <1>4, <1>5 DEF Ends
<1>8. Ends(q[i]) <= q[m - 1].start
  BY <1>1, <1>5, <1>6, <1>7
<1>9. Ends(q[i]) <= Ends(q[m - 1])
  <2> DEFINE u == q[i]
             v == q[m - 1]
  <2>0. i \in 1..n /\ m - 1 \in 1..n
    BY <1>5
  <2>1. u.start \in Nat /\ u.bytes \in Nat /\ v.start \in Nat /\ v.bytes \in Nat
    <3> HIDE DEF n, Bad
    <3> QED
      BY <1>1, <2>0
  <2>2. Ends(u) <= v.start
    BY <1>8
  <2> HIDE DEF u, v
  <2>3. Ends(u) <= Ends(v)
    <3>1. Ends(v) = v.start + v.bytes /\ Ends(u) = u.start + u.bytes
      BY DEF Ends
    <3>2. ASSUME NEW e \in Nat, NEW s \in Nat, NEW t \in Nat, e <= s PROVE e <= s + t
      BY <3>2
    <3>3. Ends(u) \in Nat
      BY <2>1, <3>1
    <3> QED
      BY <2>1, <2>2, <3>1, <3>2, <3>3
  <2> QED
    BY <2>3 DEF u, v
<1> QED
  BY <1>3, <1>4, <1>9

\* Each byte of the payload is in just one tensor of a contiguous list.
LEMMA CoveredOnce ==
  ASSUME NEW q \in Seq(Tensors), NEW payload \in Nat, Contiguous(q, payload),
         NEW b \in 0..payload - 1
  PROVE  \E i \in 1..Len(q) : \A j \in 1..Len(q) :
           (q[j].start <= b /\ b < Ends(q[j])) <=> j = i
<1> DEFINE n == Len(q)
           T == {i \in 1..n : b < Ends(q[i])}
<1>1. /\ n \in Nat /\ DOMAIN q = 1..n /\ b \in Nat /\ b < payload
      /\ \A m \in 1..n : q[m].start \in Nat /\ q[m].bytes \in Nat
  BY TensorsAre
<1>2. n \in T
  <2>1. payload = IF q = <<>> THEN 0 ELSE Ends(q[n])
    BY DEF Contiguous
  <2>2. q # <<>>
    BY <1>1, <2>1
  <2>3. n \in 1..n
    BY <1>1, <2>2
  <2> QED
    BY <1>1, <2>1, <2>2, <2>3
<1>3. T \in SUBSET Nat
  BY <1>1
<1> HIDE DEF T
<1>4. PICK i \in T : \A t \in T : i <= t
  BY <1>2, <1>3, LeastNatural
<1>5. i \in 1..n /\ b < Ends(q[i])
  BY <1>4 DEF T
<1>6. q[i].start <= b
  <2>1. CASE i = 1
    <3>1. q[i].start = 0
      BY <1>1, <1>5, <2>1 DEF Contiguous
    <3> QED
      BY <1>1, <3>1
  <2>2. CASE i # 1
    <3>1. i - 1 \in 1..n /\ i - 1 < i
      BY <1>1, <1>5, <2>2
    <3>2. i - 1 \notin T
      <4>1. ~(i <= i - 1)
        BY <1>1, <1>5
      <4> QED
        BY <1>4, <4>1
    <3>3. q[i].start = Ends(q[i - 1])
      BY <1>1, <1>5, <2>2 DEF Contiguous
    <3>4. ~(b < Ends(q[i - 1])) /\ Ends(q[i - 1]) \in Nat
      BY <1>1, <3>1, <3>2 DEF T, Ends
    <3> QED
      BY <1>1, <3>3, <3>4
  <2> QED
    BY <2>1, <2>2
<1>7. ASSUME NEW j \in 1..n, q[j].start <= b, b < Ends(q[j]) PROVE j = i
  <2>1. j \in T
    BY <1>7 DEF T
  <2>2. i <= j
    BY <1>4, <2>1
  <2>3. ~(i < j)
    <3>1. i < j => Ends(q[i]) <= q[j].start
      BY <1>5, <1>7, EndsBefore
    <3>2. Ends(q[i]) \in Nat /\ q[j].start \in Nat
      BY <1>1, <1>5, <1>7 DEF Ends
    <3> QED
      BY <1>1, <1>5, <1>7, <3>1, <3>2
  <2> QED
    BY <1>1, <1>5, <2>2, <2>3
<1> QED
  BY <1>5, <1>6, <1>7

\* An entry of a shard that is bound has the range of the tensor of its name, and
\* every tensor of the header is the one of an entry.
LEMMA BoundIs ==
  ASSUME TypeOK, Indexed, Table, Fitting, ShardMatchesHeader, Len(entries) = Len(Index),
         NEW s \in DOMAIN bound, bound[s] # Unbound
  PROVE  /\ bound[s] \in Headers /\ Admitted(bound[s]) /\ Unique(bound[s].tensors)
         /\ \A k \in Expected(s) : \E i \in DOMAIN bound[s].tensors :
              /\ bound[s].tensors[i].name = entries[k].name
              /\ entries[k].range = RangeOf(bound[s].tensors[i]) /\ IsBound(k)
         /\ \A i \in DOMAIN bound[s].tensors : \E k \in Expected(s) :
              entries[k].name = bound[s].tensors[i].name
<1> DEFINE h == bound[s]
<1>1. Fits(s, h)
  BY DEF Fitting
<1>2. h \in Headers /\ Admitted(h) /\ Unique(h.tensors)
  BY <1>1 DEF Fits, Admitted
<1>3. \A i \in DOMAIN h.tensors : RangeOf(h.tensors[i]) \in Ranges
  BY <1>2, HeaderType DEF RangeOf, Ranges
<1>4. Unbound \notin Ranges
  BY CatalogueAssumption
<1>5. ASSUME NEW k \in Expected(s)
      PROVE  \E i \in DOMAIN h.tensors :
               h.tensors[i].name = entries[k].name /\ entries[k].range = RangeOf(h.tensors[i]) /\ IsBound(k)
  <2>1. PICK i \in DOMAIN h.tensors :
          h.tensors[i].name = entries[k].name /\ entries[k].range = RangeOf(h.tensors[i])
    BY <1>5 DEF ShardMatchesHeader
  <2> HIDE DEF h
  <2>2. IsBound(k)
    BY <1>3, <1>4, <2>1 DEF IsBound
  <2> QED
    BY <2>1, <2>2
<1>6. ASSUME NEW i \in DOMAIN h.tensors
      PROVE  \E k \in Expected(s) : entries[k].name = h.tensors[i].name
  <2>1. PICK k \in DOMAIN Index : Index[k].shard = s /\ Index[k].name = h.tensors[i].name
    BY <1>1, <1>6 DEF Fits
  <2>2. k \in DOMAIN entries /\ entries[k].shard = s /\ entries[k].name = Index[k].name
    <3>1. k \in 1..Len(entries)
      BY <2>1, IndexType
    <3> QED
      BY <2>1, <3>1, IndexType DEF Indexed
  <2> QED
    BY <2>1, <2>2 DEF Expected
<1> QED
  BY <1>2, <1>5, <1>6

\* The ranges of a shard that is bound cover its payload and share no byte.
LEMMA ShardIsCovered ==
  ASSUME TypeOK, Indexed, Table, Fitting, ShardMatchesHeader, slots # <<>>, Len(entries) = Len(Index),
         NEW s \in DOMAIN bound, bound[s] # Unbound, NEW b \in 0..bound[s].payload - 1
  PROVE  \E k \in Expected(s) : \A j \in Expected(s) :
           (entries[j].range.start <= b /\ b < Ends(entries[j].range)) <=> j = k
<1> DEFINE h == bound[s]
           ts == h.tensors
           q == Sorted(ts)
           n == Len(ts)
<1>1. /\ h \in Headers /\ Admitted(h) /\ Unique(ts)
      /\ \A k \in Expected(s) : \E i \in DOMAIN ts :
           ts[i].name = entries[k].name /\ entries[k].range = RangeOf(ts[i])
      /\ \A i \in DOMAIN ts : \E k \in Expected(s) : entries[k].name = ts[i].name
  BY BoundIs
<1>2. ts \in Seq(Tensors) /\ h.payload \in Nat /\ DOMAIN ts = 1..n
  BY <1>1, HeaderType
<1>3. Contiguous(q, h.payload)
  BY <1>1 DEF Admitted
<1> HIDE DEF h, ts
<1>4. /\ q \in Seq(Tensors) /\ Len(q) = n
      /\ \A k \in 1..n : \E i \in 1..n : q[k] = ts[i]
      /\ \A i \in 1..n : \E k \in 1..n : q[k] = ts[i]
  BY <1>2, SortedHas
<1> HIDE DEF q
<1>5. PICK i \in 1..n : \A j \in 1..n : (q[j].start <= b /\ b < Ends(q[j])) <=> j = i
  <2>1. b \in 0..h.payload - 1
    BY DEF h
  <2>2. \E i \in 1..Len(q) : \A j \in 1..Len(q) : (q[j].start <= b /\ b < Ends(q[j])) <=> j = i
    BY <1>2, <1>3, <1>4, <2>1, CoveredOnce
  <2> QED
    BY <1>4, <2>2
<1>6. PICK x \in 1..n : q[i] = ts[x]
  BY <1>4
<1>7. PICK k \in Expected(s) : entries[k].name = ts[x].name
  BY <1>1, <1>2
<1>8. \A j, e \in Expected(s) : entries[j].name = entries[e].name => j = e
  <2>1. Unique(Index) /\ DOMAIN entries = 1..Len(entries) /\ DOMAIN Index = 1..Len(entries)
        /\ \A e \in 1..Len(entries) : entries[e].name = Index[e].name
    BY IndexType DEF Table, Indexed
  <2> QED
    BY <2>1 DEF Expected, Unique
<1>9. ASSUME NEW j \in Expected(s)
      PROVE  (entries[j].range.start <= b /\ b < Ends(entries[j].range)) <=> j = k
  <2>1. PICK y \in 1..n : ts[y].name = entries[j].name /\ entries[j].range = RangeOf(ts[y])
    BY <1>1, <1>2
  <2>2. PICK z \in 1..n : q[z] = ts[y]
    BY <1>4
  <2>3. entries[j].range.start = q[z].start /\ Ends(entries[j].range) = Ends(q[z])
    BY <2>1, <2>2 DEF RangeOf, Ends
  <2>4. (entries[j].range.start <= b /\ b < Ends(entries[j].range)) <=> z = i
    BY <1>5, <2>3
  <2>5. z = i => j = k
    BY <1>6, <1>7, <1>8, <2>1, <2>2
  <2>6. j = k => z = i
    <3> SUFFICES ASSUME j = k PROVE z = i
      OBVIOUS
    <3>1. ts[y].name = ts[x].name
      BY <1>7, <2>1
    <3>2. y = x
      BY <1>1, <1>2, <3>1 DEF Unique
    <3>3. q[z] = q[i]
      BY <1>6, <2>2, <3>2
    <3>4. q[i].start <= b /\ b < Ends(q[i])
      BY <1>5
    <3> QED
      BY <1>5, <3>3, <3>4
  <2> QED
    BY <2>4, <2>5, <2>6
<1> QED
  BY <1>9

\* A catalogue that is finished is whole.
LEMMA Whole ==
  ASSUME IInv
  PROVE  ReadyIsWhole
<1> SUFFICES ASSUME at = "ready"
             PROVE  /\ \A k \in DOMAIN entries : entries[k].shard # Mtp => IsBound(k)
                    /\ \A s \in DOMAIN bound \ {Mtp} :
                         \A b \in 0..bound[s].payload - 1 :
                           \E k \in Expected(s) :
                             \A j \in Expected(s) :
                               (entries[j].range.start <= b /\ b < Ends(entries[j].range)) <=> j = k
                    /\ (\A k \in DOMAIN entries : entries[k].shard # Mtp) => BoundBytes = document.total
                    /\ caller = "production" =>
                         \A p \in Pinned : p.mtp \/ \E k \in DOMAIN entries :
                           entries[k].name = p.name /\ entries[k].range.bytes = p.bytes
  BY DEF ReadyIsWhole
<1> USE DEF IInv
<1>1. /\ slots # <<>> /\ Len(entries) = Len(Index) /\ TotalIsRight
      /\ \A k \in DOMAIN entries : entries[k].shard # Mtp => bound[entries[k].shard] # Unbound
  BY DEF Finished, Indexed
<1>2. /\ DOMAIN entries = 1..Len(entries) /\ DOMAIN Index = DOMAIN entries
      /\ \A k \in DOMAIN entries :
           /\ entries[k].name = Index[k].name /\ entries[k].shard = Index[k].shard
           /\ entries[k].shard \in DOMAIN bound
           /\ k \in Expected(entries[k].shard)
  BY <1>1, IndexType DEF Indexed, TypeOK, Expected
<1>3. \A k \in DOMAIN entries : entries[k].shard # Mtp => IsBound(k)
  <2> SUFFICES ASSUME NEW k \in DOMAIN entries, entries[k].shard # Mtp PROVE IsBound(k)
    OBVIOUS
  <2> DEFINE s == entries[k].shard
  <2>1. s \in DOMAIN bound /\ bound[s] # Unbound /\ k \in Expected(s)
    BY <1>1, <1>2
  <2> HIDE DEF s, IInv
  <2> QED
    BY <1>1, <2>1, BoundIs DEF IInv
<1>4. ASSUME NEW s \in DOMAIN bound \ {Mtp}, NEW b \in 0..bound[s].payload - 1
      PROVE  \E k \in Expected(s) : \A j \in Expected(s) :
               (entries[j].range.start <= b /\ b < Ends(entries[j].range)) <=> j = k
  <2>1. PICK k \in DOMAIN Index : Index[k].shard = s
    BY DEF TypeOK, ShardsOf, Index
  <2>2. bound[s] # Unbound
    BY <1>1, <1>2, <2>1
  <2> QED
    BY <1>1, <2>2, ShardIsCovered
<1>5. (\A k \in DOMAIN entries : entries[k].shard # Mtp) => BoundBytes = document.total
  BY <1>1, <1>3 DEF TotalIsRight
<1>6. ASSUME caller = "production", NEW p \in Pinned, ~p.mtp
      PROVE  \E k \in DOMAIN entries : entries[k].name = p.name /\ entries[k].range.bytes = p.bytes
  <2>1. ~verifying
    BY DEF Seen
  <2>2. PICK k \in DOMAIN Index, j \in DOMAIN files :
          /\ Index[k].name = p.name /\ Index[k].shard # Mtp
          /\ PinnedShards[j] = Index[k].shard
          /\ \E i \in DOMAIN files[j].tensors :
               files[j].tensors[i].name = p.name /\ files[j].tensors[i].bytes = p.bytes
    BY <1>6, <2>1 DEF Verified, Kept
  <2>3. PICK i \in DOMAIN files[j].tensors :
          files[j].tensors[i].name = p.name /\ files[j].tensors[i].bytes = p.bytes
    BY <2>2
  <2> DEFINE s == entries[k].shard
  <2>4. s \in DOMAIN bound /\ bound[s] # Unbound /\ k \in Expected(s) /\ PinnedShards[j] = s
        /\ entries[k].name = p.name /\ k \in DOMAIN entries
    BY <1>1, <1>2, <2>2
  <2> HIDE DEF s
  <2>5. PICK m \in DOMAIN files : PinnedShards[m] = s /\ files[m] = bound[s]
    BY <1>6, <2>4 DEF Seen
  <2>6. files[j] = bound[s]
    BY <2>4, <2>5, FilesAre
  <2>7. Unique(bound[s].tensors) /\ \A e \in Expected(s) : \E x \in DOMAIN bound[s].tensors :
          bound[s].tensors[x].name = entries[e].name /\ entries[e].range = RangeOf(bound[s].tensors[x])
    BY <1>1, <2>4, BoundIs
  <2>8. PICK x \in DOMAIN bound[s].tensors :
          bound[s].tensors[x].name = entries[k].name /\ entries[k].range = RangeOf(bound[s].tensors[x])
    BY <2>4, <2>7
  <2>9. x = i
    BY <2>3, <2>4, <2>6, <2>7, <2>8 DEF Unique
  <2> QED
    BY <2>3, <2>4, <2>6, <2>8, <2>9 DEF RangeOf
<1> QED
  BY <1>3, <1>4, <1>5, <1>6

-------------------------------------------------------------------------------
\* The invariant holds of every catalogue that is about to be read.
LEMMA Initially == Init => IInv
<1> SUFFICES ASSUME Init PROVE IInv
  OBVIOUS
<1>1. /\ caller \in {"text", "production", "public"} /\ document \in Documents /\ hash \in Hashes
      /\ verifying = (caller = "production") /\ at = "parse" /\ entries = <<>> /\ slots = <<>>
      /\ asked = Nothing /\ bound = [s \in ShardsOf(document) |-> Unbound]
      /\ files = [k \in 1..Len(PinnedShards) |-> Unbound]
  BY DEF Init
<1>2. TypeOK
  <2>1. /\ verifying \in BOOLEAN
        /\ files \in [1..Len(PinnedShards) -> Headers \cup {Unbound, Missing}]
        /\ entries \in Seq([name : Names, shard : Shards, range : Ranges \cup {Unbound}])
        /\ slots \in Seq(Nat)
        /\ bound \in [ShardsOf(document) -> Headers \cup {Unbound}]
    BY <1>1
  <2>2. asked \in [shard : Shards \cup {Unbound}, header : Headers \cup {Unbound}, tensors : Seq(Tensors)]
    BY <1>1 DEF Nothing
  <2> QED
    BY <1>1, <2>1, <2>2 DEF TypeOK
<1>3. Len(entries) = 0 /\ 1..Len(entries) = {} /\ DOMAIN entries = {} /\ Len(Index) \in Nat
  BY <1>1, <1>2, IndexType
<1>4. Indexed
  BY <1>1, <1>3 DEF Indexed
<1>5. Table /\ Asking /\ Finished /\ VerifiedLoads
  BY <1>1 DEF Table, Asking, Finished, VerifiedLoads
<1>6. Fitting /\ Seen /\ Verified
  BY <1>1 DEF Fitting, Seen, Verified
<1>7. ShardMatchesHeader
  BY <1>3 DEF ShardMatchesHeader, Expected
<1> QED
  BY <1>2, <1>4, <1>5, <1>6, <1>7 DEF IInv

\* Every step keeps the invariant.
LEMMA Inductive == IInv /\ [Next]_vars => IInv'
BY TableStep, RangesStep, SeenStep, VerifiedStep, LoadsStep, FinishedStep DEF IInv

\* The catalogue's inductive invariant: the table, what is bound, and what the
\* verification of a checkpoint leaves for the load after it.
THEOREM Invariance == Spec => []IInv
<1> QED
  BY Initially, Inductive, PTL DEF Spec

\* inkling_index_find_tensor() finds what is indexed and nothing else, whatever the
\* hash and however many names collide, and no index is refused that should be read.
THEOREM LookupIsRight == Spec => []FindsWhatIsIndexed
<1>1. IInv => FindsWhatIsIndexed
  BY IndexIsFound DEF IInv
<1> QED
  BY Invariance, <1>1, PTL

\* bind_tensors() is atomic: the ranges of a shard are those of one header.
THEOREM BindIsAtomic == Spec => []ShardMatchesHeader
<1>1. IInv => ShardMatchesHeader
  BY DEF IInv
<1> QED
  BY Invariance, <1>1, PTL

\* A model is built from a whole catalogue only.
THEOREM ReadyCatalogueIsWhole == Spec => []ReadyIsWhole
<1> QED
  BY Invariance, Whole, PTL

\* A checkpoint that verify_model() accepts is also loaded.
THEOREM WhatIsVerifiedLoads == Spec => []VerifiedLoads
<1>1. IInv => VerifiedLoads
  BY DEF IInv
<1> QED
  BY Invariance, <1>1, PTL

-------------------------------------------------------------------------------
(***************************************************************************)
(* The rows of a session.  What may be done to the scratch rows of a       *)
(* context while a call is on: nothing, or what is left of one             *)
(* reservation.  Every call but a reservation is steady, which is shown    *)
(* list by list, as the calls are put together.                            *)
(***************************************************************************)

\* The item leaves the rows of a context as they are, also when it fails.
Quiet(item) ==
  /\ item.rows \in Nat /\ item.scratch = -1
  /\ \A b \in item.drop \cup item.undo \cup item.own : b.name \notin Range(RowNames)

\* Nothing but items that leave the rows alone is to come.
Steady(s) == s \in Seq(Range(s)) /\ \A i \in 1..Len(s) : Quiet(s[i])

\* An allocation of scratch_reserve(): it fails without a loss.
Loading(c, item) ==
  /\ item.rows = 0 /\ item.scratch = -1 /\ item.own = {} /\ item.drop = {}
  /\ item.undo \cap held[c] = {}

\* The exchange at the end of scratch_reserve().
Exchanges(c, item) ==
  /\ item.rows = 0 /\ item.scratch \in Nat \ {0} /\ item.undo = {}
  /\ item.drop = RowsHeld(c) /\ item.own = Range(Rows(c, item.scratch))

\* A reservation is under way.
Reserving(c, s) ==
  \E j \in 1..Len(s) :
    /\ Exchanges(c, s[j])
    /\ \A i \in 1..j - 1 : Loading(c, s[i])
    /\ \A i \in j + 1..Len(s) : Quiet(s[i])

Shaped ==
  /\ by \in Owners /\ stage \in [Owners -> {"none", "building", "live"}]
  /\ held = [o \in Owners |-> held[o]] /\ todo \in Seq(Range(todo))
  /\ scratch \in [Contexts -> Nat] /\ options \in [Contexts -> Options] /\ way \in Ways

\* Who is being built, and by which call.
Staged ==
  /\ \A o \in Owners : stage[o] = "building" => by = o /\ ~Ready
  /\ ~Ready => stage[by] # "none" /\ (doing = "open" <=> by = "model")
  /\ doing = "open" => stage["model"] = "building"
  /\ stage["model"] # "live" => \A c \in Contexts : stage[c] = "none"
  /\ \A c \in Contexts : stage[c] = "none" => scratch[c] = 0

\* A configuration that is not valid stops an open.
Sane ==
  /\ stage["model"] = "live" => \E w \in Ways : Valid(w.config) /\ model = Model(w)
  /\ doing = "open" => Valid(way.config) \/ \E item \in Range(todo) : item.rows = 0 /\ ~item.pass

Calm ==
  /\ Ready => todo = <<>>
  /\ by \in Contexts => Steady(todo) \/ Reserving(by, todo)

SInv == Shaped /\ Staged /\ Sane /\ Calm /\ RowsTogether

-------------------------------------------------------------------------------
\* A sequence is one of its elements.
LEMMA ElementsAre ==
  ASSUME NEW S, NEW s \in Seq(S)
  PROVE  /\ Range(s) \subseteq S /\ s \in Seq(Range(s)) /\ Len(s) \in Nat /\ DOMAIN s = 1..Len(s)
         /\ Range(s) = {s[i] : i \in 1..Len(s)}
<1>1. Len(s) \in Nat /\ DOMAIN s = 1..Len(s) /\ \A i \in 1..Len(s) : s[i] \in S
  OBVIOUS
<1>2. Range(s) = {s[i] : i \in 1..Len(s)}
  BY <1>1 DEF Range
<1>3. s \in [1..Len(s) -> Range(s)]
  BY <1>1, <1>2
<1> QED
  BY <1>1, <1>2, <1>3

\* The same of two sequences, one behind the other.
LEMMA ElementsOfTwo ==
  ASSUME NEW s, NEW t, s \in Seq(Range(s)), t \in Seq(Range(t))
  PROVE  s \o t \in Seq(Range(s \o t)) /\ Range(s \o t) = Range(s) \cup Range(t)
<1> DEFINE S == Range(s) \cup Range(t)
           u == s \o t
<1>1. s \in Seq(S) /\ t \in Seq(S)
  <2>1. Range(s) \subseteq S /\ Range(t) \subseteq S
    OBVIOUS
  <2> HIDE DEF S
  <2>2. \A v, T : v \in Seq(T) /\ T \subseteq S => v \in Seq(S)
    OBVIOUS
  <2> QED
    BY <2>1, <2>2
<1>2. /\ u \in Seq(S) /\ Len(u) = Len(s) + Len(t)
      /\ \A i \in 1..Len(s) + Len(t) : u[i] = IF i <= Len(s) THEN s[i] ELSE t[i - Len(s)]
  BY <1>1, ConcatProperties
<1>3. /\ Len(s) \in Nat /\ Range(s) = {s[i] : i \in 1..Len(s)}
      /\ Len(t) \in Nat /\ Range(t) = {t[i] : i \in 1..Len(t)}
  BY ElementsAre
<1>4. Range(u) \subseteq S /\ u \in Seq(Range(u)) /\ Range(u) = {u[i] : i \in 1..Len(u)}
  BY <1>2, ElementsAre
<1>5. ASSUME NEW x \in Range(s) PROVE x \in Range(u)
  <2>1. PICK i \in 1..Len(s) : s[i] = x
    BY <1>3
  <2>2. i \in 1..Len(u) /\ u[i] = x
    BY <1>2, <1>3, <2>1
  <2> QED
    BY <1>4, <2>2
<1>6. ASSUME NEW x \in Range(t) PROVE x \in Range(u)
  <2>1. PICK i \in 1..Len(t) : t[i] = x
    BY <1>3
  <2> DEFINE j == Len(s) + i
  <2>2. j \in 1..Len(s) + Len(t) /\ ~(j <= Len(s)) /\ j - Len(s) = i
    BY <1>3
  <2>3. u[j] = x /\ j \in 1..Len(u)
    BY <1>2, <2>1, <2>2
  <2> QED
    BY <1>4, <2>3
<1> QED
  BY <1>4, <1>5, <1>6

\* A sequence of items that leave the rows alone does so.
LEMMA SteadyIs ==
  ASSUME NEW S, NEW s \in Seq(S), \A x \in S : Quiet(x)
  PROVE  Steady(s)
BY ElementsAre DEF Steady

\* It is about the elements alone.
LEMMA SteadyEach ==
  ASSUME NEW s
  PROVE  Steady(s) <=> s \in Seq(Range(s)) /\ \A x \in Range(s) : Quiet(x)
<1>1. ASSUME s \in Seq(Range(s)) PROVE Range(s) = {s[i] : i \in 1..Len(s)}
  BY <1>1, ElementsAre
<1> QED
  BY <1>1 DEF Steady

\* What is steady stays so when it is joined, ...
LEMMA SteadyJoin ==
  ASSUME NEW s, NEW t, Steady(s), Steady(t) PROVE Steady(s \o t)
BY SteadyEach, ElementsOfTwo

\* A sequence of sequences, flattened, has their elements.
LEMMA ElementsOfMany ==
  ASSUME NEW n \in Nat, NEW parts, parts = [k \in 1..n |-> parts[k]],
         \A k \in 1..n : parts[k] \in Seq(Range(parts[k]))
  PROVE  FlattenSeq(parts) \in Seq(UNION {Range(parts[k]) : k \in 1..n})
<1> DEFINE S == UNION {Range(parts[k]) : k \in 1..n}
<1>1. \A k \in 1..n : Range(parts[k]) \subseteq S
  OBVIOUS
<1> HIDE DEF S
<1>2. \A k \in 1..n : parts[k] \in Seq(S)
  <2>1. \A v, T : v \in Seq(T) /\ T \subseteq S => v \in Seq(S)
    OBVIOUS
  <2> QED
    BY <1>1, <2>1
<1>3. parts \in [1..n -> Seq(S)]
  BY <1>2
<1>4. FlattenSeq(parts) \in Seq(S)
  BY <1>3, FlattenType
<1> QED
  BY <1>4 DEF S

\* ... flattened, ...
LEMMA SteadyFlatten ==
  ASSUME NEW n \in Nat, NEW parts, parts = [k \in 1..n |-> parts[k]],
         \A k \in 1..n : Steady(parts[k])
  PROVE  Steady(FlattenSeq(parts))
<1> DEFINE S == UNION {Range(parts[k]) : k \in 1..n}
<1>1. \A k \in 1..n : parts[k] \in Seq(Range(parts[k])) /\ \A x \in Range(parts[k]) : Quiet(x)
  BY SteadyEach
<1>2. \A x \in S : Quiet(x)
  BY <1>1
<1>3. FlattenSeq(parts) \in Seq(S)
  BY <1>1, ElementsOfMany
<1> HIDE DEF S
<1> QED
  BY <1>2, <1>3, SteadyIs

\* ... and when its first item is done.
LEMMA SteadyTail ==
  ASSUME NEW s, Steady(s), s # <<>>
  PROVE  Quiet(Head(s)) /\ Steady(Tail(s))
<1>1. s \in Seq(Range(s)) /\ Len(s) \in Nat /\ \A x \in Range(s) : Quiet(x)
  BY SteadyEach, ElementsAre
<1>2. Head(s) \in Range(s) /\ Tail(s) \in Seq(Range(s))
  BY <1>1, HeadTailProperties
<1> QED
  BY <1>1, <1>2, SteadyIs

\* No more items are steady.
LEMMA SteadyNothing == Steady(<<>>)
<1>1. <<>> \in Seq({}) /\ Range(<<>>) = {}
  BY EmptySeq DEF Range
<1> QED
  BY <1>1, SteadyEach

\* A finite nonempty set of naturals has a greatest element, which Max picks.
LEMMA GreatestIs ==
  ASSUME NEW S, IsFiniteSet(S), S # {}
  PROVE  S \subseteq Nat => Max(S) \in S /\ \A x \in S : x <= Max(S)
<1> DEFINE Above(x) == {y \in S : y > x}
           T == {Above(x) : x \in S}
<1>1. T \in SUBSET SUBSET S /\ T # {}
  OBVIOUS
<1>2. \E m \in T : \A t \in T : t \subseteq m => t = m
  <2> HIDE DEF T
  <2> QED
    BY <1>1, Smallest
<1>3. PICK x \in S : \A t \in T : t \subseteq Above(x) => t = Above(x)
  BY <1>2
<1>4. ASSUME S \subseteq Nat, NEW y \in S, y > x PROVE FALSE
  <2>1. Above(y) \in T
    OBVIOUS
  <2>2. \A z \in S : z > y => z > x
    BY <1>4
  <2>3. Above(y) \subseteq Above(x) /\ y \in Above(x)
    BY <1>4, <2>2
  <2>4. ~(y > y)
    BY <1>4
  <2>5. y \notin Above(y)
    BY <2>4
  <2> QED
    BY <1>3, <2>1, <2>3, <2>5
<1>5. ASSUME S \subseteq Nat PROVE \A y \in S : x >= y
  BY <1>4, <1>5
<1> QED
  BY <1>5 DEF Max

\* The names of the nine buffers with a row per token.
LEMMA RowNamesAre ==
  Range(RowNames) = {"hidden0", "hidden1", "norm", "block", "q", "k", "v", "relative", "heads"}
BY DEF Range, RowNames

\* In a valid model no layer lacks queries, keys and biases.
LEMMA DimensionsPositive ==
  ASSUME NEW config \in Configurations, Positive(config), NEW id
  PROVE  \A name \in {"q", "k", "r"} : Layer(config, id).matrices[name].rows \in Nat \ {0}
<1> DEFINE local == id \in config.local
           heads == IF local THEN config.swa_heads ELSE config.heads
           kv_heads == IF local THEN config.swa_kv_heads ELSE config.kv_heads
           dim == IF local THEN config.swa_head_dim ELSE config.head_dim
           mlp == IF id < config.dense_idx THEN DenseMlp(config) ELSE RoutedMlp(config)
<1>1. /\ heads \in Nat \ {0} /\ kv_heads \in Nat \ {0} /\ dim \in Nat \ {0}
      /\ config.relative \in Nat \ {0}
  BY DEF Configurations, Positive
<1>2. Layer(config, id).matrices =
        Joined(Attention(config.hidden, heads * dim, kv_heads * dim, heads * config.relative), mlp)
  BY DEF Layer
<1> HIDE DEF heads, kv_heads, dim, mlp
<1>3. /\ Layer(config, id).matrices["q"].rows = heads * dim
      /\ Layer(config, id).matrices["k"].rows = kv_heads * dim
      /\ Layer(config, id).matrices["r"].rows = heads * config.relative
  BY <1>2 DEF Joined, Attention, Matrix, AttentionNames, MatrixNames
<1>4. \A m, n \in Nat \ {0} : m * n \in Nat \ {0}
  OBVIOUS
<1>5. /\ heads * dim \in Nat \ {0} /\ kv_heads * dim \in Nat \ {0}
      /\ heads * config.relative \in Nat \ {0}
  BY <1>1, <1>4
<1> QED
  BY <1>3, <1>5

\* The layers of a model.
LEMMA LayersAre ==
  ASSUME NEW w \in Ways, Valid(w.config), model = Model(w)
  PROVE  /\ model.config = w.config /\ w.config \in Configurations
         /\ \E n \in Nat \ {0} :
              /\ DOMAIN model.layers = 1..n
              /\ \A k \in 1..n : \E id : model.layers[k] = Layer(w.config, id)
<1>1. w.config \in Configurations /\ w.config.layers \in Nat \ {0}
  <2>1. w.config \in Configurations
    BY SessionAssumption
  <2>2. w.config.layers \in Nat /\ Positive(w.config)
    BY <2>1 DEF Configurations, Valid
  <2> QED
    BY <2>1, <2>2 DEF Positive
<1>2. /\ model.config = w.config
      /\ model.layers = [k \in DOMAIN LayerIds(w) |-> Layer(w.config, LayerIds(w)[k])]
  BY DEF Model
<1>3. \E n \in Nat \ {0} : DOMAIN LayerIds(w) = 1..n
  <2>1. CASE Extracted(w)
    BY <2>1 DEF LayerIds
  <2>2. CASE ~Extracted(w)
    BY <1>1, <2>2 DEF LayerIds
  <2> QED
    BY <2>1, <2>2
<1> QED
  BY <1>1, <1>2, <1>3

\* Every row of a context has an element.
LEMMA WidthsPositive ==
  ASSUME NEW w \in Ways, Valid(w.config), model = Model(w)
  PROVE  \A name \in Range(RowNames) : RowWidths[name] \in Nat \ {0}
<1>1. PICK n \in Nat \ {0} :
        /\ DOMAIN model.layers = 1..n
        /\ \A k \in 1..n : \E id : model.layers[k] = Layer(w.config, id)
  BY LayersAre
<1>2. model.config = w.config /\ w.config \in Configurations
  BY LayersAre
<1>3. Hidden \in Nat \ {0}
  <2>1. w.config.hidden \in Nat /\ w.config.hidden > 0
    <3>1. Positive(w.config) /\ w.config.hidden \in Nat
      BY <1>2 DEF Valid, Configurations
    <3> QED
      BY <3>1 DEF Positive
  <2> QED
    BY <1>2, <2>1 DEF Hidden
<1>4. ASSUME NEW name \in {"q", "k", "r"} PROVE Widest(name) \in Nat \ {0}
  <2> DEFINE f == [k \in 1..n |-> model.layers[k].matrices[name].rows]
             S == {f[k] : k \in 1..n}
  <2>1. \A k \in 1..n : f[k] \in Nat \ {0}
    BY <1>1, <1>2, DimensionsPositive DEF Valid
  <2>2. S \in SUBSET Nat /\ S # {} /\ IsFiniteSet(S)
    <3>1. S \in SUBSET Nat /\ f[1] \in S
      BY <2>1
    <3>2. IsFiniteSet(1..n)
      BY FS_Interval
    <3> HIDE DEF f
    <3>3. f \in Surjection(1..n, S)
      <4>1. f \in [1..n -> S]
        BY DEF f
      <4> QED
        BY <4>1 DEF Surjection
    <3>4. IsFiniteSet(S)
      BY <3>2, <3>3, FS_Surjection
    <3> QED
      BY <3>1, <3>4
  <2>3. Widest(name) = Max(S)
    BY <1>1 DEF Widest
  <2> HIDE DEF f
  <2>4. Max(S) \in S
    BY <2>2, GreatestIs
  <2> QED
    BY <2>1, <2>3, <2>4
<1> QED
  BY <1>3, <1>4, RowNamesAre DEF RowWidths, KvWidth

\* An allocation of other buffers than those with a row per token, and what
\* becomes of them.
LEMMA QuietBlocks ==
  ASSUME NEW blocks, \A b \in blocks : b.name \notin Range(RowNames)
  PROVE  /\ \A b, undo : b \in blocks /\ undo \subseteq blocks =>
                           Quiet(Keep(b, undo)) /\ Quiet(Alloc(b, undo))
         /\ Quiet(Become(blocks))
BY DEF Quiet, Keep, Alloc, Become, Item

\* Sequences of one, two and three items.
LEMMA SteadySome ==
  /\ \A x : Quiet(x) => Steady(<<x>>)
  /\ \A x, y : Quiet(x) /\ Quiet(y) => Steady(<<x, y>>)
  /\ \A x, y, z : Quiet(x) /\ Quiet(y) /\ Quiet(z) => Steady(<<x, y, z>>)
<1>1. ASSUME NEW x, Quiet(x) PROVE Steady(<<x>>)
  <2> DEFINE S == {x}
  <2>1. <<x>> \in Seq(S) /\ \A item \in S : Quiet(item)
    BY <1>1
  <2> HIDE DEF S
  <2> QED
    BY <2>1, SteadyIs
<1>2. ASSUME NEW x, NEW y, Quiet(x), Quiet(y) PROVE Steady(<<x, y>>)
  <2> DEFINE S == {x, y}
  <2>1. <<x, y>> \in Seq(S) /\ \A item \in S : Quiet(item)
    BY <1>2
  <2> HIDE DEF S
  <2> QED
    BY <2>1, SteadyIs
<1>3. ASSUME NEW x, NEW y, NEW z, Quiet(x), Quiet(y), Quiet(z) PROVE Steady(<<x, y, z>>)
  <2> DEFINE S == {x, y, z}
  <2>1. <<x, y, z>> \in Seq(S) /\ \A item \in S : Quiet(item)
    BY <1>3
  <2> HIDE DEF S
  <2> QED
    BY <2>1, SteadyIs
<1> QED
  BY <1>1, <1>2, <1>3

\* The item only looks at buffers, or reserves rows.
Plain(item) ==
  /\ item.rows \in Nat /\ item.scratch = -1
  /\ item.take = {} /\ item.drop = {} /\ item.own = {} /\ item.undo = {}

\* Nothing but such items.
Idle(s) == s \in Seq(Range(s)) /\ \A x \in Range(s) : Plain(x)

\* It stays so when it is joined, ...
LEMMA IdleJoin == ASSUME NEW s, NEW t, Idle(s), Idle(t) PROVE Idle(s \o t)
BY ElementsOfTwo DEF Idle

\* ... and flattened.
LEMMA IdleFlatten ==
  ASSUME NEW n \in Nat, NEW parts, parts = [k \in 1..n |-> parts[k]],
         \A k \in 1..n : Idle(parts[k])
  PROVE  Idle(FlattenSeq(parts))
<1> DEFINE S == UNION {Range(parts[k]) : k \in 1..n}
<1>1. \A k \in 1..n : parts[k] \in Seq(Range(parts[k])) /\ \A x \in Range(parts[k]) : Plain(x)
  BY DEF Idle
<1>2. \A x \in S : Plain(x)
  BY <1>1
<1>3. FlattenSeq(parts) \in Seq(S)
  BY <1>1, ElementsOfMany
<1> HIDE DEF S
<1>4. Range(FlattenSeq(parts)) \subseteq S /\ FlattenSeq(parts) \in Seq(Range(FlattenSeq(parts)))
  BY <1>3, ElementsAre
<1> QED
  BY <1>2, <1>4 DEF Idle

\* Sequences of one, two and three such items.
LEMMA IdleSome ==
  /\ \A x : Plain(x) => Idle(<<x>>)
  /\ \A x, y : Plain(x) /\ Plain(y) => Idle(<<x, y>>)
  /\ \A x, y, z : Plain(x) /\ Plain(y) /\ Plain(z) => Idle(<<x, y, z>>)
<1>0. ASSUME NEW S, NEW s \in Seq(S), \A x \in S : Plain(x) PROVE Idle(s)
  BY <1>0, ElementsAre DEF Idle
<1>1. ASSUME NEW x, Plain(x) PROVE Idle(<<x>>)
  <2> DEFINE S == {x}
  <2>1. <<x>> \in Seq(S) /\ \A item \in S : Plain(item)
    BY <1>1
  <2> HIDE DEF S
  <2> QED
    BY <1>0, <2>1
<1>2. ASSUME NEW x, NEW y, Plain(x), Plain(y) PROVE Idle(<<x, y>>)
  <2> DEFINE S == {x, y}
  <2>1. <<x, y>> \in Seq(S) /\ \A item \in S : Plain(item)
    BY <1>2
  <2> HIDE DEF S
  <2> QED
    BY <1>0, <2>1
<1>3. ASSUME NEW x, NEW y, NEW z, Plain(x), Plain(y), Plain(z) PROVE Idle(<<x, y, z>>)
  <2> DEFINE S == {x, y, z}
  <2>1. <<x, y, z>> \in Seq(S) /\ \A item \in S : Plain(item)
    BY <1>3
  <2> HIDE DEF S
  <2> QED
    BY <1>0, <2>1
<1> QED
  BY <1>1, <1>2, <1>3

\* It leaves the rows alone.
LEMMA IdleIsSteady == ASSUME NEW s, Idle(s) PROVE Steady(s)
BY SteadyEach DEF Idle, Plain, Quiet

\* What the items of the evaluation functions are.
LEMMA PlainItems ==
  /\ \A uses : Plain(Use(uses))
  /\ \A uses, pin : Plain([Use(uses) EXCEPT !.pin = pin])
  /\ \A tokens \in Nat : Plain(Reserve(tokens))
  /\ \A uses, where : /\ Plain([Use(uses) EXCEPT !.position = where])
                   /\ Plain([Item EXCEPT !.uses = uses, !.position = where])
BY DEF Plain, Use, Reserve, Item

\* The blocks of a layer reserve rows and use buffers, nothing else.
LEMMA IdleCalls ==
  ASSUME NEW c, NEW k, NEW tokens \in Nat, NEW nested
  PROVE  Idle(AttentionCall(c, k, tokens, nested)) /\ Idle(MlpCall(c, k, tokens, nested))
BY PlainItems, IdleSome DEF AttentionCall, MlpCall

\* The same of a layer.
LEMMA IdleLayer ==
  ASSUME NEW c, NEW k, NEW tokens \in Nat, NEW outer
  PROVE  Idle(LayerCall(c, k, tokens, outer))
<1>1. Idle(AttentionCall(c, k, tokens, TRUE)) /\ Idle(MlpCall(c, k, tokens, TRUE))
  BY IdleCalls
<1> DEFINE rows == {Access(c, "norm", 0, tokens * Hidden), Access(c, "block", 0, tokens * Hidden),
                    Access(c, "history", 0, 3 * Hidden)} \cup outer
           half(norm, conv) ==
             Use(rows \cup {OfLayer(k, norm, Hidden), OfLayer(k, conv, 4 * Hidden)})
           first == [half("attn_norm", "attn_conv") EXCEPT !.pin = {"norm", "block"}]
           second == [half("mlp_norm", "mlp_conv") EXCEPT !.pin = {"norm", "block"}]
<1>2. Plain(first) /\ Plain(second) /\ Plain(Use(rows)) /\ Plain(Reserve(tokens))
  BY PlainItems
<1>3. LayerCall(c, k, tokens, outer) =
        <<Reserve(tokens), first>> \o AttentionCall(c, k, tokens, TRUE) \o <<second>>
        \o MlpCall(c, k, tokens, TRUE) \o <<Use(rows)>>
  BY DEF LayerCall
<1> HIDE DEF rows, first, second
<1>4. Idle(<<Reserve(tokens), first>>) /\ Idle(<<second>>) /\ Idle(<<Use(rows)>>)
  BY <1>2, IdleSome
<1> QED
  BY <1>1, <1>3, <1>4, IdleJoin

\* The same of a prefix.
LEMMA IdleForward ==
  ASSUME NEW c, NEW tokens \in Nat, NEW n \in Nat, DOMAIN model.layers = 1..n
  PROVE  Idle(ForwardCall(c, tokens))
<1> DEFINE outer == {Argument(c, "hidden0", tokens * Hidden), Argument(c, "hidden1", tokens * Hidden)}
           embed == [Use(EmbedUses(c, tokens)) EXCEPT !.pin = {"hidden0", "hidden1"}]
           parts == [k \in 1..n |-> LayerCall(c, k, tokens, outer)]
<1>1. Plain(embed) /\ Plain(Reset(c)) /\ Plain(Reserve(tokens)) /\ Plain(Use(LogitsUses(c, tokens)))
  BY PlainItems DEF Reset
<1>2. \A k \in 1..n : Idle(parts[k])
  BY IdleLayer
<1>3. ForwardCall(c, tokens) =
        <<Reset(c), Reserve(tokens), embed>> \o FlattenSeq(parts) \o <<Use(LogitsUses(c, tokens))>>
  BY DEF ForwardCall
<1>4. parts = [k \in 1..n |-> parts[k]]
  OBVIOUS
<1> HIDE DEF embed, parts
<1>5. Idle(FlattenSeq(parts))
  BY <1>2, <1>4, IdleFlatten
<1>6. /\ Idle(<<Reset(c), Reserve(tokens), embed>>)
      /\ Idle(<<Use(LogitsUses(c, tokens))>>)
  BY <1>1, IdleSome
<1> QED
  BY <1>3, <1>5, <1>6, IdleJoin

\* The same of a token in a layer.
LEMMA IdleTokenLayer ==
  ASSUME NEW c, NEW k, NEW where PROVE Idle(TokenLayer(c, k, where))
<1>1. Idle(MlpCall(c, k, 1, TRUE))
  BY IdleCalls
<1> DEFINE layer == LayerAt(k)
           kv == MatrixAt(k, "k").rows
           ring == RingCapacity(layer, options[c])
           filled == (Min({where, ring - 1})) * kv
           half(norm, conv, history) ==
             {OfLayer(k, norm, Hidden), OfLayer(k, conv, 4 * Hidden), Access(c, history, k, 3 * Hidden)}
           rows == {Access(c, name, 0, Hidden) : name \in {"norm", "block"}}
                   \cup {Argument(c, "hidden0", Hidden), Argument(c, "hidden1", Hidden)}
           u == AttentionUses(c, k, 1, where + 1) \cup rows
                \cup half("attn_norm", "attn_conv", "attn_history")
                \cup {Access(c, "key_history", k, 3 * kv), Access(c, "value_history", k, 3 * kv)}
                \cup {Access(c, ring_name, k, count) :
                        ring_name \in {"keys", "values"},
                        count \in {(where % ring) * kv + kv, filled + GroupEnd(layer)}}
           v == rows \cup half("mlp_norm", "mlp_conv", "mlp_history")
<1>2. TokenLayer(c, k, where) =
        <<[Use(u) EXCEPT !.pin = {"norm", "block"}]>> \o MlpCall(c, k, 1, TRUE) \o <<Use(v)>>
  BY DEF TokenLayer
<1> HIDE DEF u, v
<1>3. Idle(<<[Use(u) EXCEPT !.pin = {"norm", "block"}]>>) /\ Idle(<<Use(v)>>)
  BY PlainItems, IdleSome
<1> QED
  BY <1>1, <1>2, <1>3, IdleJoin

\* The same of a token.
LEMMA IdleToken ==
  ASSUME NEW c, NEW where, NEW n \in Nat, DOMAIN model.layers = 1..n
  PROVE  Idle(TokenCall(c, where))
<1> DEFINE first == [Use(EmbedUses(c, 1)) EXCEPT !.pin = {"hidden0", "hidden1"}]
           last == [Use(LogitsUses(c, 1)) EXCEPT !.position = where + 1]
           parts == [k \in 1..n |-> TokenLayer(c, k, where)]
<1>1. TokenCall(c, where) = <<first>> \o FlattenSeq(parts) \o <<last>>
  BY DEF TokenCall
<1>2. Idle(<<first>>) /\ Idle(<<last>>)
  BY PlainItems, IdleSome
<1>3. (\A k \in 1..n : Idle(parts[k])) /\ parts = [k \in 1..n |-> parts[k]]
  BY IdleTokenLayer
<1> HIDE DEF first, last, parts
<1>4. Idle(FlattenSeq(parts))
  BY <1>3, IdleFlatten
<1> QED
  BY <1>1, <1>2, <1>4, IdleJoin

\* The same of a prefill.
LEMMA IdlePrefill ==
  ASSUME NEW c, NEW tokens \in Nat, NEW n \in Nat, DOMAIN model.layers = 1..n
  PROVE  Idle(PrefillCall(c, tokens))
<1> DEFINE parts == [p \in 1..tokens |-> TokenCall(c, p - 1)]
<1>1. Idle(<<Reset(c)>>)
  BY PlainItems, IdleSome DEF Reset
<1>2. (\A p \in 1..tokens : Idle(parts[p])) /\ parts = [p \in 1..tokens |-> parts[p]]
  BY IdleToken
<1>3. PrefillCall(c, tokens) = <<Reset(c)>> \o FlattenSeq(parts)
  BY DEF PrefillCall
<1> HIDE DEF parts
<1>4. Idle(FlattenSeq(parts))
  BY <1>2, IdleFlatten
<1> QED
  BY <1>1, <1>3, <1>4, IdleJoin

\* What is listed by number is a sequence of its elements.
LEMMA ListIs ==
  ASSUME NEW n \in Nat, NEW s, s = [i \in 1..n |-> s[i]]
  PROVE  s \in Seq(Range(s)) /\ Range(s) = {s[i] : i \in 1..n}
<1>1. Range(s) = {s[i] : i \in 1..n}
  BY DEF Range
<1>2. s \in [1..n -> Range(s)]
  BY <1>1
<1> QED
  BY <1>1, <1>2

\* As many items as there are numbers.
LEMMA SteadyListed ==
  ASSUME NEW n \in Nat, NEW s, s = [i \in 1..n |-> s[i]], \A i \in 1..n : Quiet(s[i])
  PROVE  Steady(s)
BY ListIs, SteadyEach

\* Allocations that are kept, one by one.
LEMMA SteadyKept ==
  ASSUME NEW S, NEW blocks \in Seq(S), NEW undo,
         \A b \in S \cup undo : b.name \notin Range(RowNames)
  PROVE  Steady([i \in DOMAIN blocks |-> Keep(blocks[i], undo)])
<1> DEFINE s == [i \in DOMAIN blocks |-> Keep(blocks[i], undo)]
<1>1. Len(blocks) \in Nat /\ DOMAIN blocks = 1..Len(blocks) /\ \A i \in 1..Len(blocks) : blocks[i] \in S
  OBVIOUS
<1>2. \A i \in 1..Len(blocks) : Quiet(Keep(blocks[i], undo))
  <2>1. \A i \in 1..Len(blocks) : blocks[i] \in S \cup undo /\ undo \subseteq S \cup undo
    BY <1>1
  <2> QED
    BY <2>1, QuietBlocks
<1>3. s = [i \in 1..Len(blocks) |-> s[i]] /\ \A i \in 1..Len(blocks) : Quiet(s[i])
  BY <1>1, <1>2
<1> HIDE DEF s
<1>4. Steady(s)
  BY <1>1, <1>3, SteadyListed
<1> QED
  BY <1>4 DEF s

\* The buffers of fixed size are not among the nine, ...
LEMMA FixedNames ==
  ASSUME NEW c, NEW o
  PROVE  \E S : FixedBlocks(c, o) \in Seq(S) /\ \A b \in S : b.name \notin Range(RowNames)
<1> DEFINE f == FixedBlocks(c, o)
<1>1. f = [i \in 1..10 |-> f[i]]
  BY DEF FixedBlocks
<1>2. \A i \in 1..10 :
        f[i].name \in {"scores", "bias", "history", "pair", "activation", "expert", "routed",
                       "shared", "router", "mixture"}
  BY DEF FixedBlocks, Block
<1> HIDE DEF f
<1>3. f \in Seq(Range(f)) /\ Range(f) = {f[i] : i \in 1..10}
  BY <1>1, ListIs
<1>4. \A b \in Range(f) : b.name \notin Range(RowNames)
  BY <1>2, <1>3, RowNamesAre
<1> QED
  BY <1>3, <1>4 DEF f

\* ... nor are those of the sequence, ...
LEMMA SequenceNames ==
  ASSUME NEW c, NEW o, NEW n \in Nat, DOMAIN model.layers = 1..n
  PROVE  \E S : SequenceBlocks(c, o) \in Seq(S) /\ \A b \in S : b.name \notin Range(RowNames)
<1> DEFINE kv(k) == model.layers[k].matrices["k"].rows
           ring(k) == RingCapacity(model.layers[k], o)
           layer(k) == <<Block(c, "keys", k, ring(k) * kv(k)), Block(c, "values", k, ring(k) * kv(k)),
                         Block(c, "key_history", k, 3 * kv(k)), Block(c, "value_history", k, 3 * kv(k)),
                         Block(c, "attn_history", k, 3 * Hidden), Block(c, "mlp_history", k, 3 * Hidden)>>
           parts == [k \in 1..n |-> layer(k)]
           first == <<Block(c, "sequence", 0, 1), Block(c, "sequence layers", 0, Len(model.layers))>>
           S == Range(first) \cup UNION {Range(parts[k]) : k \in 1..n}
<1>1. SequenceBlocks(c, o) = first \o FlattenSeq(parts)
  BY DEF SequenceBlocks
<1>2. ASSUME NEW k \in 1..n
      PROVE  parts[k] \in Seq(Range(parts[k])) /\ \A b \in Range(parts[k]) : b.name \notin Range(RowNames)
  <2> DEFINE p == layer(k)
  <2>1. p = [i \in 1..6 |-> p[i]]
    OBVIOUS
  <2>2. \A i \in 1..6 :
          p[i].name \in {"keys", "values", "key_history", "value_history", "attn_history", "mlp_history"}
    BY DEF Block
  <2>3. parts[k] = p
    OBVIOUS
  <2> HIDE DEF p, parts
  <2>4. p \in Seq(Range(p)) /\ Range(p) = {p[i] : i \in 1..6}
    BY <2>1, ListIs
  <2>5. \A b \in Range(p) : b.name \notin Range(RowNames)
    BY <2>2, <2>4, RowNamesAre
  <2> QED
    BY <2>3, <2>4, <2>5
<1>3. first \in Seq(Range(first)) /\ \A b \in Range(first) : b.name \notin Range(RowNames)
  <2>1. first = [i \in 1..2 |-> first[i]]
    OBVIOUS
  <2>2. \A i \in 1..2 : first[i].name \in {"sequence", "sequence layers"}
    <3>1. first[1].name = "sequence" /\ first[2].name = "sequence layers"
      BY DEF Block
    <3>2. 1..2 = {1, 2}
      OBVIOUS
    <3> HIDE DEF first
    <3> QED
      BY <3>1, <3>2
  <2> HIDE DEF first
  <2>3. first \in Seq(Range(first)) /\ Range(first) = {first[i] : i \in 1..2}
    BY <2>1, ListIs
  <2>4. \A b \in Range(first) : b.name \notin Range(RowNames)
    BY <2>2, <2>3, RowNamesAre
  <2> QED
    BY <2>3, <2>4
<1>4. parts = [k \in 1..n |-> parts[k]]
  OBVIOUS
<1> HIDE DEF first, parts
<1>5. FlattenSeq(parts) \in Seq(UNION {Range(parts[k]) : k \in 1..n})
  BY <1>2, <1>4, ElementsOfMany
<1>6. \A b \in S : b.name \notin Range(RowNames)
  BY <1>2, <1>3
<1>7. first \in Seq(S) /\ FlattenSeq(parts) \in Seq(S)
  BY <1>3, <1>5
<1> HIDE DEF S
<1>8. first \o FlattenSeq(parts) \in Seq(S)
  BY <1>7, ConcatProperties
<1> QED
  BY <1>1, <1>6, <1>8

\* Creation reserves rows and allocates buffers of other names.
LEMMA SteadyCreate ==
  ASSUME NEW c, NEW o \in Options, NEW n \in Nat, DOMAIN model.layers = 1..n
  PROVE  Steady(CreateItems(c, o))
<1> DEFINE selected == Block(c, "selected", 0, model.config.per_token)
           weights == Block(c, "weights", 0, o.weight_bytes)
           keep(blocks, undo) == [i \in DOMAIN blocks |-> Keep(blocks[i], undo)]
           rows == IF o.incremental THEN 1 ELSE o.max_tokens
           first == Keep(Block(c, "context", 0, 1), {})
           late == IF o.incremental THEN keep(SequenceBlocks(c, o), {selected, weights}) ELSE <<>>
<1>1. CreateItems(c, o) =
        <<first, Reserve(rows)>> \o keep(FixedBlocks(c, o), {})
        \o <<Alloc(selected, {}), Alloc(weights, {selected})>> \o late
        \o <<Become({selected, weights})>>
  BY DEF CreateItems
<1>2. rows \in Nat
  BY SessionAssumption
<1>3. /\ first = Keep(Block(c, "context", 0, 1), {})
      /\ Block(c, "context", 0, 1).name \notin Range(RowNames)
      /\ selected.name \notin Range(RowNames) /\ weights.name \notin Range(RowNames)
  BY RowNamesAre DEF Block
<1> HIDE DEF selected, weights, first, rows
<1>4. /\ Quiet(Reserve(rows)) /\ Quiet(Become({selected, weights}))
      /\ Quiet(Alloc(selected, {})) /\ Quiet(Alloc(weights, {selected}))
  <2> DEFINE S == {selected, weights}
  <2>1. /\ \A b \in S : b.name \notin Range(RowNames)
        /\ selected \in S /\ weights \in S /\ {selected} \subseteq S /\ {} \subseteq S
    BY <1>3
  <2> HIDE DEF S
  <2>2. Quiet(Become(S)) /\ Quiet(Alloc(selected, {})) /\ Quiet(Alloc(weights, {selected}))
    BY <2>1, QuietBlocks
  <2> QED
    BY <1>2, <2>2, PlainItems DEF S, Plain, Quiet
<1>5. Quiet(first)
  <2> DEFINE S == {Block(c, "context", 0, 1)}
  <2>1. (\A b \in S : b.name \notin Range(RowNames)) /\ Block(c, "context", 0, 1) \in S /\ {} \subseteq S
    BY <1>3
  <2> HIDE DEF S
  <2> QED
    BY <1>3, <2>1, QuietBlocks
<1>6. Steady(keep(FixedBlocks(c, o), {}))
  <2>1. PICK S : FixedBlocks(c, o) \in Seq(S) /\ \A b \in S : b.name \notin Range(RowNames)
    BY FixedNames
  <2>2. \A b \in S \cup {} : b.name \notin Range(RowNames)
    BY <2>1
  <2> QED
    BY <2>1, <2>2, SteadyKept
<1>7. Steady(keep(SequenceBlocks(c, o), {selected, weights}))
  <2>1. PICK S : SequenceBlocks(c, o) \in Seq(S) /\ \A b \in S : b.name \notin Range(RowNames)
    BY SequenceNames
  <2>2. \A b \in S \cup {selected, weights} : b.name \notin Range(RowNames)
    BY <1>3, <2>1
  <2> QED
    BY <2>1, <2>2, SteadyKept
<1>8. Steady(late)
  BY <1>7, SteadyNothing
<1> HIDE DEF keep, late
<1>9. /\ Steady(<<first, Reserve(rows)>>) /\ Steady(<<Alloc(selected, {}), Alloc(weights, {selected})>>)
      /\ Steady(<<Become({selected, weights})>>)
  BY <1>4, <1>5, SteadySome
<1> QED
  BY <1>1, <1>6, <1>8, <1>9, SteadyJoin

\* A first generation allocates buffers of other names.
LEMMA SteadyGeneration == ASSUME NEW c PROVE Steady(GenerationItems(c))
<1> DEFINE usable == Min({options[c].max_tokens, model.config.max_length})
           width == model.config.unpadded
           new == <<Block(c, "generation", 0, 1), Block(c, "prefix", 0, usable),
                    Block(c, "logits", 0, width), Block(c, "candidates", 0, width)>>
           s == [i \in 1..4 |-> Alloc(new[i], {new[j] : j \in 1..i - 1})]
<1>1. GenerationItems(c) = IF new[1] \in held[c] THEN <<>> ELSE s \o <<Become(Range(new))>>
  BY DEF GenerationItems
<1>2. new = [i \in 1..4 |-> new[i]]
  OBVIOUS
<1>3. \A i \in 1..4 : new[i].name \in {"generation", "prefix", "logits", "candidates"}
  BY DEF Block
<1> HIDE DEF new
<1>4. Range(new) = {new[i] : i \in 1..4}
  BY <1>2, ListIs
<1>5. \A b \in Range(new) : b.name \notin Range(RowNames)
  BY <1>3, <1>4, RowNamesAre
<1>6. \A i \in 1..4 : Quiet(Alloc(new[i], {new[j] : j \in 1..i - 1}))
  <2>1. \A i \in 1..4 : new[i] \in Range(new) /\ {new[j] : j \in 1..i - 1} \subseteq Range(new)
    BY <1>4
  <2> QED
    BY <1>5, <2>1, QuietBlocks
<1>7. Quiet(Become(Range(new)))
  BY <1>5, QuietBlocks
<1>8. s = [i \in 1..4 |-> s[i]] /\ \A i \in 1..4 : Quiet(s[i])
  BY <1>6
<1> HIDE DEF s
<1>9. Steady(s) /\ Steady(<<Become(Range(new))>>) /\ Steady(<<>>)
  BY <1>7, <1>8, SteadyListed, SteadySome, SteadyNothing
<1> QED
  BY <1>1, <1>9, SteadyJoin

\* A sequence of whatever items.
IsList(s) == s \in Seq(Range(s))

\* Short ones are.
LEMMA ListedShort ==
  /\ IsList(<<>>) /\ (\A x : IsList(<<x>>)) /\ (\A x, y : IsList(<<x, y>>))
  /\ (\A x, y, z : IsList(<<x, y, z>>)) /\ (\A w, x, y, z : IsList(<<w, x, y, z>>))
<1>1. IsList(<<>>)
  BY EmptySeq DEF IsList, Range
<1>2. ASSUME NEW x PROVE IsList(<<x>>)
  <2>1. <<x>> = [i \in 1..1 |-> <<x>>[i]]
    OBVIOUS
  <2> QED
    BY <2>1, ListIs DEF IsList
<1>3. ASSUME NEW x, NEW y PROVE IsList(<<x, y>>)
  <2>1. <<x, y>> = [i \in 1..2 |-> <<x, y>>[i]]
    OBVIOUS
  <2> QED
    BY <2>1, ListIs DEF IsList
<1>4. ASSUME NEW x, NEW y, NEW z PROVE IsList(<<x, y, z>>)
  <2>1. <<x, y, z>> = [i \in 1..3 |-> <<x, y, z>>[i]]
    OBVIOUS
  <2> QED
    BY <2>1, ListIs DEF IsList
<1>5. ASSUME NEW w, NEW x, NEW y, NEW z PROVE IsList(<<w, x, y, z>>)
  <2>1. <<w, x, y, z>> = [i \in 1..4 |-> <<w, x, y, z>>[i]]
    OBVIOUS
  <2> QED
    BY <2>1, ListIs DEF IsList
<1> QED
  BY <1>1, <1>2, <1>3, <1>4, <1>5

\* Longer ones.
LEMMA ListedLong ==
  /\ \A q, r, s, t, u, w, x, y : IsList(<<q, r, s, t, u, w, x, y>>)
  /\ \A q, r, s, t, u, w, x, y, z : IsList(<<q, r, s, t, u, w, x, y, z>>)
  /\ \A s, t, u, w, x : IsList(<<s, t, u, w, x>>)
<1>1. ASSUME NEW q, NEW r, NEW s, NEW t, NEW u, NEW w, NEW x, NEW y
      PROVE  IsList(<<q, r, s, t, u, w, x, y>>)
  <2> DEFINE v == <<q, r, s, t, u, w, x, y>>
  <2>1. v = [i \in 1..8 |-> v[i]]
    OBVIOUS
  <2> QED
    BY <2>1, ListIs DEF IsList
<1>2. ASSUME NEW q, NEW r, NEW s, NEW t, NEW u, NEW w, NEW x, NEW y, NEW z
      PROVE  IsList(<<q, r, s, t, u, w, x, y, z>>)
  <2> DEFINE v == <<q, r, s, t, u, w, x, y, z>>
  <2>1. v = [i \in 1..9 |-> v[i]]
    OBVIOUS
  <2> QED
    BY <2>1, ListIs DEF IsList
<1>3. ASSUME NEW s, NEW t, NEW u, NEW w, NEW x PROVE IsList(<<s, t, u, w, x>>)
  <2> DEFINE v == <<s, t, u, w, x>>
  <2>1. v = [i \in 1..5 |-> v[i]]
    OBVIOUS
  <2> QED
    BY <2>1, ListIs DEF IsList
<1> QED
  BY <1>1, <1>2, <1>3

\* Joined, and flattened.
LEMMA ListedJoin == ASSUME NEW s, NEW t, IsList(s), IsList(t) PROVE IsList(s \o t)
BY ElementsOfTwo DEF IsList

\* A list of lists.
LEMMA ListedFlatten ==
  ASSUME NEW n \in Nat, NEW parts, parts = [k \in 1..n |-> parts[k]],
         \A k \in 1..n : IsList(parts[k])
  PROVE  IsList(FlattenSeq(parts))
<1>1. FlattenSeq(parts) \in Seq(UNION {Range(parts[k]) : k \in 1..n})
  BY ElementsOfMany DEF IsList
<1> QED
  BY <1>1, ElementsAre DEF IsList

-------------------------------------------------------------------------------
(***************************************************************************)
(* The blocks of a session.  A call is planned when each of its items      *)
(* finds certain loose blocks, frees exactly these when it fails, and      *)
(* leaves those that the next one is to find.  Plans that follow each      *)
(* other make one, and so do those that a loop makes.                      *)
(***************************************************************************)

NamesOf(o) == IF o = "model" THEN ClosedNames ELSE FreedNames
Key(b) == <<b.name, b.index>>
Apart(X, Y) == \A x \in X, y \in Y : Key(x) # Key(y)

\* An item of owner w that finds the loose blocks A, frees them when it fails
\* and leaves the loose blocks B when it succeeds.  F has the fields it is about.
Follows(w, item, A, B, F) ==
  /\ item.rows \in Nat /\ (item.rows > 0 => A = {} /\ B = {} /\ w # "model") /\ item.scratch = -1
  /\ item.may => item.undo = A
  /\ item.drop \cup item.own \subseteq A \cup item.take
  /\ B = (A \cup item.take) \ (item.drop \cup item.own)
  /\ item.drop \cap item.own = {}
  /\ \A b \in item.own : b.name \in NamesOf(w)
  /\ \A b \in item.take : b.owner = w
  /\ \A b \in item.take \cup item.own : b.name \in NamesOf(w) => Key(b) \in F

\* A sequence of them, that leaves no two blocks in the same field.
Plan(w, s, A, B, F) ==
  /\ s \in Seq(Range(s))
  /\ \E L :
       /\ L[1] = A /\ L[Len(s) + 1] = B
       /\ \A i \in 1..Len(s) : Follows(w, s[i], L[i], L[i + 1], F)
  /\ \A i, j \in 1..Len(s) : i < j => Apart(s[i].own, s[j].take \cup s[j].own)

\* Two such sequences make one when what the first leaves in fields is no
\* concern of the second.
LEMMA PlanTwo ==
  ASSUME NEW w, NEW s, NEW t, NEW A, NEW B, NEW C, NEW F, NEW G,
         Plan(w, s, A, B, F), Plan(w, t, B, C, G),
         \A i \in 1..Len(s), j \in 1..Len(t) : Apart(s[i].own, t[j].take \cup t[j].own)
  PROVE  Plan(w, s \o t, A, C, F \cup G)
<1> DEFINE m == Len(s)
           n == Len(t)
           u == s \o t
<1>1. s \in Seq(Range(s)) /\ t \in Seq(Range(t)) /\ m \in Nat /\ n \in Nat
  BY ElementsAre DEF Plan
<1>2. u \in Seq(Range(u)) /\ Range(u) = Range(s) \cup Range(t)
  BY <1>1, ElementsOfTwo
<1>3. /\ Len(u) = m + n
      /\ \A i \in 1..m : i \in 1..m + n /\ u[i] = s[i]
      /\ \A i \in m + 1..m + n : i - m \in 1..n /\ u[i] = t[i - m]
  <2> DEFINE S == Range(s) \cup Range(t)
  <2>1. Range(s) \subseteq S /\ Range(t) \subseteq S
    OBVIOUS
  <2> HIDE DEF S
  <2>2. \A v, T : v \in Seq(T) /\ T \subseteq S => v \in Seq(S)
    OBVIOUS
  <2>3. s \in Seq(S) /\ t \in Seq(S)
    BY <1>1, <2>1, <2>2
  <2> QED
    BY <1>1, <2>3, ConcatProperties
<1>4. PICK L : /\ L[1] = A /\ L[m + 1] = B
               /\ \A i \in 1..m : Follows(w, s[i], L[i], L[i + 1], F)
  BY DEF Plan
<1>5. PICK M : /\ M[1] = B /\ M[n + 1] = C
               /\ \A i \in 1..n : Follows(w, t[i], M[i], M[i + 1], G)
  BY DEF Plan
<1> DEFINE K == [i \in 1..m + n + 1 |-> IF i <= m THEN L[i] ELSE M[i - m]]
<1>6. K[1] = A /\ K[m + n + 1] = C
  <2>1. CASE m = 0
    BY <1>1, <1>4, <1>5, <2>1
  <2>2. CASE m # 0
    <3>1. 1 <= m /\ ~(m + n + 1 <= m) /\ m + n + 1 - m = n + 1 /\ 1 \in 1..m + n + 1
          /\ m + n + 1 \in 1..m + n + 1
      BY <1>1, <2>2
    <3> QED
      BY <1>4, <1>5, <3>1
  <2> QED
    BY <2>1, <2>2
<1>7. ASSUME NEW i \in 1..m PROVE Follows(w, u[i], K[i], K[i + 1], F \cup G)
  <2>1. K[i] = L[i] /\ K[i + 1] = L[i + 1]
    <3>1. K[i] = L[i] /\ i + 1 \in 1..m + n + 1
      BY <1>1
    <3>2. CASE i = m
      BY <1>1, <1>4, <1>5, <3>1, <3>2
    <3>3. CASE i # m
      BY <1>1, <3>1, <3>3
    <3> QED
      BY <3>2, <3>3
  <2> QED
    BY <1>3, <1>4, <2>1 DEF Follows
<1>8. ASSUME NEW i \in m + 1..m + n PROVE Follows(w, u[i], K[i], K[i + 1], F \cup G)
  <2>1. K[i] = M[i - m] /\ K[i + 1] = M[i - m + 1] /\ i - m \in 1..n
    BY <1>1
  <2> QED
    BY <1>3, <1>5, <2>1 DEF Follows
<1>9. \A i \in 1..m + n : i \in 1..m \/ i \in m + 1..m + n
  BY <1>1
<1>10. ASSUME NEW i \in 1..m + n, NEW j \in 1..m + n, i < j
       PROVE  Apart(u[i].own, u[j].take \cup u[j].own)
  <2>1. CASE i \in 1..m /\ j \in 1..m
    BY <1>3, <1>10, <2>1 DEF Plan
  <2>2. CASE i \in m + 1..m + n /\ j \in m + 1..m + n
    <3>1. i - m < j - m /\ i - m \in 1..n /\ j - m \in 1..n
      BY <1>1, <1>10, <2>2
    <3> QED
      BY <1>3, <2>2, <3>1 DEF Plan
  <2>3. CASE i \in 1..m /\ j \in m + 1..m + n
    BY <1>3, <2>3
  <2>4. (i \in 1..m \/ i \in m + 1..m + n) /\ (j \in 1..m \/ j \in m + 1..m + n)
    BY <1>9
  <2>5. ~(i \in m + 1..m + n /\ j \in 1..m)
    <3> HIDE DEF m, n
    <3> QED
      BY <1>1, <1>10
  <2> HIDE DEF u, m, n
  <2> QED
    BY <2>1, <2>2, <2>3, <2>4, <2>5
<1>11. \A i \in 1..m + n : Follows(w, u[i], K[i], K[i + 1], F \cup G)
  BY <1>7, <1>8, <1>9
<1> HIDE DEF K, u, m, n
<1> QED
  BY <1>2, <1>3, <1>6, <1>10, <1>11 DEF Plan, u

\* So do those that are about different fields.
LEMMA PlanJoin ==
  ASSUME NEW w, NEW s, NEW t, NEW A, NEW B, NEW C, NEW F, NEW G,
         Plan(w, s, A, B, F), Plan(w, t, B, C, G), F \cap G = {}
  PROVE  Plan(w, s \o t, A, C, F \cup G)
<1>1. ASSUME NEW i \in 1..Len(s), NEW j \in 1..Len(t)
      PROVE  Apart(s[i].own, t[j].take \cup t[j].own)
  <2>1. PICK D, E : Follows(w, s[i], D, E, F)
    BY DEF Plan
  <2>2. PICK C1, C2 : Follows(w, t[j], C1, C2, G)
    BY DEF Plan
  <2>3. \A x \in s[i].own : x.name \in NamesOf(w) /\ Key(x) \in F
    BY <2>1 DEF Follows
  <2>4. \A y \in t[j].take \cup t[j].own : y.name \in NamesOf(w) => Key(y) \in G
    BY <2>2 DEF Follows
  <2>5. \A x, y : Key(x) = Key(y) => x.name = y.name
    BY DEF Key
  <2> QED
    BY <2>3, <2>4, <2>5 DEF Apart
<1> QED
  BY <1>1, PlanTwo

\* A sequence given by number, of which only item p leaves blocks in fields.
LEMMA PlanListed ==
  ASSUME NEW w, NEW n \in Nat, NEW s, s = [i \in 1..n |-> s[i]], NEW F, NEW L,
         \A i \in 1..n : Follows(w, s[i], L[i], L[i + 1], F),
         NEW p, \A i \in 1..n : i # p => s[i].own = {},
         \A i \in 1..n : i > p => s[i].take = {}
  PROVE  Plan(w, s, L[1], L[n + 1], F)
<1>1. s \in Seq(Range(s)) /\ Len(s) = n
  <2>1. s \in Seq(Range(s))
    BY ListIs
  <2>2. DOMAIN s = 1..n
    OBVIOUS
  <2> QED
    BY <2>1, <2>2, LenProperties
<1>2. ASSUME NEW i \in 1..n, NEW j \in 1..n, i < j
      PROVE  Apart(s[i].own, s[j].take \cup s[j].own)
  <2>1. CASE i # p
    BY <2>1 DEF Apart
  <2>2. CASE i = p
    <3>1. j # p /\ j > p
      BY <1>2, <2>2
    <3>2. s[j].own = {} /\ s[j].take = {}
      BY <3>1
    <3> QED
      BY <3>2 DEF Apart
  <2> QED
    BY <2>1, <2>2
<1> QED
  BY <1>1, <1>2 DEF Plan

\* No items, ...
LEMMA PlanNone == ASSUME NEW w, NEW A, NEW F PROVE Plan(w, <<>>, A, A, F)
<1> DEFINE L == <<A>>
<1>1. L[1] = A /\ L[0 + 1] = A
  OBVIOUS
<1>2. Len(<<>>) = 0 /\ <<>> \in Seq(Range(<<>>))
  BY EmptySeq DEF Range
<1>3. 1..0 = {}
  OBVIOUS
<1> HIDE DEF L
<1> QED
  BY <1>1, <1>2, <1>3 DEF Plan

\* ... and one.
LEMMA PlanOne ==
  ASSUME NEW w, NEW x, NEW A, NEW B, NEW F, Follows(w, x, A, B, F)
  PROVE  Plan(w, <<x>>, A, B, F)
<1> DEFINE s == <<x>>
           L == <<A, B>>
<1>1. s = [i \in 1..1 |-> s[i]] /\ L[1] = A /\ L[1 + 1] = B
  OBVIOUS
<1>2. \A i \in 1..1 : i = 1 /\ s[i] = x
  OBVIOUS
<1> HIDE DEF s, L
<1>3. \A i \in 1..1 : Follows(w, s[i], L[i], L[i + 1], F)
  BY <1>1, <1>2
<1>4. Plan(w, s, L[1], L[1 + 1], F)
  <2>1. \A i \in 1..1 : i # 1 => s[i].own = {}
    OBVIOUS
  <2>2. \A i \in 1..1 : i > 1 => s[i].take = {}
    OBVIOUS
  <2> QED
    BY <1>1, <1>3, <2>1, <2>2, PlanListed
<1> QED
  BY <1>1, <1>4 DEF s

\* More fields may be allowed.
LEMMA PlanWider ==
  ASSUME NEW w, NEW s, NEW A, NEW B, NEW F, NEW G, Plan(w, s, A, B, F), F \subseteq G
  PROVE  Plan(w, s, A, B, G)
<1>1. \A x, C, D : Follows(w, x, C, D, F) => Follows(w, x, C, D, G)
  BY DEF Follows
<1> QED
  BY <1>1 DEF Plan

\* When the first item is done, the rest is still planned, and about other fields.
LEMMA PlanTail ==
  ASSUME NEW w, NEW s, NEW A, NEW B, NEW F, Plan(w, s, A, B, F), s # <<>>
  PROVE  \E C : /\ Follows(w, Head(s), A, C, F) /\ Plan(w, Tail(s), C, B, F)
                /\ \A i \in 1..Len(Tail(s)) :
                     Apart(Head(s).own, Tail(s)[i].take \cup Tail(s)[i].own)
<1> DEFINE n == Len(s)
           t == Tail(s)
<1>1. s \in Seq(Range(s))
  BY DEF Plan
<1>2. /\ n \in Nat \ {0} /\ Head(s) = s[1] /\ Len(t) = n - 1 /\ t \in Seq(Range(s))
      /\ \A i \in 1..n - 1 : t[i] = s[i + 1] /\ i + 1 \in 1..n
  BY <1>1, HeadTailProperties, EmptySeq
<1>3. t \in Seq(Range(t))
  BY <1>2, ElementsAre
<1>4. PICK L : /\ L[1] = A /\ L[n + 1] = B
               /\ \A i \in 1..n : Follows(w, s[i], L[i], L[i + 1], F)
  BY DEF Plan
<1> DEFINE M == [i \in 1..n |-> L[i + 1]]
<1> HIDE DEF n, t
<1>5. M[1] = L[2] /\ M[n] = B /\ \A i \in 1..n - 1 : M[i] = L[i + 1] /\ M[i + 1] = L[i + 1 + 1]
  BY <1>2, <1>4
<1>6. \A i \in 1..n - 1 : Follows(w, t[i], M[i], M[i + 1], F)
  BY <1>2, <1>4, <1>5
<1>7. ASSUME NEW i \in 1..n - 1, NEW j \in 1..n - 1, i < j
      PROVE  Apart(t[i].own, t[j].take \cup t[j].own)
  <2>1. i + 1 < j + 1
    BY <1>2, <1>7
  <2> QED
    BY <1>2, <2>1 DEF Plan, n
<1>8. ASSUME NEW i \in 1..n - 1 PROVE Apart(s[1].own, t[i].take \cup t[i].own)
  <2>1. 1 < i + 1 /\ 1 \in 1..n
    BY <1>2
  <2> QED
    BY <1>2, <2>1 DEF Plan, n
<1>9. Follows(w, s[1], A, L[2], F)
  BY <1>2, <1>4
<1>10. Plan(w, t, L[2], B, F)
  <2>1. n - 1 + 1 = n
    BY <1>2
  <2> HIDE DEF M
  <2> QED
    BY <1>2, <1>3, <1>5, <1>6, <1>7, <2>1 DEF Plan
<1> QED
  BY <1>2, <1>8, <1>9, <1>10 DEF t

\* A sequence given by number.
Numbered(n, s) == s = [k \in 1..n |-> s[k]]

\* Many sequences about different fields, that leave the loose blocks as they
\* found them.
LEMMA PlanMany ==
  ASSUME NEW w, NEW n \in Nat, NEW parts, Numbered(n, parts),
         NEW A, NEW G, \A k \in 1..n : Plan(w, parts[k], A, A, G[k]),
         \A j, k \in 1..n : j # k => G[j] \cap G[k] = {},
         NEW F, \A k \in 1..n : G[k] \subseteq F
  PROVE  Plan(w, FlattenSeq(parts), A, A, F)
<1> DEFINE S == UNION {Range(parts[k]) : k \in 1..n}
           U(m) == UNION {G[k] : k \in 1..m}
<1>1. parts \in [1..n -> Seq(S)]
  <2>1. \A k \in 1..n : parts[k] \in Seq(Range(parts[k])) /\ Range(parts[k]) \subseteq S
    BY DEF Plan
  <2> HIDE DEF S
  <2>2. \A v, T : v \in Seq(T) /\ T \subseteq S => v \in Seq(S)
    OBVIOUS
  <2> QED
    BY <2>1, <2>2 DEF Numbered
<1>2. CASE n = 0
  <2>1. Len(parts) = 0
    BY <1>2 DEF Numbered
  <2>2. FlattenSeq(parts) = <<>>
    BY <2>1 DEF FlattenSeq
  <2> QED
    BY <2>2, PlanNone
<1>3. CASE n # 0
  <2> HIDE DEF S
  <2>1. PICK f \in [1..n -> Seq(S)] : Flattens(f, parts, n)
    BY <1>1, <1>3, FlattenIs
  <2> DEFINE Bad == {m \in 1..n : ~Plan(w, f[m], A, A, U(m))}
  <2>2. ASSUME Bad # {} PROVE FALSE
    <3>1. Bad \in SUBSET Nat
      OBVIOUS
    <3> HIDE DEF Bad
    <3>2. PICK m \in Bad : \A k \in Bad : m <= k
      BY <2>2, <3>1, LeastNatural
    <3> USE DEF Bad
    <3>3. m \in 1..n /\ ~Plan(w, f[m], A, A, U(m))
      OBVIOUS
    <3>4. CASE m = 1
      <4>1. f[m] = parts[1]
        BY <2>1, <3>3, <3>4 DEF Flattens
      <4>2. U(m) = G[1]
        BY <3>4
      <4>3. Plan(w, parts[1], A, A, G[1])
        BY <3>3, <3>4
      <4> HIDE DEF U, Bad
      <4> QED
        BY <3>3, <4>1, <4>2, <4>3
    <3>5. CASE m # 1
      <4>1. m - 1 \in 1..n /\ m - 1 \notin Bad
        BY <3>2, <3>3, <3>5
      <4>2. Plan(w, f[m - 1], A, A, U(m - 1))
        BY <4>1
      <4>3. U(m - 1) \cap G[m] = {}
        <5>1. \A k \in 1..m - 1 : k \in 1..n /\ k # m
          BY <3>3
        <5> QED
          BY <3>3, <5>1
      <4>4. U(m) = U(m - 1) \cup G[m]
        <5>1. \A k \in 1..m : k \in 1..m - 1 \/ k = m
          BY <3>3
        <5>2. 1..m - 1 \subseteq 1..m /\ m \in 1..m
          BY <3>3
        <5> HIDE DEF Bad
        <5>3. U(m) \subseteq U(m - 1) \cup G[m]
          BY <5>1
        <5> QED
          BY <5>2, <5>3
      <4>5. f[m] = f[m - 1] \o parts[m]
        <5>1. m \in 2..n
          BY <3>3, <3>5
        <5> HIDE DEF U, Bad
        <5> QED
          BY <2>1, <5>1 DEF Flattens
      <4> HIDE DEF U, Bad
      <4>6. Plan(w, f[m - 1] \o parts[m], A, A, U(m - 1) \cup G[m])
        BY <3>3, <4>2, <4>3, PlanJoin
      <4> QED
        BY <3>3, <4>4, <4>5, <4>6
    <3> QED
      BY <3>4, <3>5
  <2>3. Plan(w, f[n], A, A, U(n))
    <3>1. n \in 1..n
      BY <1>3
    <3>2. Bad = {}
      <4> HIDE DEF Bad
      <4> QED
        BY <2>2
    <3> HIDE DEF U
    <3> QED
      BY <3>1, <3>2
  <2>4. FlattenSeq(parts) = f[n]
    BY <2>1 DEF Flattens
  <2>5. U(n) \subseteq F
    OBVIOUS
  <2> HIDE DEF U
  <2> QED
    BY <2>3, <2>4, <2>5, PlanWider
<1> QED
  BY <1>2, <1>3

\* One item more in front of a sequence: either it leaves no blocks in fields, ...
\* or the others are about no fields.
LEMMA PlanThen ==
  ASSUME NEW w, NEW F, NEW x, NEW t, NEW A, NEW B, NEW C, Follows(w, x, A, B, F)
  PROVE  /\ x.own = {} /\ Plan(w, t, B, C, F) => Plan(w, <<x>> \o t, A, C, F)
         /\ Plan(w, t, B, C, {}) => Plan(w, <<x>> \o t, A, C, F)
<1>1. Plan(w, <<x>>, A, B, F)
  BY PlanOne
<1>2. ASSUME x.own = {}, Plan(w, t, B, C, F) PROVE Plan(w, <<x>> \o t, A, C, F)
  <2> DEFINE s == <<x>>
  <2>1. \A i \in 1..Len(s) : s[i] = x
    OBVIOUS
  <2>2. \A y : Apart({}, y)
    BY DEF Apart
  <2> HIDE DEF s
  <2>3. \A i \in 1..Len(s), j \in 1..Len(t) : Apart(s[i].own, t[j].take \cup t[j].own)
    BY <1>2, <2>1, <2>2
  <2>4. Plan(w, s \o t, A, C, F \cup F)
    BY <1>1, <1>2, <2>3, PlanTwo DEF s
  <2>5. F \cup F = F
    OBVIOUS
  <2> QED
    BY <2>4, <2>5 DEF s
<1>3. ASSUME Plan(w, t, B, C, {}) PROVE Plan(w, <<x>> \o t, A, C, F)
  <2>1. F \cap {} = {} /\ F \cup {} = F
    OBVIOUS
  <2> QED
    BY <1>1, <1>3, <2>1, PlanJoin
<1> QED
  BY <1>2, <1>3

\* A sequence of two items: the first, and those behind it.
LEMMA Plan2 ==
  ASSUME NEW w, NEW F, NEW A, NEW B, NEW C, NEW a, NEW b,
         Follows(w, a, A, B, F)
  PROVE  /\ a.own = {} /\ Plan(w, <<b>>, B, C, F) => Plan(w, <<a, b>>, A, C, F)
         /\ Plan(w, <<b>>, B, C, {}) => Plan(w, <<a, b>>, A, C, F)
<1> DEFINE t == <<b>>
           u == <<a, b>>
<1>1. u = <<a>> \o t
  <2> DEFINE s == <<a>>
             S == {a, b}
  <2>1. /\ s \in Seq(S) /\ Len(s) = 1 /\ s[1] = a /\ t \in Seq(S) /\ Len(t) = 1 /\ t[1] = b
        /\ u \in Seq(S) /\ Len(u) = 2 /\ u[1] = a /\ u[2] = b
    OBVIOUS
  <2> HIDE DEF s, t, u, S
  <2>2. s \o t \in Seq(S) /\ Len(s \o t) = 2 /\ (s \o t)[1] = a /\ (s \o t)[2] = b
    <3>1. s \o t \in Seq(S) /\ Len(s \o t) = Len(s) + Len(t)
      BY <2>1, ConcatProperties
    <3>2. \A i \in 1..Len(s) + Len(t) :
            (s \o t)[i] = IF i <= Len(s) THEN s[i] ELSE t[i - Len(s)]
      BY <2>1, ConcatProperties
    <3>3. /\ 1 \in 1..Len(s) + Len(t) /\ 1 <= Len(s)
          /\ 2 \in 1..Len(s) + Len(t) /\ ~(2 <= Len(s)) /\ 2 - Len(s) = 1
      BY <2>1
    <3>4. (s \o t)[1] = s[1] /\ (s \o t)[2] = t[1]
      BY <3>2, <3>3
    <3> QED
      BY <2>1, <3>1, <3>4
  <2>3. \A i \in 1..2 : u[i] = (s \o t)[i]
    BY <2>1, <2>2
  <2>4. u = s \o t
    BY <2>1, <2>2, <2>3, SeqEqual
  <2> QED
    BY <2>4 DEF s
<1> HIDE DEF t, u
<1>2. /\ a.own = {} /\ Plan(w, t, B, C, F) => Plan(w, u, A, C, F)
      /\ Plan(w, t, B, C, {}) => Plan(w, u, A, C, F)
  BY <1>1, PlanThen
<1> QED
  BY <1>2 DEF t, u

\* A sequence of three items: the first, and those behind it.
LEMMA Plan3 ==
  ASSUME NEW w, NEW F, NEW A, NEW B, NEW C, NEW a, NEW b, NEW c,
         Follows(w, a, A, B, F)
  PROVE  /\ a.own = {} /\ Plan(w, <<b, c>>, B, C, F) => Plan(w, <<a, b, c>>, A, C, F)
         /\ Plan(w, <<b, c>>, B, C, {}) => Plan(w, <<a, b, c>>, A, C, F)
<1> DEFINE t == <<b, c>>
           u == <<a, b, c>>
<1>1. u = <<a>> \o t
  OBVIOUS
<1> HIDE DEF t, u
<1>2. /\ a.own = {} /\ Plan(w, t, B, C, F) => Plan(w, u, A, C, F)
      /\ Plan(w, t, B, C, {}) => Plan(w, u, A, C, F)
  BY <1>1, PlanThen
<1> QED
  BY <1>2 DEF t, u

\* A sequence of four items: the first, and those behind it.
LEMMA Plan4 ==
  ASSUME NEW w, NEW F, NEW A, NEW B, NEW C, NEW a, NEW b, NEW c, NEW d,
         Follows(w, a, A, B, F)
  PROVE  /\ a.own = {} /\ Plan(w, <<b, c, d>>, B, C, F) => Plan(w, <<a, b, c, d>>, A, C, F)
         /\ Plan(w, <<b, c, d>>, B, C, {}) => Plan(w, <<a, b, c, d>>, A, C, F)
<1> DEFINE t == <<b, c, d>>
           u == <<a, b, c, d>>
<1>1. u = <<a>> \o t
  OBVIOUS
<1> HIDE DEF t, u
<1>2. /\ a.own = {} /\ Plan(w, t, B, C, F) => Plan(w, u, A, C, F)
      /\ Plan(w, t, B, C, {}) => Plan(w, u, A, C, F)
  BY <1>1, PlanThen
<1> QED
  BY <1>2 DEF t, u

\* A sequence of five items: the first, and those behind it.
LEMMA Plan5 ==
  ASSUME NEW w, NEW F, NEW A, NEW B, NEW C, NEW a, NEW b, NEW c, NEW d, NEW e,
         Follows(w, a, A, B, F)
  PROVE  /\ a.own = {} /\ Plan(w, <<b, c, d, e>>, B, C, F) => Plan(w, <<a, b, c, d, e>>, A, C, F)
         /\ Plan(w, <<b, c, d, e>>, B, C, {}) => Plan(w, <<a, b, c, d, e>>, A, C, F)
<1> DEFINE t == <<b, c, d, e>>
           u == <<a, b, c, d, e>>
<1>1. u = <<a>> \o t
  OBVIOUS
<1> HIDE DEF t, u
<1>2. /\ a.own = {} /\ Plan(w, t, B, C, F) => Plan(w, u, A, C, F)
      /\ Plan(w, t, B, C, {}) => Plan(w, u, A, C, F)
  BY <1>1, PlanThen
<1> QED
  BY <1>2 DEF t, u

\* A sequence of six items: the first, and those behind it.
LEMMA Plan6 ==
  ASSUME NEW w, NEW F, NEW A, NEW B, NEW C, NEW a, NEW b, NEW c, NEW d, NEW e, NEW f,
         Follows(w, a, A, B, F)
  PROVE  /\ a.own = {} /\ Plan(w, <<b, c, d, e, f>>, B, C, F) => Plan(w, <<a, b, c, d, e, f>>, A, C, F)
         /\ Plan(w, <<b, c, d, e, f>>, B, C, {}) => Plan(w, <<a, b, c, d, e, f>>, A, C, F)
<1> DEFINE t == <<b, c, d, e, f>>
           u == <<a, b, c, d, e, f>>
<1>1. u = <<a>> \o t
  OBVIOUS
<1> HIDE DEF t, u
<1>2. /\ a.own = {} /\ Plan(w, t, B, C, F) => Plan(w, u, A, C, F)
      /\ Plan(w, t, B, C, {}) => Plan(w, u, A, C, F)
  BY <1>1, PlanThen
<1> QED
  BY <1>2 DEF t, u

\* A sequence of seven items: the first, and those behind it.
LEMMA Plan7 ==
  ASSUME NEW w, NEW F, NEW A, NEW B, NEW C, NEW a, NEW b, NEW c, NEW d, NEW e, NEW f, NEW g,
         Follows(w, a, A, B, F)
  PROVE  /\ a.own = {} /\ Plan(w, <<b, c, d, e, f, g>>, B, C, F) => Plan(w, <<a, b, c, d, e, f, g>>, A, C, F)
         /\ Plan(w, <<b, c, d, e, f, g>>, B, C, {}) => Plan(w, <<a, b, c, d, e, f, g>>, A, C, F)
<1> DEFINE t == <<b, c, d, e, f, g>>
           u == <<a, b, c, d, e, f, g>>
<1>1. u = <<a>> \o t
  OBVIOUS
<1> HIDE DEF t, u
<1>2. /\ a.own = {} /\ Plan(w, t, B, C, F) => Plan(w, u, A, C, F)
      /\ Plan(w, t, B, C, {}) => Plan(w, u, A, C, F)
  BY <1>1, PlanThen
<1> QED
  BY <1>2 DEF t, u

\* A sequence of eight items: the first, and those behind it.
LEMMA Plan8 ==
  ASSUME NEW w, NEW F, NEW A, NEW B, NEW C, NEW a, NEW b, NEW c, NEW d, NEW e, NEW f, NEW g, NEW h,
         Follows(w, a, A, B, F)
  PROVE  /\ a.own = {} /\ Plan(w, <<b, c, d, e, f, g, h>>, B, C, F) => Plan(w, <<a, b, c, d, e, f, g, h>>, A, C, F)
         /\ Plan(w, <<b, c, d, e, f, g, h>>, B, C, {}) => Plan(w, <<a, b, c, d, e, f, g, h>>, A, C, F)
<1> DEFINE t == <<b, c, d, e, f, g, h>>
           u == <<a, b, c, d, e, f, g, h>>
<1>1. u = <<a>> \o t
  OBVIOUS
<1> HIDE DEF t, u
<1>2. /\ a.own = {} /\ Plan(w, t, B, C, F) => Plan(w, u, A, C, F)
      /\ Plan(w, t, B, C, {}) => Plan(w, u, A, C, F)
  BY <1>1, PlanThen
<1> QED
  BY <1>2 DEF t, u

\* A sequence of nine items: the first, and those behind it.
LEMMA Plan9 ==
  ASSUME NEW w, NEW F, NEW A, NEW B, NEW C, NEW a, NEW b, NEW c, NEW d, NEW e, NEW f, NEW g, NEW h, NEW i,
         Follows(w, a, A, B, F)
  PROVE  /\ a.own = {} /\ Plan(w, <<b, c, d, e, f, g, h, i>>, B, C, F) => Plan(w, <<a, b, c, d, e, f, g, h, i>>, A, C, F)
         /\ Plan(w, <<b, c, d, e, f, g, h, i>>, B, C, {}) => Plan(w, <<a, b, c, d, e, f, g, h, i>>, A, C, F)
<1> DEFINE t == <<b, c, d, e, f, g, h, i>>
           u == <<a, b, c, d, e, f, g, h, i>>
<1>1. u = <<a>> \o t
  OBVIOUS
<1> HIDE DEF t, u
<1>2. /\ a.own = {} /\ Plan(w, t, B, C, F) => Plan(w, u, A, C, F)
      /\ Plan(w, t, B, C, {}) => Plan(w, u, A, C, F)
  BY <1>1, PlanThen
<1> QED
  BY <1>2 DEF t, u

\* What the kinds of items do with the loose blocks.
LEMMA FollowsAlloc ==
  ASSUME NEW w, NEW A, NEW B, NEW F, NEW b,
         b.owner = w, b.name \in NamesOf(w) => Key(b) \in F, B = A \cup {b}
  PROVE  Follows(w, Alloc(b, A), A, B, F)
BY DEF Follows, Alloc, Item

\* The same of one that is left in a field at once, ...
LEMMA FollowsKeep ==
  ASSUME NEW w, NEW A, NEW F, NEW b, b.owner = w, b.name \in NamesOf(w), Key(b) \in F, b \notin A
  PROVE  Follows(w, Keep(b, A), A, A, F)
BY DEF Follows, Keep, Alloc, Item

\* ... of a test, ...
LEMMA FollowsTest ==
  \A w, A, F, pass : Follows(w, Test(pass, A), A, A, F)
BY DEF Follows, Test, Item

\* ... of what is freed, ...
LEMMA FollowsFree ==
  ASSUME NEW w, NEW A, NEW B, NEW F, NEW X, X \subseteq A, B = A \ X
  PROVE  Follows(w, Free(X), A, B, F)
BY DEF Follows, Free, Item

\* ... and of what is left in fields.
LEMMA FollowsBecome ==
  ASSUME NEW w, NEW A, NEW B, NEW F, NEW X, X \subseteq A, B = A \ X,
         \A b \in X : b.name \in NamesOf(w) /\ Key(b) \in F
  PROVE  Follows(w, Become(X), A, B, F)
BY DEF Follows, Become, Item

\* Only two of them take blocks, and two leave blocks in fields.
LEMMA TakesAndOwns ==
  /\ \A b, A : Alloc(b, A).own = {}
  /\ \A X : Become(X).take = {}
  /\ \A pass, A : Test(pass, A).own = {} /\ Test(pass, A).take = {}
  /\ \A X : Free(X).own = {} /\ Free(X).take = {}
BY DEF Alloc, Test, Free, Become, Item

\* The names of what an open keeps in no field.
TempNames == {"path", "document", "header", "base", "directory", "parent", "joined", "raw", "scalar"}

\* None of them is the name of a field.
LEMMA TempsAre ==
  ASSUME NEW name \in TempNames
  PROVE  /\ Temp(name).owner = "model" /\ Temp(name).name = name
         /\ Temp(name).name \notin NamesOf("model")
<1>1. name \notin ClosedNames
  <2>1. \A m \in MatrixNames :
          Scales[m] \in {"q scales", "k scales", "v scales", "r scales", "o scales", "w13 scales",
                         "down scales", "shared_w13 scales", "shared_down scales", "router scales"}
    <3>1. /\ \A m \in AttentionNames :
               Scales[m] \in {"q scales", "k scales", "v scales", "r scales", "o scales"}
          /\ \A m \in MlpNames :
               Scales[m] \in {"w13 scales", "down scales", "shared_w13 scales",
                             "shared_down scales", "router scales"}
      BY DEF Scales, AttentionNames, MlpNames
    <3> QED
      BY <3>1 DEF MatrixNames
  <2>2. \A m \in MatrixNames : Scales[m] # name
    BY <2>1 DEF TempNames
  <2> QED
    BY <2>2 DEF ClosedNames, TempNames
<1> QED
  BY <1>1 DEF Temp, Own, Block, NamesOf

\* The index.
LEMMA IndexPlan ==
  ASSUME NEW F, Key(Own("entries", 0, 1)) \in F, Key(Own("slots", 0, 1)) \in F
  PROVE  Plan("model", IndexItems, {}, {}, F)
<1> DEFINE path == Temp("path")
           text == Temp("document")
           members == Own("entries", 0, 1)
           hashed == Own("slots", 0, 1)
           A0 == {}
           A1 == {path}
           A2 == {path, text}
           A3 == {path, text, members}
           A4 == {path, text, members, hashed}
           A5 == {text}
           A6 == {path, members, hashed}
           A7 == {members, hashed}
           s == <<Alloc(path, A0), Alloc(text, A1), Alloc(members, A2),
                  Alloc(hashed, A3), Test(TRUE, A4), Free(A5), Become(A7), Free(A1)>>
<1>1. IndexItems = s
  <2>1. A2 \cup {members} = A3 /\ A2 \cup {members, hashed} = A4
    OBVIOUS
  <2> QED
    BY <2>1 DEF IndexItems
<1>2. /\ path.owner = "model" /\ path.name = "path"
      /\ text.owner = "model" /\ text.name = "document"
      /\ members.owner = "model" /\ members.name = "entries"
      /\ hashed.owner = "model" /\ hashed.name = "slots"
      /\ path.name \notin NamesOf("model")
      /\ text.name \notin NamesOf("model")
      /\ members.name \in NamesOf("model") /\ Key(members) \in F
      /\ hashed.name \in NamesOf("model") /\ Key(hashed) \in F
  BY TempsAre DEF Own, Block, NamesOf, ClosedNames, TempNames
<1> HIDE DEF path, text, members, hashed
<1>3. /\ A1 = A0 \cup {path}
      /\ A2 = A1 \cup {text}
      /\ A3 = A2 \cup {members}
      /\ A4 = A3 \cup {hashed}
      /\ A5 \subseteq A4
      /\ A6 = A4 \ A5
      /\ A7 \subseteq A6
      /\ A1 = A6 \ A7
      /\ \A b \in A7 : b.name \in NamesOf("model") /\ Key(b) \in F
      /\ A1 \subseteq A1
      /\ A0 = A1 \ A1
  BY <1>2
<1> HIDE DEF A0, A1, A2, A3, A4, A5, A6, A7
<1>4. /\ Follows("model", Alloc(path, A0), A0, A1, F)
      /\ Follows("model", Alloc(text, A1), A1, A2, F)
      /\ Follows("model", Alloc(members, A2), A2, A3, F)
      /\ Follows("model", Alloc(hashed, A3), A3, A4, F)
      /\ Follows("model", Test(TRUE, A4), A4, A4, F)
      /\ Follows("model", Free(A5), A4, A6, F)
      /\ Follows("model", Become(A7), A6, A1, F)
      /\ Follows("model", Free(A1), A1, A0, {})
  BY <1>2, <1>3, FollowsAlloc, FollowsTest, FollowsFree, FollowsBecome
<1>5. Plan("model", s, A0, A0, F)
  <2>1. Plan("model", <<Free(A1)>>, A1, A0, {})
    BY <1>4, PlanOne
  <2>2. Plan("model", <<Become(A7), Free(A1)>>, A6, A0, F)
    BY <1>4, <2>1, Plan2
  <2> QED
    BY <1>4, <2>2, TakesAndOwns, Plan3, Plan4, Plan5, Plan6, Plan7, Plan8
<1> QED
  BY <1>1, <1>5 DEF A0

\* Four items between one and another.
LEMMA SixAre ==
  ASSUME NEW a, NEW b, NEW c, NEW d, NEW e, NEW f
  PROVE  <<a, b, c, d, e, f>> = <<a>> \o <<b, c, d, e>> \o <<f>>
<1> DEFINE v == <<a, b, c, d, e>>
<1>1. v = <<a>> \o <<b, c, d, e>>
  OBVIOUS
<1>2. <<a, b, c, d, e, f>> = v \o <<f>>
  OBVIOUS
<1> HIDE DEF v
<1> QED
  BY <1>1, <1>2

\* A vector.
LEMMA VectorPlan ==
  ASSUME NEW F, NEW values, values.owner = "model", values.name \in NamesOf("model"), Key(values) \in F
  PROVE  Plan("model", VectorItems(values), {}, {}, F)
<1> DEFINE raw == Temp("raw")
           A0 == {}
           A1 == {values}
           A2 == {values, raw}
           A3 == {raw}
           s == <<Test(TRUE, A0), Alloc(values, A0), Alloc(raw, A1), Test(TRUE, A2),
                  Free(A3), Become(A1)>>
<1>1. VectorItems(values) = s
  <2> DEFINE t == <<Alloc(values, A0), Alloc(raw, A1), Test(TRUE, A2), Free(A3)>>
  <2>1. {raw, values} = A2
    OBVIOUS
  <2>2. FloatsItems(values) = t
    BY <2>1 DEF FloatsItems
  <2>3. VectorItems(values) = <<Test(TRUE, A0)>> \o t \o <<Become(A1)>>
    BY <2>2 DEF VectorItems
  <2> HIDE DEF raw, A0, A1, A2, A3
  <2> DEFINE a == Test(TRUE, A0)
             b == Alloc(values, A0)
             c == Alloc(raw, A1)
             d == Test(TRUE, A2)
             e == Free(A3)
             f == Become(A1)
  <2> HIDE DEF a, b, c, d, e, f
  <2>4. <<a, b, c, d, e, f>> = <<a>> \o <<b, c, d, e>> \o <<f>>
    BY SixAre
  <2>5. s = <<Test(TRUE, A0)>> \o t \o <<Become(A1)>>
    BY <2>4 DEF a, b, c, d, e, f
  <2> QED
    BY <2>3, <2>5
<1>2. /\ raw.owner = "model" /\ raw.name = "raw"
      /\ raw.name \notin NamesOf("model")
      /\ values.name \in NamesOf("model") /\ Key(values) \in F
  BY TempsAre DEF Own, Block, NamesOf, ClosedNames, TempNames
<1> HIDE DEF raw
<1>3. /\ A1 = A0 \cup {values}
      /\ A2 = A1 \cup {raw}
      /\ A3 \subseteq A2
      /\ A1 = A2 \ A3
      /\ A1 \subseteq A1
      /\ A0 = A1 \ A1
      /\ \A b \in A1 : b.name \in NamesOf("model") /\ Key(b) \in F
  BY <1>2
<1> HIDE DEF A0, A1, A2, A3
<1>4. /\ Follows("model", Test(TRUE, A0), A0, A0, F)
      /\ Follows("model", Alloc(values, A0), A0, A1, F)
      /\ Follows("model", Alloc(raw, A1), A1, A2, F)
      /\ Follows("model", Test(TRUE, A2), A2, A2, F)
      /\ Follows("model", Free(A3), A2, A1, F)
      /\ Follows("model", Become(A1), A1, A0, F)
  BY <1>2, <1>3, FollowsAlloc, FollowsTest, FollowsFree, FollowsBecome
<1>5. Plan("model", s, A0, A0, F)
  <2>1. Plan("model", <<Become(A1)>>, A1, A0, F)
    BY <1>4, PlanOne
  <2> QED
    BY <1>4, <2>1, TakesAndOwns, Plan2, Plan3, Plan4, Plan5, Plan6
<1> QED
  BY <1>1, <1>5 DEF A0

\* A scalar.
LEMMA ScalarPlan ==
  ASSUME NEW F
  PROVE  Plan("model", ScalarItems, {}, {}, F)
<1> DEFINE scalar == Temp("scalar")
           raw == Temp("raw")
           A0 == {}
           A1 == {scalar}
           A2 == {scalar, raw}
           A3 == {raw}
           s == <<Test(TRUE, A0), Alloc(scalar, A0), Alloc(raw, A1), Test(TRUE, A2),
                  Free(A3), Free(A1)>>
<1>1. ScalarItems = s
  <2> DEFINE t == <<Alloc(scalar, A0), Alloc(raw, A1), Test(TRUE, A2), Free(A3)>>
  <2>1. {raw, scalar} = A2
    OBVIOUS
  <2>2. FloatsItems(scalar) = t
    BY <2>1 DEF FloatsItems
  <2>3. ScalarItems = <<Test(TRUE, A0)>> \o t \o <<Free(A1)>>
    BY <2>2 DEF ScalarItems
  <2> HIDE DEF raw, A0, A1, A2, A3
  <2> DEFINE a == Test(TRUE, A0)
             b == Alloc(scalar, A0)
             c == Alloc(raw, A1)
             d == Test(TRUE, A2)
             e == Free(A3)
             f == Free(A1)
  <2> HIDE DEF a, b, c, d, e, f
  <2>4. <<a, b, c, d, e, f>> = <<a>> \o <<b, c, d, e>> \o <<f>>
    BY SixAre
  <2>5. s = <<Test(TRUE, A0)>> \o t \o <<Free(A1)>>
    BY <2>4 DEF a, b, c, d, e, f
  <2> QED
    BY <2>3, <2>5
<1>2. /\ scalar.owner = "model" /\ scalar.name = "scalar"
      /\ raw.owner = "model" /\ raw.name = "raw"
      /\ scalar.name \notin NamesOf("model")
      /\ raw.name \notin NamesOf("model")
  BY TempsAre DEF TempNames
<1> HIDE DEF scalar, raw
<1>3. /\ A1 = A0 \cup {scalar}
      /\ A2 = A1 \cup {raw}
      /\ A3 \subseteq A2
      /\ A1 = A2 \ A3
      /\ A1 \subseteq A1
      /\ A0 = A1 \ A1
  BY <1>2
<1> HIDE DEF A0, A1, A2, A3
<1>4. /\ Follows("model", Test(TRUE, A0), A0, A0, F)
      /\ Follows("model", Alloc(scalar, A0), A0, A1, F)
      /\ Follows("model", Alloc(raw, A1), A1, A2, F)
      /\ Follows("model", Test(TRUE, A2), A2, A2, F)
      /\ Follows("model", Free(A3), A2, A1, F)
      /\ Follows("model", Free(A1), A1, A0, F)
  BY <1>2, <1>3, FollowsAlloc, FollowsTest, FollowsFree
<1>5. Plan("model", s, A0, A0, F)
  <2>1. Plan("model", <<Free(A1)>>, A1, A0, F)
    BY <1>4, PlanOne
  <2> QED
    BY <1>4, <2>1, TakesAndOwns, Plan2, Plan3, Plan4, Plan5, Plan6
<1> QED
  BY <1>1, <1>5 DEF A0

\* The quantization.
LEMMA QuantizationPlan ==
  ASSUME NEW F
  PROVE  Plan("model", QuantizationItems, {}, {}, F)
<1> DEFINE path == Temp("path")
           text == Temp("document")
           A0 == {}
           A1 == {path}
           A2 == {path, text}
           A3 == {text}
           s == <<Alloc(path, A0), Alloc(text, A1), Free(A1), Test(TRUE, A3), Free(A3)>>
<1>1. QuantizationItems = s
  BY DEF QuantizationItems
<1>2. /\ path.owner = "model" /\ path.name = "path"
      /\ text.owner = "model" /\ text.name = "document"
      /\ path.name \notin NamesOf("model")
      /\ text.name \notin NamesOf("model")
  BY TempsAre DEF TempNames
<1> HIDE DEF path, text
<1>3. /\ A1 = A0 \cup {path}
      /\ A2 = A1 \cup {text}
      /\ A1 \subseteq A2
      /\ A3 = A2 \ A1
      /\ A3 \subseteq A3
      /\ A0 = A3 \ A3
  BY <1>2
<1> HIDE DEF A0, A1, A2, A3
<1>4. /\ Follows("model", Alloc(path, A0), A0, A1, F)
      /\ Follows("model", Alloc(text, A1), A1, A2, F)
      /\ Follows("model", Free(A1), A2, A3, F)
      /\ Follows("model", Test(TRUE, A3), A3, A3, F)
      /\ Follows("model", Free(A3), A3, A0, F)
  BY <1>2, <1>3, FollowsAlloc, FollowsTest, FollowsFree
<1>5. Plan("model", s, A0, A0, F)
  <2>1. Plan("model", <<Free(A3)>>, A3, A0, F)
    BY <1>4, PlanOne
  <2> QED
    BY <1>4, <2>1, TakesAndOwns, Plan2, Plan3, Plan4, Plan5
<1> QED
  BY <1>1, <1>5 DEF A0

\* A shard, out of extracted ranges ...
LEMMA ShardPlan ==
  ASSUME NEW F, NEW opened, NEW k, Extracted(opened), Key(Own("shard path", k, 1)) \in F
  PROVE  Plan("model", ShardItems(opened, k), {}, {}, F)
<1> DEFINE base == Temp("base")
           path == Own("shard path", k, 1)
           header == Temp("header")
           text == Temp("document")
           A0 == {}
           A1 == {base}
           A2 == {header}
           A3 == {header, text}
           A4 == {text}
           s == <<Alloc(base, A0), Keep(path, A1), Free(A1), Alloc(header, A0),
                  Alloc(text, A2), Test(TRUE, A3), Free(A4), Test(TRUE, A2), Free(A2)>>
<1>1. ShardItems(opened, k) = s
  <2>1. {text, header} = A3
    OBVIOUS
  <2> QED
    BY <2>1 DEF ShardItems
<1>2. /\ base.owner = "model" /\ base.name = "base"
      /\ path.owner = "model" /\ path.name = "shard path"
      /\ header.owner = "model" /\ header.name = "header"
      /\ text.owner = "model" /\ text.name = "document"
      /\ base.name \notin NamesOf("model")
      /\ header.name \notin NamesOf("model")
      /\ text.name \notin NamesOf("model")
      /\ path.name \in NamesOf("model") /\ Key(path) \in F
  BY TempsAre DEF Own, Block, NamesOf, ClosedNames, TempNames
<1> HIDE DEF base, path, header, text
<1>3. /\ A1 = A0 \cup {base}
      /\ path \notin A1
      /\ A1 \subseteq A1
      /\ A0 = A1 \ A1
      /\ A2 = A0 \cup {header}
      /\ A3 = A2 \cup {text}
      /\ A4 \subseteq A3
      /\ A2 = A3 \ A4
      /\ A2 \subseteq A2
      /\ A0 = A2 \ A2
  BY <1>2
<1> HIDE DEF A0, A1, A2, A3, A4
<1>4. /\ Follows("model", Alloc(base, A0), A0, A1, F)
      /\ Follows("model", Keep(path, A1), A1, A1, F)
      /\ Follows("model", Free(A1), A1, A0, {})
      /\ Follows("model", Alloc(header, A0), A0, A2, {})
      /\ Follows("model", Alloc(text, A2), A2, A3, {})
      /\ Follows("model", Test(TRUE, A3), A3, A3, {})
      /\ Follows("model", Free(A4), A3, A2, {})
      /\ Follows("model", Test(TRUE, A2), A2, A2, {})
      /\ Follows("model", Free(A2), A2, A0, {})
  BY <1>2, <1>3, FollowsAlloc, FollowsKeep, FollowsTest, FollowsFree
<1>5. Plan("model", s, A0, A0, F)
  <2>1. Plan("model", <<Free(A2)>>, A2, A0, {})
    BY <1>4, PlanOne
  <2>2. Plan("model", <<Free(A1), Alloc(header, A0), Alloc(text, A2), Test(TRUE, A3), Free(A4), Test(TRUE, A2), Free(A2)>>, A1, A0, {})
    BY <1>4, <2>1, TakesAndOwns, Plan2, Plan3, Plan4, Plan5, Plan6, Plan7
  <2>3. Plan("model", <<Keep(path, A1), Free(A1), Alloc(header, A0), Alloc(text, A2), Test(TRUE, A3), Free(A4), Test(TRUE, A2), Free(A2)>>, A1, A0, F)
    BY <1>4, <2>2, Plan8
  <2> QED
    BY <1>4, <2>3, TakesAndOwns, Plan9
<1> QED
  BY <1>1, <1>5 DEF A0

\* ... and of a checkpoint.
LEMMA WholeShardPlan ==
  ASSUME NEW F, NEW opened, NEW k, ~Extracted(opened), Key(Own("shard path", k, 1)) \in F
  PROVE  Plan("model", ShardItems(opened, k), {}, {}, F)
<1> DEFINE path == Own("shard path", k, 1)
           header == Temp("header")
           A0 == {}
           A1 == {header}
           s == <<Keep(path, A0), Alloc(header, A0), Test(TRUE, A1), Free(A1)>>
<1>1. ShardItems(opened, k) = s
  BY DEF ShardItems
<1>2. /\ path.owner = "model" /\ path.name = "shard path"
      /\ header.owner = "model" /\ header.name = "header"
      /\ header.name \notin NamesOf("model")
      /\ path.name \in NamesOf("model") /\ Key(path) \in F
  BY TempsAre DEF Own, Block, NamesOf, ClosedNames, TempNames
<1> HIDE DEF path, header
<1>3. /\ path \notin A0
      /\ A1 = A0 \cup {header}
      /\ A1 \subseteq A1
      /\ A0 = A1 \ A1
  BY <1>2
<1> HIDE DEF A0, A1
<1>4. /\ Follows("model", Keep(path, A0), A0, A0, F)
      /\ Follows("model", Alloc(header, A0), A0, A1, {})
      /\ Follows("model", Test(TRUE, A1), A1, A1, {})
      /\ Follows("model", Free(A1), A1, A0, {})
  BY <1>2, <1>3, FollowsAlloc, FollowsKeep, FollowsTest, FollowsFree
<1>5. Plan("model", s, A0, A0, F)
  <2>1. Plan("model", <<Free(A1)>>, A1, A0, {})
    BY <1>4, PlanOne
  <2>2. Plan("model", <<Alloc(header, A0), Test(TRUE, A1), Free(A1)>>, A0, A0, {})
    BY <1>4, <2>1, TakesAndOwns, Plan2, Plan3
  <2>3. Plan("model", <<Keep(path, A0), Alloc(header, A0), Test(TRUE, A1), Free(A1)>>, A0, A0, F)
    BY <1>4, <2>2, Plan4
  <2> QED
    BY <2>3
<1> QED
  BY <1>1, <1>5 DEF A0

\* A range of the manifest.
LEMMA BlobPlan ==
  ASSUME NEW F, NEW k, Key(Own("blob path", k, 1)) \in F
  PROVE  Plan("model", BlobItems(k), {Temp("document"), Temp("directory")}, {Temp("document"), Temp("directory")}, F)
<1> DEFINE text == Temp("document")
           directory == Temp("directory")
           parent == Temp("parent")
           joined == Temp("joined")
           resolved == Own("blob path", k, 1)
           A0 == {text, directory}
           A1 == {text, directory, parent}
           A2 == {text, directory, parent, joined}
           A3 == {text, directory, parent, joined, resolved}
           A4 == {joined}
           A5 == {text, directory, parent, resolved}
           A6 == {parent}
           A7 == {text, directory, resolved}
           A8 == {resolved}
           s == <<Test(TRUE, A0), Alloc(parent, A0), Alloc(joined, A1),
                  Alloc(resolved, A2), Free(A4), Test(TRUE, A5), Free(A6), Become(A8),
                  Test(TRUE, A0)>>
<1>1. BlobItems(k) = s
  <2>1. /\ A0 \cup {parent} = A1 /\ A0 \cup {parent, joined} = A2
        /\ A0 \cup {parent, resolved} = A5
    OBVIOUS
  <2> QED
    BY <2>1 DEF BlobItems
<1>2. /\ text.owner = "model" /\ text.name = "document"
      /\ directory.owner = "model" /\ directory.name = "directory"
      /\ parent.owner = "model" /\ parent.name = "parent"
      /\ joined.owner = "model" /\ joined.name = "joined"
      /\ resolved.owner = "model" /\ resolved.name = "blob path"
      /\ text.name \notin NamesOf("model")
      /\ directory.name \notin NamesOf("model")
      /\ parent.name \notin NamesOf("model")
      /\ joined.name \notin NamesOf("model")
      /\ resolved.name \in NamesOf("model") /\ Key(resolved) \in F
  BY TempsAre DEF Own, Block, NamesOf, ClosedNames, TempNames
<1> HIDE DEF text, directory, parent, joined, resolved
<1>3. /\ A1 = A0 \cup {parent}
      /\ A2 = A1 \cup {joined}
      /\ A3 = A2 \cup {resolved}
      /\ A4 \subseteq A3
      /\ A5 = A3 \ A4
      /\ A6 \subseteq A5
      /\ A7 = A5 \ A6
      /\ A8 \subseteq A7
      /\ A0 = A7 \ A8
      /\ \A b \in A8 : b.name \in NamesOf("model") /\ Key(b) \in F
  BY <1>2
<1> HIDE DEF A0, A1, A2, A3, A4, A5, A6, A7, A8
<1>4. /\ Follows("model", Test(TRUE, A0), A0, A0, F)
      /\ Follows("model", Alloc(parent, A0), A0, A1, F)
      /\ Follows("model", Alloc(joined, A1), A1, A2, F)
      /\ Follows("model", Alloc(resolved, A2), A2, A3, F)
      /\ Follows("model", Free(A4), A3, A5, F)
      /\ Follows("model", Test(TRUE, A5), A5, A5, F)
      /\ Follows("model", Free(A6), A5, A7, F)
      /\ Follows("model", Become(A8), A7, A0, F)
      /\ Follows("model", Test(TRUE, A0), A0, A0, {})
  BY <1>2, <1>3, FollowsAlloc, FollowsTest, FollowsFree, FollowsBecome
<1>5. Plan("model", s, A0, A0, F)
  <2>1. Plan("model", <<Test(TRUE, A0)>>, A0, A0, {})
    BY <1>4, PlanOne
  <2>2. Plan("model", <<Become(A8), Test(TRUE, A0)>>, A7, A0, F)
    BY <1>4, <2>1, Plan2
  <2>3. Plan("model", <<Alloc(resolved, A2), Free(A4), Test(TRUE, A5), Free(A6), Become(A8), Test(TRUE, A0)>>, A2, A0, F)
    BY <1>4, <2>2, TakesAndOwns, Plan3, Plan4, Plan5, Plan6
  <2> QED
    BY <1>4, <2>3, TakesAndOwns, Plan7, Plan8, Plan9
<1> QED
  BY <1>1, <1>5 DEF A0, text, directory

\* The configuration: its document, ...
LEMMA ConfigFirstPlan ==
  ASSUME NEW F
  PROVE  Plan("model", <<Alloc(Temp("path"), {}), Alloc(Temp("document"), {Temp("path")})>>, {}, {Temp("path"), Temp("document")}, F)
<1> DEFINE path == Temp("path")
           text == Temp("document")
           A0 == {}
           A1 == {path}
           A2 == {path, text}
           s == <<Alloc(path, A0), Alloc(text, A1)>>
<1>1. <<Alloc(Temp("path"), {}), Alloc(Temp("document"), {Temp("path")})>> = s
  OBVIOUS
<1>2. /\ path.owner = "model" /\ path.name = "path"
      /\ text.owner = "model" /\ text.name = "document"
      /\ path.name \notin NamesOf("model")
      /\ text.name \notin NamesOf("model")
  BY TempsAre DEF TempNames
<1> HIDE DEF path, text
<1>3. /\ A1 = A0 \cup {path}
      /\ A2 = A1 \cup {text}
  BY <1>2
<1> HIDE DEF A0, A1, A2
<1>4. /\ Follows("model", Alloc(path, A0), A0, A1, F)
      /\ Follows("model", Alloc(text, A1), A1, A2, F)
  BY <1>2, <1>3, FollowsAlloc
<1>5. Plan("model", s, A0, A2, F)
  <2>1. Plan("model", <<Alloc(text, A1)>>, A1, A2, F)
    BY <1>4, PlanOne
  <2> QED
    BY <1>4, <2>1, TakesAndOwns, Plan2
<1> QED
  BY <1>1, <1>5 DEF A0, A2, path, text

\* ... its checks, when it lists no local layers, ...
LEMMA ConfigShortPlan ==
  ASSUME NEW F, NEW valid
  PROVE  Plan("model", <<Free({Temp("document")}), Test(valid, {Temp("path")})>>, {Temp("path"), Temp("document")}, {Temp("path")}, F)
<1> DEFINE path == Temp("path")
           text == Temp("document")
           A0 == {path, text}
           A1 == {text}
           A2 == {path}
           s == <<Free(A1), Test(valid, A2)>>
<1>1. <<Free({Temp("document")}), Test(valid, {Temp("path")})>> = s
  OBVIOUS
<1>2. /\ path.owner = "model" /\ path.name = "path"
      /\ text.owner = "model" /\ text.name = "document"
      /\ path.name \notin NamesOf("model")
      /\ text.name \notin NamesOf("model")
  BY TempsAre DEF TempNames
<1> HIDE DEF path, text
<1>3. /\ A1 \subseteq A0
      /\ A2 = A0 \ A1
  BY <1>2
<1> HIDE DEF A0, A1, A2
<1>4. /\ Follows("model", Free(A1), A0, A2, F)
      /\ Follows("model", Test(valid, A2), A2, A2, F)
  BY <1>2, <1>3, FollowsTest, FollowsFree
<1>5. Plan("model", s, A0, A2, F)
  <2>1. Plan("model", <<Test(valid, A2)>>, A2, A2, F)
    BY <1>4, PlanOne
  <2> QED
    BY <1>4, <2>1, TakesAndOwns, Plan2
<1> QED
  BY <1>1, <1>5 DEF A0, A2, path, text

\* ... when it does, ...
LEMMA ConfigLongPlan ==
  ASSUME NEW F, NEW valid, NEW ids, ids.owner = "model", ids.name \in NamesOf("model"), Key(ids) \in F
  PROVE  Plan("model", <<Alloc(ids, {Temp("document"), Temp("path")}), Free({Temp("document")}), Test(valid, {ids, Temp("path")}), Become({ids})>>, {Temp("path"), Temp("document")}, {Temp("path")}, F)
<1> DEFINE path == Temp("path")
           text == Temp("document")
           A0 == {path, text}
           A1 == {path, text, ids}
           A2 == {text}
           A3 == {path, ids}
           A4 == {ids}
           A5 == {path}
           s == <<Alloc(ids, A0), Free(A2), Test(valid, A3), Become(A4)>>
<1>1. <<Alloc(ids, {Temp("document"), Temp("path")}), Free({Temp("document")}), Test(valid, {ids, Temp("path")}), Become({ids})>> = s
  <2>1. {text, path} = A0 /\ {ids, path} = A3
    OBVIOUS
  <2> QED
    BY <2>1
<1>2. /\ path.owner = "model" /\ path.name = "path"
      /\ text.owner = "model" /\ text.name = "document"
      /\ path.name \notin NamesOf("model")
      /\ text.name \notin NamesOf("model")
      /\ ids.name \in NamesOf("model") /\ Key(ids) \in F
  BY TempsAre DEF Own, Block, NamesOf, ClosedNames, TempNames
<1> HIDE DEF path, text
<1>3. /\ A1 = A0 \cup {ids}
      /\ A2 \subseteq A1
      /\ A3 = A1 \ A2
      /\ A4 \subseteq A3
      /\ A5 = A3 \ A4
      /\ \A b \in A4 : b.name \in NamesOf("model") /\ Key(b) \in F
  BY <1>2
<1> HIDE DEF A0, A1, A2, A3, A4, A5
<1>4. /\ Follows("model", Alloc(ids, A0), A0, A1, F)
      /\ Follows("model", Free(A2), A1, A3, F)
      /\ Follows("model", Test(valid, A3), A3, A3, F)
      /\ Follows("model", Become(A4), A3, A5, F)
  BY <1>2, <1>3, FollowsAlloc, FollowsTest, FollowsFree, FollowsBecome
<1>5. Plan("model", s, A0, A5, F)
  <2>1. Plan("model", <<Become(A4)>>, A3, A5, F)
    BY <1>4, PlanOne
  <2> QED
    BY <1>4, <2>1, TakesAndOwns, Plan2, Plan3, Plan4
<1> QED
  BY <1>1, <1>5 DEF A0, A5, path, text

\* ... and its end.
LEMMA ConfigLastPlan ==
  ASSUME NEW F
  PROVE  Plan("model", <<Free({Temp("path")}), Test(TRUE, {})>>, {Temp("path")}, {}, F)
<1> DEFINE path == Temp("path")
           A0 == {path}
           A1 == {}
           s == <<Free(A0), Test(TRUE, A1)>>
<1>1. <<Free({Temp("path")}), Test(TRUE, {})>> = s
  OBVIOUS
<1>2. /\ path.owner = "model" /\ path.name = "path"
      /\ path.name \notin NamesOf("model")
  BY TempsAre DEF TempNames
<1> HIDE DEF path
<1>3. /\ A0 \subseteq A0
      /\ A1 = A0 \ A0
  BY <1>2
<1> HIDE DEF A0, A1
<1>4. /\ Follows("model", Free(A0), A0, A1, F)
      /\ Follows("model", Test(TRUE, A1), A1, A1, F)
  BY <1>2, <1>3, FollowsTest, FollowsFree
<1>5. Plan("model", s, A0, A1, F)
  <2>1. Plan("model", <<Test(TRUE, A1)>>, A1, A1, F)
    BY <1>4, PlanOne
  <2> QED
    BY <1>4, <2>1, TakesAndOwns, Plan2
<1> QED
  BY <1>1, <1>5 DEF A0, A1, path

\* The manifest: its document and its directory, ...
LEMMA ManifestFirstPlan ==
  ASSUME NEW F, NEW blobs, blobs.owner = "model", blobs.name \in NamesOf("model"), Key(blobs) \in F
  PROVE  Plan("model", <<Alloc(Temp("document"), {}), Test(TRUE, {Temp("document")}), Alloc(Temp("directory"), {Temp("document")}), Keep(blobs, {Temp("directory"), Temp("document")})>>, {}, {Temp("document"), Temp("directory")}, F)
<1> DEFINE text == Temp("document")
           directory == Temp("directory")
           A0 == {}
           A1 == {text}
           A2 == {text, directory}
           s == <<Alloc(text, A0), Test(TRUE, A1), Alloc(directory, A1),
                  Keep(blobs, A2)>>
<1>1. <<Alloc(Temp("document"), {}), Test(TRUE, {Temp("document")}), Alloc(Temp("directory"), {Temp("document")}), Keep(blobs, {Temp("directory"), Temp("document")})>> = s
  <2>1. {directory, text} = A2
    OBVIOUS
  <2> QED
    BY <2>1
<1>2. /\ text.owner = "model" /\ text.name = "document"
      /\ directory.owner = "model" /\ directory.name = "directory"
      /\ text.name \notin NamesOf("model")
      /\ directory.name \notin NamesOf("model")
      /\ blobs.name \in NamesOf("model") /\ Key(blobs) \in F
  BY TempsAre DEF Own, Block, NamesOf, ClosedNames, TempNames
<1> HIDE DEF text, directory
<1>3. /\ A1 = A0 \cup {text}
      /\ A2 = A1 \cup {directory}
      /\ blobs \notin A2
  BY <1>2
<1> HIDE DEF A0, A1, A2
<1>4. /\ Follows("model", Alloc(text, A0), A0, A1, F)
      /\ Follows("model", Test(TRUE, A1), A1, A1, F)
      /\ Follows("model", Alloc(directory, A1), A1, A2, F)
      /\ Follows("model", Keep(blobs, A2), A2, A2, F)
  BY <1>2, <1>3, FollowsAlloc, FollowsKeep, FollowsTest
<1>5. Plan("model", s, A0, A2, F)
  <2>1. Plan("model", <<Keep(blobs, A2)>>, A2, A2, F)
    BY <1>4, PlanOne
  <2> QED
    BY <1>4, <2>1, TakesAndOwns, Plan2, Plan3, Plan4
<1> QED
  BY <1>1, <1>5 DEF A0, A2, text, directory

\* ... and what frees them.
LEMMA ManifestLastPlan ==
  ASSUME NEW F
  PROVE  Plan("model", <<Free({Temp("directory")}), Test(TRUE, {Temp("document")}), Free({Temp("document")})>>, {Temp("document"), Temp("directory")}, {}, F)
<1> DEFINE text == Temp("document")
           directory == Temp("directory")
           A0 == {text, directory}
           A1 == {directory}
           A2 == {text}
           A3 == {}
           s == <<Free(A1), Test(TRUE, A2), Free(A2)>>
<1>1. <<Free({Temp("directory")}), Test(TRUE, {Temp("document")}), Free({Temp("document")})>> = s
  OBVIOUS
<1>2. /\ text.owner = "model" /\ text.name = "document"
      /\ directory.owner = "model" /\ directory.name = "directory"
      /\ text.name \notin NamesOf("model")
      /\ directory.name \notin NamesOf("model")
  BY TempsAre DEF TempNames
<1> HIDE DEF text, directory
<1>3. /\ A1 \subseteq A0
      /\ A2 = A0 \ A1
      /\ A2 \subseteq A2
      /\ A3 = A2 \ A2
  BY <1>2
<1> HIDE DEF A0, A1, A2, A3
<1>4. /\ Follows("model", Free(A1), A0, A2, F)
      /\ Follows("model", Test(TRUE, A2), A2, A2, F)
      /\ Follows("model", Free(A2), A2, A3, F)
  BY <1>2, <1>3, FollowsTest, FollowsFree
<1>5. Plan("model", s, A0, A3, F)
  <2>1. Plan("model", <<Free(A2)>>, A2, A3, F)
    BY <1>4, PlanOne
  <2> QED
    BY <1>4, <2>1, TakesAndOwns, Plan2, Plan3
<1> QED
  BY <1>1, <1>5 DEF A0, A3, text, directory

-------------------------------------------------------------------------------
\* The plans of the steps that open a model: matrices, vectors and layers, ...

\* The fields of these names, whatever their index.
Fields(N) == N \X Nat

\* Sequences about fields of different names make one.
LEMMA FieldsJoin ==
  ASSUME NEW w, NEW s, NEW t, NEW A, NEW B, NEW C, NEW M, NEW N, M \cap N = {},
         Plan(w, s, A, B, Fields(M)), Plan(w, t, B, C, Fields(N))
  PROVE  Plan(w, s \o t, A, C, Fields(M \cup N))
<1>1. Fields(M) \cap Fields(N) = {} /\ Fields(M) \cup Fields(N) = Fields(M \cup N)
  BY DEF Fields
<1> QED
  BY <1>1, PlanJoin

\* An allocation that is left in a field at once.
LEMMA KeepPlan ==
  ASSUME NEW name \in ClosedNames, NEW index \in Nat, NEW size
  PROVE  Plan("model", <<Keep(Own(name, index, size), {})>>, {}, {}, Fields({name}))
<1> DEFINE b == Own(name, index, size)
<1>1. b.owner = "model" /\ b.name \in NamesOf("model") /\ Key(b) \in Fields({name}) /\ b \notin {}
  BY DEF Own, Block, NamesOf, Key, Fields
<1> HIDE DEF b
<1>2. Follows("model", Keep(b, {}), {}, {}, Fields({name}))
  BY <1>1, FollowsKeep
<1> QED
  BY <1>2, PlanOne DEF b

\* A test with nothing to free.
LEMMA TestPlan ==
  ASSUME NEW w, NEW pass, NEW F PROVE Plan(w, <<Test(pass, {})>>, {}, {}, F)
BY FollowsTest, PlanOne

\* Different matrices have their scales in different fields.
LEMMA ScalesDiffer ==
  /\ \A m \in MatrixNames : Scales[m] \in ClosedNames
  /\ \A m, n \in MatrixNames : Scales[m] = Scales[n] => m = n
<1> DEFINE of(x) ==
             CASE x = "q scales" -> "q"
               [] x = "k scales" -> "k"
               [] x = "v scales" -> "v"
               [] x = "r scales" -> "r"
               [] x = "o scales" -> "o"
               [] x = "w13 scales" -> "w13"
               [] x = "down scales" -> "down"
               [] x = "shared_w13 scales" -> "shared_w13"
               [] x = "shared_down scales" -> "shared_down"
               [] x = "router scales" -> "router"
<1>1. \A m \in MatrixNames : of(Scales[m]) = m
  <2>1. of(Scales["q"]) = "q"
    BY DEF Scales
  <2>2. of(Scales["k"]) = "k"
    BY DEF Scales
  <2>3. of(Scales["v"]) = "v"
    BY DEF Scales
  <2>4. of(Scales["r"]) = "r"
    BY DEF Scales
  <2>5. of(Scales["o"]) = "o"
    BY DEF Scales
  <2>6. of(Scales["w13"]) = "w13"
    BY DEF Scales
  <2>7. of(Scales["down"]) = "down"
    BY DEF Scales
  <2>8. of(Scales["shared_w13"]) = "shared_w13"
    BY DEF Scales
  <2>9. of(Scales["shared_down"]) = "shared_down"
    BY DEF Scales
  <2>10. of(Scales["router"]) = "router"
    BY DEF Scales
  <2> HIDE DEF of
  <2> QED
    BY <2>1, <2>2, <2>3, <2>4, <2>5, <2>6, <2>7, <2>8, <2>9, <2>10 DEF MatrixNames, AttentionNames, MlpNames
<1> HIDE DEF of
<1>2. \A m, n \in MatrixNames : Scales[m] = Scales[n] => m = n
  BY <1>1
<1> QED
  BY <1>2 DEF ClosedNames

\* A vector of the model.
LEMMA OwnVectorPlan ==
  ASSUME NEW name \in ClosedNames, NEW index, NEW size
  PROVE  Plan("model", VectorItems(Own(name, index, size)), {}, {}, {<<name, index>>})
<1> DEFINE b == Own(name, index, size)
<1>1. b.owner = "model" /\ b.name \in NamesOf("model") /\ Key(b) \in {<<name, index>>}
  BY DEF Own, Block, NamesOf, Key
<1> HIDE DEF b
<1>2. Plan("model", VectorItems(b), {}, {}, {<<name, index>>})
  BY <1>1, VectorPlan
<1> QED
  BY <1>2 DEF b

\* A matrix leaves its scales, if anything.
LEMMA MatrixPlan ==
  ASSUME NEW name \in MatrixNames, NEW index, NEW matrix
  PROVE  Plan("model", MatrixItems(name, index, matrix), {}, {}, {<<Scales[name], index>>})
<1> DEFINE F == {<<Scales[name], index>>}
           a == <<Test(TRUE, {})>>
           b == <<Test(Storable(matrix), {})>>
           v == VectorItems(Own(Scales[name], index, matrix.experts))
           s == ScalarItems
<1>1. /\ Plan("model", a, {}, {}, F) /\ Plan("model", a, {}, {}, {}) /\ Plan("model", b, {}, {}, {})
      /\ Plan("model", s, {}, {}, {})
  BY TestPlan, ScalarPlan
<1>2. Plan("model", v, {}, {}, F)
  BY ScalesDiffer, OwnVectorPlan
<1>3. MatrixItems(name, index, matrix) = IF matrix.kind = "BF16" THEN a ELSE b \o v \o a \o s \o a
  BY DEF MatrixItems
<1> HIDE DEF F, a, b, v, s
<1>4. Plan("model", b \o v \o a \o s \o a, {}, {}, F)
  <2>1. {} \cap F = {} /\ F \cap {} = {} /\ {} \cup F = F /\ F \cup {} = F
    OBVIOUS
  <2>2. Plan("model", b \o v, {}, {}, F)
    BY <1>1, <1>2, <2>1, PlanJoin
  <2>3. Plan("model", b \o v \o a, {}, {}, F)
    BY <1>1, <2>1, <2>2, PlanJoin
  <2>4. Plan("model", b \o v \o a \o s, {}, {}, F)
    BY <1>1, <2>1, <2>3, PlanJoin
  <2> QED
    BY <1>1, <2>1, <2>4, PlanJoin
<1> QED
  BY <1>1, <1>3, <1>4 DEF F

\* Different names in a row.
Distinct(n, names, N) ==
  (\A k \in 1..n : names[k] \in N) /\ (\A j, k \in 1..n : names[j] = names[k] => j = k)

\* Some matrices of a layer.
LEMMA MatricesPlan ==
  ASSUME NEW n \in Nat, NEW names, NEW N, NEW index, NEW parts, NEW F, Numbered(n, parts),
         \A k \in 1..n : \E matrix : parts[k] = MatrixItems(names[k], index, matrix),
         Distinct(n, names, N), N \subseteq MatrixNames, {Scales[m] : m \in N} \X {index} \subseteq F
  PROVE  Plan("model", FlattenSeq(parts), {}, {}, F)
<1> DEFINE H == [k \in 1..n |-> {<<Scales[names[k]], index>>}]
<1>0. PICK G : G = H
  OBVIOUS
<1>4. \A k \in 1..n : G[k] = {<<Scales[names[k]], index>>}
  BY <1>0
<1>1. ASSUME NEW k \in 1..n PROVE Plan("model", parts[k], {}, {}, G[k])
  <2>1. PICK matrix : parts[k] = MatrixItems(names[k], index, matrix)
    OBVIOUS
  <2>2. PICK name : name = names[k]
    OBVIOUS
  <2>3. name \in MatrixNames
    BY <2>2 DEF Distinct
  <2>4. Plan("model", MatrixItems(name, index, matrix), {}, {}, {<<Scales[name], index>>})
    BY <2>3, MatrixPlan
  <2> QED
    BY <1>4, <2>1, <2>2, <2>4
<1>2. ASSUME NEW j \in 1..n, NEW k \in 1..n, j # k PROVE G[j] \cap G[k] = {}
  <2>1. names[j] # names[k] /\ names[j] \in MatrixNames /\ names[k] \in MatrixNames
    BY <1>2 DEF Distinct
  <2>2. Scales[names[j]] # Scales[names[k]]
    BY <2>1, ScalesDiffer
  <2> QED
    BY <1>4, <2>2
<1>3. \A k \in 1..n : G[k] \subseteq F
  BY <1>4 DEF Distinct
<1> QED
  BY <1>1, <1>2, <1>3, PlanMany

\* Some vectors of a layer.
LEMMA VectorsPlan ==
  ASSUME NEW n \in Nat, NEW names, NEW N, NEW index, NEW parts, NEW F, Numbered(n, parts),
         \A k \in 1..n : \E size : parts[k] = VectorItems(Own(names[k], index, size)),
         Distinct(n, names, N), N \subseteq ClosedNames, N \X {index} \subseteq F
  PROVE  Plan("model", FlattenSeq(parts), {}, {}, F)
<1> DEFINE H == [k \in 1..n |-> {<<names[k], index>>}]
<1>0. PICK G : G = H
  OBVIOUS
<1>4. \A k \in 1..n : G[k] = {<<names[k], index>>}
  BY <1>0
<1>1. ASSUME NEW k \in 1..n PROVE Plan("model", parts[k], {}, {}, G[k])
  <2>1. PICK size : parts[k] = VectorItems(Own(names[k], index, size))
    OBVIOUS
  <2>2. PICK name : name = names[k]
    OBVIOUS
  <2>3. name \in ClosedNames
    BY <2>2 DEF Distinct
  <2>4. Plan("model", VectorItems(Own(name, index, size)), {}, {}, {<<name, index>>})
    BY <2>3, OwnVectorPlan
  <2> QED
    BY <1>4, <2>1, <2>2, <2>4
<1>2. ASSUME NEW j \in 1..n, NEW k \in 1..n, j # k PROVE G[j] \cap G[k] = {}
  <2>1. names[j] # names[k]
    BY <1>2 DEF Distinct
  <2> QED
    BY <1>4, <2>1
<1>3. \A k \in 1..n : G[k] \subseteq F
  BY <1>4 DEF Distinct
<1> QED
  BY <1>1, <1>2, <1>3, PlanMany

\* The fields of a layer.
VectorNames ==
  {"q_norm", "k_norm", "relative", "k_conv", "v_conv", "attn_norm", "mlp_norm",
   "attn_conv", "mlp_conv", "correction"}
LayerNames == VectorNames \cup {Scales[m] : m \in MatrixNames}

\* The names of the scales.
LEMMA ScalesAre ==
  ASSUME NEW m \in MatrixNames
  PROVE  Scales[m] \in {"q scales", "k scales", "v scales", "r scales", "o scales", "w13 scales",
                        "down scales", "shared_w13 scales", "shared_down scales", "router scales"}
<1>1. m \in {"q", "k", "v", "r", "o", "w13", "down", "shared_w13", "shared_down", "router"}
  BY DEF MatrixNames, AttentionNames, MlpNames
<1>2. /\ Scales["q"] = "q scales" /\ Scales["k"] = "k scales" /\ Scales["v"] = "v scales"
      /\ Scales["r"] = "r scales" /\ Scales["o"] = "o scales"
      /\ Scales["w13"] = "w13 scales" /\ Scales["down"] = "down scales"
      /\ Scales["shared_w13"] = "shared_w13 scales"
      /\ Scales["shared_down"] = "shared_down scales" /\ Scales["router"] = "router scales"
  BY DEF Scales
<1> QED
  BY <1>1, <1>2

\* The other fields of a model.
OtherNames ==
  {"shard path", "blob path", "shards", "blobs", "layers", "embed_norm", "final_norm",
   "packed", "local_layer_ids", "entries", "slots", "model"}

\* All of them are freed with the model, and no matrix has the name of a vector,
\* nor of another field of the model.
LEMMA LayerNamesAre ==
  /\ LayerNames \cup OtherNames = ClosedNames
  /\ \A m \in MatrixNames : Scales[m] \notin VectorNames
  /\ LayerNames \cap OtherNames = {}
<1>1. ASSUME NEW m \in MatrixNames PROVE Scales[m] \notin VectorNames /\ Scales[m] \notin OtherNames
  <2>1. Scales[m] \in {"q scales", "k scales", "v scales", "r scales", "o scales", "w13 scales",
                       "down scales", "shared_w13 scales", "shared_down scales", "router scales"}
    BY ScalesAre
  <2>2. Scales[m] \notin VectorNames
    BY <2>1 DEF VectorNames
  <2>3. Scales[m] \notin OtherNames
    BY <2>1 DEF OtherNames
  <2> QED
    BY <2>2, <2>3
<1>2. LayerNames \cup OtherNames = ClosedNames
  <2> DEFINE S == {Scales[m] : m \in MatrixNames}
  <2>1. ClosedNames = VectorNames \cup S \cup OtherNames /\ LayerNames = VectorNames \cup S
    BY DEF LayerNames, VectorNames, ClosedNames, OtherNames
  <2> HIDE DEF S
  <2> QED
    BY <2>1
<1>3. VectorNames \cap OtherNames = {}
  BY DEF VectorNames, OtherNames
<1> QED
  BY <1>1, <1>2, <1>3 DEF LayerNames

\* The matrices and vectors of a layer.
LEMMA LayerPlan ==
  ASSUME NEW config, NEW id, NEW index
  PROVE  Plan("model", LayerItems(config, id, index), {}, {}, LayerNames \X {index})
<1> DEFINE layer == Layer(config, id)
           matrices(names) ==
             [k \in DOMAIN names |-> MatrixItems(names[k], index, layer.matrices[names[k]])]
           vectors(names) ==
             [k \in DOMAIN names |-> VectorItems(Own(names[k], index, layer.vectors[names[k]]))]
           a == <<"q", "k", "v", "r", "o">>
           v == <<"q_norm", "k_norm", "relative", "k_conv", "v_conv",
                  "attn_norm", "mlp_norm", "attn_conv", "mlp_conv">>
           d == <<"w13", "down">>
           e == <<"w13", "down", "shared_w13", "shared_down", "router">>
           correction == VectorItems(Own("correction", index, config.routed))
           V == {"q_norm", "k_norm", "relative", "k_conv", "v_conv",
                 "attn_norm", "mlp_norm", "attn_conv", "mlp_conv"}
           SA == {Scales[m] : m \in AttentionNames}
           SM == {Scales[m] : m \in MlpNames}
           C == {"correction"}
           I == {index}
<1>1. LayerItems(config, id, index) =
        FlattenSeq(matrices(a)) \o FlattenSeq(vectors(v))
        \o (IF layer.dense THEN FlattenSeq(matrices(d)) ELSE FlattenSeq(matrices(e)) \o correction)
        \o ScalarItems
  BY DEF LayerItems
<1>2. Plan("model", FlattenSeq(matrices(a)), {}, {}, SA \X I)
  <2>1. DOMAIN a = 1..5
    OBVIOUS
  <2>2. Distinct(5, a, AttentionNames)
    BY DEF Distinct, AttentionNames
  <2> DEFINE p == matrices(a)
             F == SA \X I
  <2>6. AttentionNames \subseteq MatrixNames /\ {Scales[m] : m \in AttentionNames} \X {index} \subseteq F
    BY DEF MatrixNames
  <2> HIDE DEF a, layer, F
  <2>3. Numbered(5, p)
    BY <2>1 DEF Numbered
  <2>5. \A k \in 1..5 : \E matrix : p[k] = MatrixItems(a[k], index, matrix)
    BY <2>1
  <2> HIDE DEF p
  <2>4. Plan("model", FlattenSeq(p), {}, {}, F)
    BY <2>2, <2>3, <2>5, <2>6, MatricesPlan
  <2> QED
    BY <2>4 DEF p, F
<1>3. Plan("model", FlattenSeq(matrices(d)), {}, {}, SM \X I)
  <2>1. DOMAIN d = 1..2
    OBVIOUS
  <2>2. Distinct(2, d, MlpNames)
    BY DEF Distinct, MlpNames
  <2> DEFINE p == matrices(d)
             F == SM \X I
  <2>6. MlpNames \subseteq MatrixNames /\ {Scales[m] : m \in MlpNames} \X {index} \subseteq F
    BY DEF MatrixNames
  <2> HIDE DEF d, layer, F
  <2>3. Numbered(2, p)
    BY <2>1 DEF Numbered
  <2>5. \A k \in 1..2 : \E matrix : p[k] = MatrixItems(d[k], index, matrix)
    BY <2>1
  <2> HIDE DEF p
  <2>4. Plan("model", FlattenSeq(p), {}, {}, F)
    BY <2>2, <2>3, <2>5, <2>6, MatricesPlan
  <2> QED
    BY <2>4 DEF p, F
<1>4. Plan("model", FlattenSeq(matrices(e)), {}, {}, SM \X I)
  <2>1. DOMAIN e = 1..5
    OBVIOUS
  <2>2. Distinct(5, e, MlpNames)
    BY DEF Distinct, MlpNames
  <2> DEFINE p == matrices(e)
             F == SM \X I
  <2>6. MlpNames \subseteq MatrixNames /\ {Scales[m] : m \in MlpNames} \X {index} \subseteq F
    BY DEF MatrixNames
  <2> HIDE DEF e, layer, F
  <2>3. Numbered(5, p)
    BY <2>1 DEF Numbered
  <2>5. \A k \in 1..5 : \E matrix : p[k] = MatrixItems(e[k], index, matrix)
    BY <2>1
  <2> HIDE DEF p
  <2>4. Plan("model", FlattenSeq(p), {}, {}, F)
    BY <2>2, <2>3, <2>5, <2>6, MatricesPlan
  <2> QED
    BY <2>4 DEF p, F
<1>5. Plan("model", FlattenSeq(vectors(v)), {}, {}, V \X I)
  <2>1. DOMAIN v = 1..9
    OBVIOUS
  <2>2. Distinct(9, v, V)
    BY DEF Distinct
  <2> DEFINE p == vectors(v)
             F == V \X I
  <2>6. V \subseteq ClosedNames /\ V \X {index} \subseteq F
    BY DEF ClosedNames
  <2> HIDE DEF v, layer, F
  <2>3. Numbered(9, p)
    BY <2>1 DEF Numbered
  <2>5. \A k \in 1..9 : \E size : p[k] = VectorItems(Own(v[k], index, size))
    BY <2>1
  <2> HIDE DEF p, V
  <2>4. Plan("model", FlattenSeq(p), {}, {}, F)
    BY <2>2, <2>3, <2>5, <2>6, VectorsPlan
  <2> QED
    BY <2>4 DEF p, F
<1>6. Plan("model", correction, {}, {}, C \X I)
  <2>1. {<<"correction", index>>} \subseteq C \X I
    OBVIOUS
  <2>2. Plan("model", correction, {}, {}, {<<"correction", index>>})
    BY OwnVectorPlan DEF ClosedNames
  <2> HIDE DEF C, I, correction
  <2> QED
    BY <2>1, <2>2, PlanWider
<1>7. Plan("model", ScalarItems, {}, {}, {})
  BY ScalarPlan
<1>8. /\ SA \cap SM = {} /\ (SA \cup SM) \cap (V \cup C) = {} /\ V \cap C = {}
      /\ SA \cup SM \cup V \cup C = LayerNames
  <2>1. SA \cup SM = {Scales[m] : m \in MatrixNames} /\ V \cup C = VectorNames
    BY DEF MatrixNames, VectorNames
  <2>2. SA \cap SM = {}
    <3>1. ASSUME NEW m \in AttentionNames, NEW n \in MlpNames PROVE m # n
      BY DEF AttentionNames, MlpNames
    <3> QED
      BY <3>1, ScalesDiffer DEF MatrixNames
  <2>3. V \cap C = {}
    OBVIOUS
  <2> HIDE DEF SA, SM, V, C
  <2> QED
    BY <2>1, <2>2, <2>3, LayerNamesAre DEF LayerNames
<1> DEFINE mlp == IF layer.dense THEN FlattenSeq(matrices(d)) ELSE FlattenSeq(matrices(e)) \o correction
<1>9. Plan("model", mlp, {}, {}, (SM \cup C) \X I)
  <2>1. (SM \X I) \cap (C \X I) = {} /\ (SM \X I) \cup (C \X I) = (SM \cup C) \X I
    BY <1>8
  <2> HIDE DEF SM, C, I, matrices, correction
  <2>2. Plan("model", FlattenSeq(matrices(e)) \o correction, {}, {}, (SM \cup C) \X I)
    <3>1. Plan("model", FlattenSeq(matrices(e)) \o correction, {}, {}, (SM \X I) \cup (C \X I))
      BY <1>4, <1>6, <2>1, PlanJoin
    <3> QED
      BY <2>1, <3>1
  <2>3. Plan("model", FlattenSeq(matrices(d)), {}, {}, (SM \cup C) \X I)
    <3>1. SM \X I \subseteq (SM \cup C) \X I
      BY <2>1
    <3> QED
      BY <1>3, <3>1, PlanWider
  <2> QED
    BY <2>2, <2>3
<1> DEFINE att == FlattenSeq(matrices(a))
           vec == FlattenSeq(vectors(v))
<1> HIDE DEF mlp, att, vec
<1>10. Plan("model", att \o vec, {}, {}, (SA \cup V) \X I)
  <2>1. (SA \X I) \cap (V \X I) = {} /\ (SA \X I) \cup (V \X I) = (SA \cup V) \X I
    BY <1>8
  <2>2. Plan("model", att, {}, {}, SA \X I) /\ Plan("model", vec, {}, {}, V \X I)
    BY <1>2, <1>5 DEF att, vec
  <2> HIDE DEF SA, V, I
  <2>3. Plan("model", att \o vec, {}, {}, (SA \X I) \cup (V \X I))
    BY <2>1, <2>2, PlanJoin
  <2> QED
    BY <2>1, <2>3
<1>11. Plan("model", att \o vec \o mlp, {}, {}, LayerNames \X I)
  <2> DEFINE X == (SA \cup V) \X I
             Y == (SM \cup C) \X I
  <2>1. (SA \cup V) \cap (SM \cup C) = {} /\ (SA \cup V) \cup (SM \cup C) = LayerNames
    BY <1>8
  <2>2. X \cap Y = {} /\ X \cup Y = LayerNames \X I
    <3> HIDE DEF SA, SM, V, C, I
    <3> QED
      BY <2>1
  <2>3. Plan("model", att \o vec, {}, {}, X) /\ Plan("model", mlp, {}, {}, Y)
    BY <1>9, <1>10
  <2> HIDE DEF X, Y, I
  <2>4. Plan("model", att \o vec \o mlp, {}, {}, X \cup Y)
    BY <2>2, <2>3, PlanJoin
  <2> QED
    BY <2>2, <2>4
<1>12. Plan("model", att \o vec \o mlp \o ScalarItems, {}, {}, LayerNames \X I)
  <2> DEFINE X == LayerNames \X I
  <2>1. X \cap {} = {} /\ X \cup {} = X
    OBVIOUS
  <2>2. Plan("model", att \o vec \o mlp, {}, {}, X)
    BY <1>11
  <2> HIDE DEF X
  <2>3. Plan("model", att \o vec \o mlp \o ScalarItems, {}, {}, X \cup {})
    BY <1>7, <2>1, <2>2, PlanJoin
  <2> QED
    BY <2>1, <2>3 DEF X
<1> QED
  BY <1>1, <1>12 DEF att, vec, mlp

-------------------------------------------------------------------------------
\* ... and of the whole call, with whatever files and whatever checkpoint.

\* Fields of one name, by their index.
LEMMA ColumnIs ==
  ASSUME NEW name, NEW n \in Nat, NEW G, \A k \in 1..n : G[k] = {<<name, k>>}
  PROVE  /\ \A j, k \in 1..n : j # k => G[j] \cap G[k] = {}
         /\ \A k \in 1..n : G[k] \subseteq Fields({name})
<1>1. ASSUME NEW j \in 1..n, NEW k \in 1..n, j # k PROVE G[j] \cap G[k] = {}
  BY <1>1
<1>2. ASSUME NEW k \in 1..n PROVE G[k] \subseteq Fields({name})
  BY DEF Fields
<1> QED
  BY <1>1, <1>2

\* The layers of a model.
LEMMA LayersPlan ==
  ASSUME NEW w \in Ways
  PROVE  Plan("model", LayersItems(w), {}, {}, Fields({"layers"} \cup LayerNames))
<1> DEFINE parts == [k \in DOMAIN LayerIds(w) |-> LayerItems(w.config, LayerIds(w)[k], k)]
           first == <<Keep(Own("layers", 0, Len(LayerIds(w))), {})>>
           F == Fields(LayerNames)
<1>1. LayersItems(w) = first \o FlattenSeq(parts)
  BY DEF LayersItems
<1>2. PICK n \in Nat : DOMAIN LayerIds(w) = 1..n
  <2>1. w.config.layers \in Nat
    BY SessionAssumption DEF Configurations
  <2>2. CASE Extracted(w)
    BY <2>2 DEF LayerIds
  <2>3. CASE ~Extracted(w)
    BY <2>1, <2>3 DEF LayerIds
  <2> QED
    BY <2>2, <2>3
<1>3. Plan("model", first, {}, {}, Fields({"layers"}))
  BY KeepPlan DEF ClosedNames
<1>4. Numbered(n, parts) /\ \A k \in 1..n : parts[k] = LayerItems(w.config, LayerIds(w)[k], k)
  BY <1>2 DEF Numbered
<1> HIDE DEF parts, first
<1>5. Plan("model", FlattenSeq(parts), {}, {}, F)
  <2> DEFINE H == [k \in 1..n |-> LayerNames \X {k}]
  <2>1. PICK G : G = H
    OBVIOUS
  <2>2. \A k \in 1..n : G[k] = LayerNames \X {k}
    BY <2>1
  <2>3. ASSUME NEW k \in 1..n PROVE Plan("model", parts[k], {}, {}, G[k])
    <3>1. Plan("model", LayerItems(w.config, LayerIds(w)[k], k), {}, {}, LayerNames \X {k})
      BY LayerPlan
    <3> QED
      BY <1>4, <2>2, <3>1
  <2>4. ASSUME NEW j \in 1..n, NEW k \in 1..n, j # k PROVE G[j] \cap G[k] = {}
    BY <2>2, <2>4
  <2>5. \A k \in 1..n : G[k] \subseteq F
    BY <2>2 DEF Fields
  <2> QED
    BY <1>4, <2>3, <2>4, <2>5, PlanMany
<1>6. {"layers"} \cap LayerNames = {}
  BY LayerNamesAre DEF OtherNames
<1> QED
  BY <1>1, <1>3, <1>5, <1>6, FieldsJoin

\* The shards that are read.
LEMMA ShardsPlan ==
  ASSUME NEW w \in Ways
  PROVE  Plan("model", ShardsItems(w), {}, {}, Fields({"shards", "shard path"}))
<1> DEFINE parts == [k \in 1..Len(w.shards) |-> IF Skipped(w, k) THEN <<>> ELSE ShardItems(w, k)]
           first == <<Keep(Own("shards", 0, Len(w.shards)), {})>>
           last == <<Test(TRUE, {})>>
           n == Len(w.shards)
           F == Fields({"shard path"})
<1>1. ShardsItems(w) = first \o FlattenSeq(parts) \o last
  BY DEF ShardsItems
<1>2. n \in Nat
  BY SessionAssumption
<1>3. Plan("model", first, {}, {}, Fields({"shards"}))
  BY <1>2, KeepPlan DEF ClosedNames
<1>4. Numbered(n, parts) /\ \A k \in 1..n : parts[k] = IF Skipped(w, k) THEN <<>> ELSE ShardItems(w, k)
  BY <1>2 DEF Numbered
<1> HIDE DEF parts, first, n
<1>5. Plan("model", FlattenSeq(parts), {}, {}, F)
  <2> DEFINE H == [k \in 1..n |-> {Key(Own("shard path", k, 1))}]
  <2>1. PICK G : G = H
    OBVIOUS
  <2>2. \A k \in 1..n : G[k] = {Key(Own("shard path", k, 1))}
    BY <2>1
  <2>3. ASSUME NEW k \in 1..n PROVE Plan("model", parts[k], {}, {}, G[k])
    <3>1. Key(Own("shard path", k, 1)) \in G[k]
      BY <2>2
    <3>2. Plan("model", <<>>, {}, {}, G[k])
      BY PlanNone
    <3>3. Plan("model", ShardItems(w, k), {}, {}, G[k])
      BY <3>1, ShardPlan, WholeShardPlan
    <3> QED
      BY <1>4, <3>2, <3>3
  <2>6. \A k \in 1..n : G[k] = {<<"shard path", k>>}
    BY <2>2 DEF Key, Own, Block
  <2>4. \A j, k \in 1..n : j # k => G[j] \cap G[k] = {}
    BY <1>2, <2>6, ColumnIs
  <2>5. \A k \in 1..n : G[k] \subseteq F
    BY <1>2, <2>6, ColumnIs
  <2> QED
    BY <1>2, <1>4, <2>3, <2>4, <2>5, PlanMany
<1>6. Plan("model", first \o FlattenSeq(parts), {}, {}, Fields({"shards"} \cup {"shard path"}))
  BY <1>3, <1>5, FieldsJoin
<1>7. Plan("model", last, {}, {}, Fields({}))
  BY TestPlan
<1> HIDE DEF last
<1>8. Plan("model", first \o FlattenSeq(parts) \o last, {}, {}, Fields({"shards"} \cup {"shard path"} \cup {}))
  BY <1>6, <1>7, FieldsJoin
<1>9. {"shards"} \cup {"shard path"} \cup {} = {"shards", "shard path"}
  OBVIOUS
<1> QED
  BY <1>1, <1>8, <1>9

\* The configuration.
LEMMA ConfigPlan ==
  ASSUME NEW w
  PROVE  Plan("model", ConfigItems(w), {}, {}, Fields({"local_layer_ids"}))
<1> DEFINE ids == Own("local_layer_ids", 0, Cardinality(w.config.local))
           valid == Valid(w.config)
           path == Temp("path")
           both == {Temp("path"), Temp("document")}
           F == Fields({"local_layer_ids"})
           first == <<Alloc(Temp("path"), {}), Alloc(Temp("document"), {Temp("path")})>>
           short == <<Free({Temp("document")}), Test(valid, {Temp("path")})>>
           long == <<Alloc(ids, {Temp("document"), Temp("path")}), Free({Temp("document")}),
                     Test(valid, {ids, Temp("path")}), Become({ids})>>
           last == <<Free({Temp("path")}), Test(TRUE, {})>>
<1>1. ConfigItems(w) = first \o (IF ids.size = 0 THEN short ELSE long) \o last
  BY DEF ConfigItems
<1>2. ids.owner = "model" /\ ids.name \in NamesOf("model") /\ Key(ids) \in F
  BY DEF Own, Block, NamesOf, ClosedNames, Key, Fields
<1> HIDE DEF ids, valid, F
<1>3. Plan("model", first, {}, both, {})
  BY ConfigFirstPlan
<1>4. Plan("model", short, both, {path}, F) /\ Plan("model", long, both, {path}, F)
  BY <1>2, ConfigShortPlan, ConfigLongPlan
<1>5. Plan("model", last, {path}, {}, {})
  BY ConfigLastPlan
<1> DEFINE middle == IF ids.size = 0 THEN short ELSE long
<1>6. Plan("model", middle, both, {path}, F)
  BY <1>4
<1> HIDE DEF first, middle, last, both, path
<1>7. {} \cap F = {} /\ F \cap {} = {} /\ {} \cup F = F /\ F \cup {} = F
  OBVIOUS
<1>8. Plan("model", first \o middle, {}, {path}, F)
  BY <1>3, <1>6, <1>7, PlanJoin
<1>9. Plan("model", first \o middle \o last, {}, {}, F)
  BY <1>5, <1>7, <1>8, PlanJoin
<1> QED
  BY <1>1, <1>9 DEF middle, F

\* The manifest of an extracted layer.
LEMMA ManifestPlan == Plan("model", ManifestItems, {}, {}, Fields({"blobs", "blob path"}))
<1> DEFINE blobs == Own("blobs", 0, BlobCount)
           first == <<Alloc(Temp("document"), {}), Test(TRUE, {Temp("document")}),
                      Alloc(Temp("directory"), {Temp("document")}),
                      Keep(blobs, {Temp("directory"), Temp("document")})>>
           parts == [k \in 1..BlobCount |-> BlobItems(k)]
           last == <<Free({Temp("directory")}), Test(TRUE, {Temp("document")}),
                     Free({Temp("document")})>>
           n == BlobCount
           F == Fields({"blob path"})
           both == {Temp("document"), Temp("directory")}
<1>1. ManifestItems = first \o FlattenSeq(parts) \o last
  BY DEF ManifestItems
<1>2. n \in Nat
  BY SessionAssumption
<1>3. Plan("model", first, {}, both, Fields({"blobs"}))
  <2>1. blobs.owner = "model" /\ blobs.name \in NamesOf("model") /\ Key(blobs) \in Fields({"blobs"})
    BY DEF Own, Block, NamesOf, ClosedNames, Key, Fields
  <2> HIDE DEF blobs
  <2> QED
    BY <2>1, ManifestFirstPlan
<1>4. Numbered(n, parts) /\ \A k \in 1..n : parts[k] = BlobItems(k)
  BY <1>2 DEF Numbered
<1> HIDE DEF parts, first, n, both
<1>5. Plan("model", FlattenSeq(parts), both, both, F)
  <2> DEFINE H == [k \in 1..n |-> {Key(Own("blob path", k, 1))}]
  <2>1. PICK G : G = H
    OBVIOUS
  <2>2. \A k \in 1..n : G[k] = {Key(Own("blob path", k, 1))}
    BY <2>1
  <2>3. ASSUME NEW k \in 1..n PROVE Plan("model", parts[k], both, both, G[k])
    <3>1. Key(Own("blob path", k, 1)) \in G[k]
      BY <2>2
    <3> QED
      BY <1>4, <3>1, BlobPlan DEF both
  <2>6. \A k \in 1..n : G[k] = {<<"blob path", k>>}
    BY <2>2 DEF Key, Own, Block
  <2>4. \A j, k \in 1..n : j # k => G[j] \cap G[k] = {}
    BY <1>2, <2>6, ColumnIs
  <2>5. \A k \in 1..n : G[k] \subseteq F
    BY <1>2, <2>6, ColumnIs
  <2> QED
    BY <1>2, <1>4, <2>3, <2>4, <2>5, PlanMany
<1>6. Plan("model", first \o FlattenSeq(parts), {}, both, Fields({"blobs"} \cup {"blob path"}))
  BY <1>3, <1>5, FieldsJoin
<1>7. Plan("model", last, both, {}, Fields({}))
  BY ManifestLastPlan DEF both
<1> HIDE DEF last
<1>8. Plan("model", first \o FlattenSeq(parts) \o last, {}, {}, Fields({"blobs"} \cup {"blob path"} \cup {}))
  BY <1>6, <1>7, FieldsJoin
<1>9. {"blobs"} \cup {"blob path"} \cup {} = {"blobs", "blob path"}
  OBVIOUS
<1> QED
  BY <1>1, <1>8, <1>9

\* The norms of a model that evaluates text.
LEMMA TextPlan ==
  ASSUME NEW config
  PROVE  Plan("model", TextItems(config), {}, {}, Fields({"embed_norm", "final_norm"}))
<1> DEFINE e == VectorItems(Own("embed_norm", 0, config.hidden))
           f == VectorItems(Own("final_norm", 0, config.hidden))
           tt == <<Test(TRUE, {}), Test(TRUE, {})>>
<1>1. TextItems(config) = tt \o e \o f
  BY DEF TextItems
<1>2. Plan("model", tt, {}, {}, Fields({}))
  <2> DEFINE x == Test(TRUE, {})
             N == {}
             F == Fields({})
  <2>1. Follows("model", x, N, N, F) /\ x.own = {} /\ Plan("model", <<x>>, N, N, F)
    BY FollowsTest, TestPlan, TakesAndOwns
  <2> HIDE DEF x, N, F
  <2>2. Plan("model", <<x, x>>, N, N, F)
    BY <2>1, Plan2 DEF N
  <2> QED
    BY <2>2 DEF x, N, F
<1>4. Plan("model", e, {}, {}, Fields({"embed_norm"}))
  <2>1. Plan("model", e, {}, {}, {<<"embed_norm", 0>>})
    BY OwnVectorPlan DEF ClosedNames
  <2>2. {<<"embed_norm", 0>>} \subseteq Fields({"embed_norm"})
    BY DEF Fields
  <2> HIDE DEF e
  <2> QED
    BY <2>1, <2>2, PlanWider
<1>5. Plan("model", f, {}, {}, Fields({"final_norm"}))
  <2>1. Plan("model", f, {}, {}, {<<"final_norm", 0>>})
    BY OwnVectorPlan DEF ClosedNames
  <2>2. {<<"final_norm", 0>>} \subseteq Fields({"final_norm"})
    BY DEF Fields
  <2> HIDE DEF f
  <2> QED
    BY <2>1, <2>2, PlanWider
<1> HIDE DEF e, f, tt
<1>7. Plan("model", tt \o e, {}, {}, Fields({} \cup {"embed_norm"}))
  BY <1>2, <1>4, FieldsJoin
<1>8. Plan("model", tt \o e \o f, {}, {}, Fields(({} \cup {"embed_norm"}) \cup {"final_norm"}))
  BY <1>5, <1>7, FieldsJoin
<1>9. ({} \cup {"embed_norm"}) \cup {"final_norm"} = {"embed_norm", "final_norm"}
  OBVIOUS
<1> QED
  BY <1>1, <1>8, <1>9

\* An open is planned: nothing is loose when it ends, and every field gets at
\* most one block.
LEMMA OpenPlan ==
  ASSUME NEW w \in Ways
  PROVE  Plan("model", OpenItems(w), {}, {}, Fields(ClosedNames))
<1> DEFINE s1 == <<Keep(Own("model", 0, 1), {})>>
           s2 == ConfigItems(w)
           s3 == IndexItems
           s4 == ShardsItems(w)
           s5 == QuantizationItems
           s6 == IF w.trunk THEN <<Keep(Own("packed", 0, 1), {})>> ELSE <<>>
           s7 == IF Extracted(w) THEN ManifestItems ELSE <<>>
           s8 == LayersItems(w)
           s9 == IF Extracted(w) THEN <<>> ELSE TextItems(w.config)
           N1 == {"model"}
           N2 == {"local_layer_ids"}
           N3 == {"entries", "slots"}
           N4 == {"shards", "shard path"}
           N5 == {}
           N6 == {"packed"}
           N7 == {"blobs", "blob path"}
           N8 == {"layers"} \cup LayerNames
           N9 == {"embed_norm", "final_norm"}
<1>1. OpenItems(w) = s1 \o s2 \o s3 \o s4 \o s5 \o s6 \o s7 \o s8 \o s9
  BY DEF OpenItems
<1>2. /\ Plan("model", s1, {}, {}, Fields(N1)) /\ Plan("model", s2, {}, {}, Fields(N2))
      /\ Plan("model", s4, {}, {}, Fields(N4)) /\ Plan("model", s5, {}, {}, Fields(N5))
      /\ Plan("model", s8, {}, {}, Fields(N8))
  BY KeepPlan, ConfigPlan, ShardsPlan, QuantizationPlan, LayersPlan DEF ClosedNames
<1>3. Plan("model", s3, {}, {}, Fields(N3))
  <2>1. Key(Own("entries", 0, 1)) \in Fields(N3) /\ Key(Own("slots", 0, 1)) \in Fields(N3)
    BY DEF Fields, Key, Own, Block
  <2> QED
    BY <2>1, IndexPlan
<1>4. Plan("model", s6, {}, {}, Fields(N6))
  BY KeepPlan, PlanNone DEF ClosedNames
<1>5. Plan("model", s7, {}, {}, Fields(N7))
  BY ManifestPlan, PlanNone
<1>6. Plan("model", s9, {}, {}, Fields(N9))
  BY TextPlan, PlanNone
<1>7. /\ N1 \cap N2 = {} /\ (N1 \cup N2) \cap N3 = {} /\ (N1 \cup N2 \cup N3) \cap N4 = {}
      /\ (N1 \cup N2 \cup N3 \cup N4) \cap N5 = {}
      /\ (N1 \cup N2 \cup N3 \cup N4 \cup N5) \cap N6 = {}
      /\ (N1 \cup N2 \cup N3 \cup N4 \cup N5 \cup N6) \cap N7 = {}
  OBVIOUS
<1>8. /\ (N1 \cup N2 \cup N3 \cup N4 \cup N5 \cup N6 \cup N7) \cap {"layers"} = {}
      /\ (N1 \cup N2 \cup N3 \cup N4 \cup N5 \cup N6 \cup N7) \subseteq OtherNames
      /\ N9 \subseteq OtherNames /\ N9 \cap {"layers"} = {}
      /\ (N1 \cup N2 \cup N3 \cup N4 \cup N5 \cup N6 \cup N7) \cap N9 = {}
  BY DEF OtherNames
<1>9. N1 \cup N2 \cup N3 \cup N4 \cup N5 \cup N6 \cup N7 \cup N8 \cup N9 = ClosedNames
  <2>1. N1 \cup N2 \cup N3 \cup N4 \cup N5 \cup N6 \cup N7 \cup {"layers"} \cup N9 = OtherNames
    BY DEF OtherNames
  <2> DEFINE N == N1 \cup N2 \cup N3 \cup N4 \cup N5 \cup N6 \cup N7
  <2>2. N \cup {"layers"} \cup N9 = OtherNames
    BY <2>1
  <2> HIDE DEF N, N9
  <2>3. N \cup ({"layers"} \cup LayerNames) \cup N9 = ClosedNames
    BY <2>2, LayerNamesAre
  <2> QED
    BY <2>3 DEF N
<1> DEFINE M == N1 \cup N2 \cup N3 \cup N4 \cup N5 \cup N6 \cup N7
<1>10. M \cap N8 = {} /\ (M \cup N8) \cap N9 = {} /\ M \cup N8 \cup N9 = ClosedNames
  <2>1. M \cap {"layers"} = {} /\ M \subseteq OtherNames /\ M \cap N9 = {}
    BY <1>8
  <2>2. M \cup N8 \cup N9 = ClosedNames
    BY <1>9
  <2> HIDE DEF M, N9
  <2> QED
    BY <1>8, <2>1, <2>2, LayerNamesAre
<1> HIDE DEF s1, s2, s3, s4, s5, s6, s7, s8, s9, N1, N2, N3, N4, N5, N6, N7, N8, N9
<1>11. Plan("model", s1 \o s2, {}, {}, Fields(N1 \cup N2))
  BY <1>2, <1>7, FieldsJoin
<1>12. Plan("model", s1 \o s2 \o s3, {}, {}, Fields(N1 \cup N2 \cup N3))
  BY <1>3, <1>7, <1>11, FieldsJoin
<1>13. Plan("model", s1 \o s2 \o s3 \o s4, {}, {}, Fields(N1 \cup N2 \cup N3 \cup N4))
  BY <1>2, <1>7, <1>12, FieldsJoin
<1>14. Plan("model", s1 \o s2 \o s3 \o s4 \o s5, {}, {}, Fields(N1 \cup N2 \cup N3 \cup N4 \cup N5))
  BY <1>2, <1>7, <1>13, FieldsJoin
<1>15. Plan("model", s1 \o s2 \o s3 \o s4 \o s5 \o s6, {}, {}, Fields(N1 \cup N2 \cup N3 \cup N4 \cup N5 \cup N6))
  BY <1>4, <1>7, <1>14, FieldsJoin
<1>16. Plan("model", s1 \o s2 \o s3 \o s4 \o s5 \o s6 \o s7, {}, {}, Fields(N1 \cup N2 \cup N3 \cup N4 \cup N5 \cup N6 \cup N7))
  BY <1>5, <1>7, <1>15, FieldsJoin
<1>17. Plan("model", s1 \o s2 \o s3 \o s4 \o s5 \o s6 \o s7, {}, {}, Fields(M))
  BY <1>16 DEF M
<1> HIDE DEF M
<1>18. Plan("model", s1 \o s2 \o s3 \o s4 \o s5 \o s6 \o s7 \o s8, {}, {}, Fields(M \cup N8))
  BY <1>2, <1>10, <1>17, FieldsJoin
<1>19. Plan("model", s1 \o s2 \o s3 \o s4 \o s5 \o s6 \o s7 \o s8 \o s9, {}, {}, Fields(M \cup N8 \cup N9))
  BY <1>6, <1>10, <1>18, FieldsJoin
<1> QED
  BY <1>1, <1>10, <1>19

-------------------------------------------------------------------------------
(***************************************************************************)
(* The rows stay together: every action keeps SInv.                        *)
(***************************************************************************)

\* Some item of the sequence cannot succeed.
Stops(s) == \E item \in Range(s) : item.rows = 0 /\ ~item.pass

\* It stops what it is joined to.
LEMMA StopsJoin ==
  ASSUME NEW s, NEW t, IsList(s), IsList(t)
  PROVE  IsList(s \o t) /\ (Stops(s) \/ Stops(t) => Stops(s \o t))
BY ElementsOfTwo DEF IsList, Stops

\* The configuration of an open that goes through is valid.
LEMMA ConfigStops ==
  ASSUME NEW w, ~Valid(w.config)
  PROVE  Stops(ConfigItems(w))
<1> DEFINE ids == Own("local_layer_ids", 0, Cardinality(w.config.local))
           valid == Valid(w.config)
           first == <<Alloc(Temp("path"), {}), Alloc(Temp("document"), {Temp("path")})>>
           short == <<Free({Temp("document")}), Test(valid, {Temp("path")})>>
           long == <<Alloc(ids, {Temp("document"), Temp("path")}), Free({Temp("document")}),
                     Test(valid, {ids, Temp("path")}), Become({ids})>>
           last == <<Free({Temp("path")}), Test(TRUE, {})>>
           middle == IF ids.size = 0 THEN short ELSE long
<1>1. ConfigItems(w) = first \o middle \o last
  BY DEF ConfigItems
<1>2. IsList(first) /\ IsList(middle) /\ IsList(last)
  BY ListedShort
<1>3. \A undo : Test(valid, undo).rows = 0 /\ ~Test(valid, undo).pass
  BY DEF Test, Item
<1>4. Stops(middle)
  <2>1. CASE ids.size = 0
    <3>1. short[2] = Test(valid, {Temp("path")}) /\ 2 \in DOMAIN short
      OBVIOUS
    <3> HIDE DEF short, valid
    <3>2. Stops(short)
      BY <1>3, <3>1 DEF Stops, Range
    <3> QED
      BY <2>1, <3>2
  <2>2. CASE ids.size # 0
    <3>1. long[3] = Test(valid, {ids, Temp("path")}) /\ 3 \in DOMAIN long
      OBVIOUS
    <3> HIDE DEF long, valid
    <3>2. Stops(long)
      BY <1>3, <3>1 DEF Stops, Range
    <3> QED
      BY <2>2, <3>2
  <2> QED
    BY <2>1, <2>2
<1> HIDE DEF first, middle, last
<1>5. IsList(first \o middle) /\ Stops(first \o middle)
  BY <1>2, <1>4, StopsJoin
<1> QED
  BY <1>1, <1>2, <1>5, StopsJoin

\* So is that of the whole model.
LEMMA OpenStops ==
  ASSUME NEW w \in Ways
  PROVE  IsList(OpenItems(w)) /\ (~Valid(w.config) => Stops(OpenItems(w)))
<1> DEFINE s1 == <<Keep(Own("model", 0, 1), {})>>
           s2 == ConfigItems(w)
           s3 == IndexItems
           s4 == ShardsItems(w)
           s5 == QuantizationItems
           s6 == IF w.trunk THEN <<Keep(Own("packed", 0, 1), {})>> ELSE <<>>
           s7 == IF Extracted(w) THEN ManifestItems ELSE <<>>
           s8 == LayersItems(w)
           s9 == IF Extracted(w) THEN <<>> ELSE TextItems(w.config)
<1>1. OpenItems(w) = s1 \o s2 \o s3 \o s4 \o s5 \o s6 \o s7 \o s8 \o s9
  BY DEF OpenItems
<1>2. IsList(OpenItems(w))
  BY OpenPlan DEF Plan, IsList
<1>3. ASSUME ~Valid(w.config) PROVE Stops(OpenItems(w))
  <2>1. IsList(s1) /\ IsList(s6)
    BY ListedShort
  <2>2. IsList(s2) /\ IsList(s4) /\ IsList(s5) /\ IsList(s8)
    BY ConfigPlan, ShardsPlan, QuantizationPlan, LayersPlan DEF Plan, IsList
  <2>3. IsList(s3)
    <3> DEFINE F == {Key(Own("entries", 0, 1)), Key(Own("slots", 0, 1))}
    <3>1. Plan("model", s3, {}, {}, F)
      BY IndexPlan
    <3> QED
      BY <3>1 DEF Plan, IsList
  <2>4. IsList(s7)
    BY ManifestPlan, ListedShort DEF Plan, IsList
  <2>5. IsList(s9)
    BY TextPlan, ListedShort DEF Plan, IsList
  <2>6. Stops(s2)
    BY <1>3, ConfigStops
  <2> HIDE DEF s1, s2, s3, s4, s5, s6, s7, s8, s9
  <2>7. IsList(s1 \o s2) /\ Stops(s1 \o s2)
    BY <2>1, <2>2, <2>6, StopsJoin
  <2>8. IsList(s1 \o s2 \o s3) /\ Stops(s1 \o s2 \o s3)
    BY <2>3, <2>7, StopsJoin
  <2>9. IsList(s1 \o s2 \o s3 \o s4) /\ Stops(s1 \o s2 \o s3 \o s4)
    BY <2>2, <2>8, StopsJoin
  <2>10. IsList(s1 \o s2 \o s3 \o s4 \o s5) /\ Stops(s1 \o s2 \o s3 \o s4 \o s5)
    BY <2>2, <2>9, StopsJoin
  <2>11. IsList(s1 \o s2 \o s3 \o s4 \o s5 \o s6) /\ Stops(s1 \o s2 \o s3 \o s4 \o s5 \o s6)
    BY <2>1, <2>10, StopsJoin
  <2>12. /\ IsList(s1 \o s2 \o s3 \o s4 \o s5 \o s6 \o s7)
         /\ Stops(s1 \o s2 \o s3 \o s4 \o s5 \o s6 \o s7)
    BY <2>4, <2>11, StopsJoin
  <2>13. /\ IsList(s1 \o s2 \o s3 \o s4 \o s5 \o s6 \o s7 \o s8)
         /\ Stops(s1 \o s2 \o s3 \o s4 \o s5 \o s6 \o s7 \o s8)
    BY <2>2, <2>12, StopsJoin
  <2>14. Stops(s1 \o s2 \o s3 \o s4 \o s5 \o s6 \o s7 \o s8 \o s9)
    BY <2>5, <2>13, StopsJoin
  <2> QED
    BY <1>1, <2>14
<1> QED
  BY <1>2, <1>3

-------------------------------------------------------------------------------
\* Between calls nothing is being built.
LEMMA ReadyIs ==
  ASSUME Shaped, Staged, Ready
  PROVE  \A o \in Owners : stage[o] \in {"none", "live"}
BY DEF Shaped, Staged

\* What a live context has behind it.
LEMMA LayersLive ==
  ASSUME Shaped, Staged, Sane, stage["model"] = "live" \/ \E c \in Contexts : stage[c] # "none"
  PROVE  /\ stage["model"] = "live" /\ \E w \in Ways : Valid(w.config) /\ model = Model(w)
         /\ \E n \in Nat : DOMAIN model.layers = 1..n
<1>1. stage["model"] = "live"
  BY DEF Staged
<1>2. PICK w \in Ways : Valid(w.config) /\ model = Model(w)
  BY <1>1 DEF Sane
<1>3. \E n \in Nat \ {0} : DOMAIN model.layers = 1..n
  BY <1>2, LayersAre
<1> QED
  BY <1>1, <1>2, <1>3

\* A step that leaves the buffers and the model alone.
LEMMA RowsKept ==
  ASSUME RowsTogether, UNCHANGED <<held, scratch, model>>
  PROVE  RowsTogether'
<1>1. /\ \A name : Widest(name)' = Widest(name)
      /\ Hidden' = Hidden
  BY DEF Widest, Hidden
<1>2. RowWidths' = RowWidths
  BY <1>1 DEF RowWidths, KvWidth
<1>3. \A c, tokens : Rows(c, tokens)' = Rows(c, tokens)
  BY <1>2 DEF Rows
<1>4. \A c : RowsHeld(c)' = RowsHeld(c)
  BY DEF RowsHeld
<1> QED
  BY <1>3, <1>4 DEF RowsTogether

\* Initially.
LEMMA SessionInitial == SessionInit => SInv
<1> SUFFICES ASSUME SessionInit PROVE SInv
  OBVIOUS
<1>1. Shaped
  <2>1. <<>> \in Seq(Range(<<>>))
    BY EmptySeq DEF Range
  <2>2. \A c \in Contexts : (CHOOSE o \in Options : TRUE) \in Options
    BY SessionAssumption
  <2> QED
    BY <2>1, <2>2 DEF SessionInit, Shaped, Owners
<1>2. Staged /\ Sane /\ Calm
  BY SessionAssumption DEF SessionInit, Staged, Sane, Calm, Owners, Ready
<1>3. RowsTogether
  BY DEF SessionInit, RowsTogether, RowsHeld, Owners
<1> QED
  BY <1>1, <1>2, <1>3 DEF SInv

\* An open.
LEMMA RowsOpen == SInv /\ OpenModel => SInv'
<1> SUFFICES ASSUME SInv, OpenModel PROVE SInv'
  OBVIOUS
<1>1. PICK w \in Ways : way' = w /\ Begin("model", "open", OpenItems(w))
  BY DEF OpenModel
<1>2. Shaped'
  <2>1. OpenItems(w) \in Seq(Range(OpenItems(w)))
    BY OpenStops DEF IsList
  <2> QED
    BY <1>1, <2>1 DEF SInv, Shaped, OpenModel, Begin, Owners, contextData
<1>3. Staged'
  <2>1. \A o \in Owners : stage[o] \in {"none", "live"}
    BY ReadyIs DEF SInv, OpenModel
  <2>2. "model" \notin Contexts /\ stage' = [stage EXCEPT !["model"] = "building"]
    BY SessionAssumption DEF OpenModel
  <2>3. \A c \in Contexts : stage'[c] = stage[c] /\ stage[c] = "none" /\ scratch'[c] = scratch[c]
    BY <2>2 DEF SInv, Staged, Shaped, OpenModel, Owners, contextData
  <2> QED
    BY <1>1, <2>1, <2>2, <2>3 DEF SInv, Staged, Shaped, Begin, Owners, Ready
<1>4. Sane'
  <2>1. stage'["model"] = "building"
    BY DEF SInv, Shaped, OpenModel, Owners
  <2>2. Valid(w.config) \/ Stops(OpenItems(w))
    BY OpenStops
  <2> QED
    BY <1>1, <2>1, <2>2 DEF Sane, Stops, Begin
<1>5. Calm'
  BY <1>1, SessionAssumption DEF Calm, Begin, Ready
<1>6. RowsTogether'
  BY <1>1, RowsKept DEF SInv, OpenModel, Begin, contextData
<1> QED
  BY <1>2, <1>3, <1>4, <1>5, <1>6 DEF SInv

\* A creation.
LEMMA RowsCreate == ASSUME NEW c \in Contexts PROVE SInv /\ CreateContext(c) => SInv'
<1> SUFFICES ASSUME SInv, CreateContext(c) PROVE SInv'
  OBVIOUS
<1>1. PICK o \in Options :
        /\ options' = [options EXCEPT ![c] = o]
        /\ by' = c /\ doing' = "create" /\ todo' = CreateItems(c, o)
        /\ UNCHANGED <<heap, held, pins, misuse>>
  BY DEF CreateContext, Begin
<1>2. stage' = [stage EXCEPT ![c] = "building"] /\ UNCHANGED <<model, scratch, position, way>>
  BY DEF CreateContext
<1>3. Steady(CreateItems(c, o))
  <2>1. \E n \in Nat : DOMAIN model.layers = 1..n
    BY LayersLive DEF SInv, CreateContext
  <2> QED
    BY <2>1, SteadyCreate
<1>4. Shaped'
  <2>1. CreateItems(c, o) \in Seq(Range(CreateItems(c, o)))
    BY <1>3 DEF Steady
  <2> QED
    BY <1>1, <1>2, <2>1 DEF SInv, Shaped, Owners
<1>5. Staged'
  <2>1. \A x \in Owners : stage[x] \in {"none", "live"}
    BY ReadyIs DEF SInv, CreateContext
  <2>2. c # "model" /\ stage'["model"] = "live" /\ stage'[c] = "building"
    BY <1>2, SessionAssumption DEF CreateContext, SInv, Shaped, Owners
  <2>3. \A x \in Owners : x # c => stage'[x] = stage[x]
    BY <1>2 DEF SInv, Shaped
  <2> QED
    BY <1>1, <1>2, <2>1, <2>2, <2>3 DEF SInv, Staged, Owners, Ready
<1>6. Sane'
  BY <1>1, <1>2, SessionAssumption DEF SInv, Sane, Shaped, Owners, CreateContext
<1>7. Calm'
  BY <1>1, <1>3 DEF Calm, Ready
<1>8. RowsTogether'
  BY <1>1, <1>2, RowsKept DEF SInv
<1> QED
  BY <1>4, <1>5, <1>6, <1>7, <1>8 DEF SInv

\* The beginning of any other call.
LEMMA RowsEvaluate ==
  ASSUME NEW c \in Contexts, NEW call, call \notin {"nothing", "open"}, NEW items, Steady(items)
  PROVE  SInv /\ Evaluate(c, call, items) => SInv'
<1> SUFFICES ASSUME SInv, Evaluate(c, call, items) PROVE SInv'
  OBVIOUS
<1>1. /\ Ready /\ stage[c] = "live" /\ by' = c /\ doing' = call /\ todo' = items
      /\ UNCHANGED <<heap, held, pins, misuse, model, options, scratch, position, stage, way>>
  BY DEF Evaluate, Begin, contextData
<1>2. Shaped'
  <2>1. items \in Seq(Range(items))
    BY DEF Steady
  <2> QED
    BY <1>1, <2>1 DEF SInv, Shaped, Owners
<1>3. Staged'
  <2>1. \A x \in Owners : stage[x] \in {"none", "live"}
    BY <1>1, ReadyIs DEF SInv
  <2>2. c # "model"
    BY SessionAssumption
  <2> QED
    BY <1>1, <2>1, <2>2 DEF SInv, Staged, Ready
<1>4. Sane'
  BY <1>1 DEF SInv, Sane
<1>5. Calm'
  BY <1>1 DEF Calm, Ready
<1>6. RowsTogether'
  BY <1>1, RowsKept DEF SInv
<1> QED
  BY <1>2, <1>3, <1>4, <1>5, <1>6 DEF SInv

\* Those calls.
LEMMA RowsCalls ==
  ASSUME NEW c \in Contexts
  PROVE  SInv /\ (Blocks(c) \/ Forward(c) \/ Prefill(c) \/ Decode(c) \/ Prepare(c)) => SInv'
<1> SUFFICES ASSUME SInv, Blocks(c) \/ Forward(c) \/ Prefill(c) \/ Decode(c) \/ Prepare(c)
             PROVE  SInv'
  OBVIOUS
<1>1. options[c].max_tokens \in Nat
  BY SessionAssumption DEF SInv, Shaped
<1>2. stage[c] = "live"
  BY DEF Blocks, Forward, Prefill, Decode, Prepare, Evaluate
<1>3. PICK n \in Nat : DOMAIN model.layers = 1..n
  BY <1>2, LayersLive DEF SInv
<1>4. \A tokens \in 1..options[c].max_tokens : tokens \in Nat
  BY <1>1
<1>5. CASE Blocks(c)
  <2>1. PICK k \in DOMAIN model.layers, tokens \in 1..options[c].max_tokens :
          \/ Evaluate(c, "attention", AttentionCall(c, k, tokens, FALSE))
          \/ Evaluate(c, "mlp", MlpCall(c, k, tokens, FALSE))
          \/ Evaluate(c, "layer", LayerCall(c, k, tokens, {}))
    BY <1>5 DEF Blocks
  <2>2. /\ Steady(AttentionCall(c, k, tokens, FALSE)) /\ Steady(MlpCall(c, k, tokens, FALSE))
        /\ Steady(LayerCall(c, k, tokens, {}))
    BY <1>4, IdleCalls, IdleLayer, IdleIsSteady
  <2> QED
    BY <2>1, <2>2, RowsEvaluate
<1>6. CASE Forward(c)
  <2>1. PICK tokens \in 1..options[c].max_tokens : Evaluate(c, "forward", ForwardCall(c, tokens))
    BY <1>6 DEF Forward
  <2>2. Steady(ForwardCall(c, tokens))
    BY <1>3, <1>4, IdleForward, IdleIsSteady
  <2> QED
    BY <2>1, <2>2, RowsEvaluate
<1>7. CASE Prefill(c)
  <2>1. PICK tokens \in 1..options[c].max_tokens : Evaluate(c, "prefill", PrefillCall(c, tokens))
    BY <1>7 DEF Prefill
  <2>2. Steady(PrefillCall(c, tokens))
    BY <1>3, <1>4, IdlePrefill, IdleIsSteady
  <2> QED
    BY <2>1, <2>2, RowsEvaluate
<1>8. CASE Decode(c)
  <2>1. Evaluate(c, "decode", TokenCall(c, position[c]))
    BY <1>8 DEF Decode
  <2>2. Steady(TokenCall(c, position[c]))
    BY <1>3, IdleToken, IdleIsSteady
  <2> QED
    BY <2>1, <2>2, RowsEvaluate
<1>9. CASE Prepare(c)
  <2>1. Evaluate(c, "prepare", GenerationItems(c)) /\ Steady(GenerationItems(c))
    BY <1>9, SteadyGeneration DEF Prepare
  <2> QED
    BY <2>1, RowsEvaluate
<1> QED
  BY <1>5, <1>6, <1>7, <1>8, <1>9

\* A decode that is refused.
LEMMA RowsRefused == ASSUME NEW c \in Contexts PROVE SInv /\ DecodeRefused(c) => SInv'
<1> SUFFICES ASSUME SInv, DecodeRefused(c) PROVE SInv'
  OBVIOUS
<1>1. UNCHANGED <<heap, held, by, todo, pins, misuse, model, options, scratch, stage, doing, way>>
  BY DEF DecodeRefused, allocations
<1>2. Shaped' /\ Staged' /\ Sane'
  BY <1>1 DEF SInv, Shaped, Staged, Sane, Ready
<1>3. Calm'
  <2>1. todo = <<>>
    BY DEF SInv, Calm, DecodeRefused
  <2> QED
    BY <1>1, <2>1, SteadyNothing DEF Calm
<1>4. RowsTogether'
  BY <1>1, RowsKept DEF SInv
<1> QED
  BY <1>2, <1>3, <1>4 DEF SInv

\* The items of a nonempty sequence are its first and the rest.
LEMMA TailIs ==
  ASSUME NEW s, IsList(s), s # <<>>
  PROVE  /\ IsList(Tail(s)) /\ Head(s) \in Range(s) /\ Range(Tail(s)) \subseteq Range(s)
         /\ \A x \in Range(s) : x = Head(s) \/ x \in Range(Tail(s))
         /\ Len(s) \in Nat \ {0} /\ Len(Tail(s)) = Len(s) - 1 /\ Head(s) = s[1]
         /\ \A i \in 1..Len(s) - 1 : Tail(s)[i] = s[i + 1]
<1>1. s \in Seq(Range(s)) /\ Len(s) \in Nat /\ Range(s) = {s[i] : i \in 1..Len(s)}
  BY ElementsAre DEF IsList
<1>2. /\ Head(s) \in Range(s) /\ Tail(s) \in Seq(Range(s)) /\ Head(s) = s[1]
      /\ Len(Tail(s)) = Len(s) - 1 /\ Len(s) # 0
      /\ \A i \in 1..Len(s) - 1 : Tail(s)[i] = s[i + 1]
  BY <1>1, HeadTailProperties, EmptySeq
<1>3. Range(Tail(s)) \subseteq Range(s) /\ IsList(Tail(s)) /\ Range(Tail(s)) = {Tail(s)[i] : i \in 1..Len(s) - 1}
  BY <1>2, ElementsAre DEF IsList
<1>4. ASSUME NEW x \in Range(s) PROVE x = Head(s) \/ x \in Range(Tail(s))
  <2>1. PICK i \in 1..Len(s) : x = s[i]
    BY <1>1
  <2>2. CASE i = 1
    BY <1>2, <2>1, <2>2
  <2>3. CASE i # 1
    <3>1. i - 1 \in 1..Len(s) - 1 /\ (i - 1) + 1 = i
      BY <1>1, <2>3
    <3>2. Tail(s)[i - 1] = x
      BY <1>2, <2>1, <3>1
    <3> QED
      BY <1>3, <3>1, <3>2
  <2> QED
    BY <2>2, <2>3
<1> QED
  BY <1>1, <1>2, <1>3, <1>4

\* The items of a reservation, by number.
RowsTo(c, tokens, m) == {Rows(c, tokens)[j] : j \in 1..m}
Loads(c, tokens, i) == Alloc(Rows(c, tokens)[i], RowsTo(c, tokens, i - 1))
Exchange(c, tokens) ==
  [Item EXCEPT !.drop = RowsHeld(c), !.own = Range(Rows(c, tokens)), !.scratch = tokens]

\* They are nine allocations and an exchange.
LEMMA RowItemsAre ==
  ASSUME NEW c, NEW tokens
  PROVE  /\ IsList(RowItems(c, tokens)) /\ Len(RowItems(c, tokens)) = 10
         /\ \A i \in 1..9 : RowItems(c, tokens)[i] = Loads(c, tokens, i)
         /\ RowItems(c, tokens)[10] = Exchange(c, tokens)
<1> DEFINE s == [i \in 1..9 |-> Loads(c, tokens, i)]
           x == Exchange(c, tokens)
           t == <<x>>
           S == Range(s) \cup {x}
<1>1. RowItems(c, tokens) = s \o t
  BY DEF RowItems, Loads, RowsTo, Exchange
<1>2. s = [i \in 1..9 |-> s[i]] /\ \A i \in 1..9 : s[i] = Loads(c, tokens, i)
  OBVIOUS
<1>3. t[1] = x /\ Len(t) = 1 /\ t \in Seq({x})
  OBVIOUS
<1> HIDE DEF s, x, t
<1>4. s \in Seq(Range(s))
  BY <1>2, ListIs
<1>5. s \in Seq(S) /\ t \in Seq(S)
  <2>1. \A v, T : v \in Seq(T) /\ T \subseteq S => v \in Seq(S)
    OBVIOUS
  <2>2. Range(s) \subseteq S /\ {x} \subseteq S
    OBVIOUS
  <2> HIDE DEF S
  <2> QED
    BY <1>3, <1>4, <2>1, <2>2
<1> HIDE DEF S
<1>6. Len(s) = 9
  <2>1. DOMAIN s = 1..9
    BY <1>2
  <2> QED
    BY <1>4, <2>1, LenProperties
<1>7. /\ Len(s \o t) = Len(s) + Len(t)
      /\ \A i \in 1..Len(s) + Len(t) : (s \o t)[i] = IF i <= Len(s) THEN s[i] ELSE t[i - Len(s)]
  BY <1>5, ConcatProperties
<1>8. Len(s \o t) = 10 /\ (\A i \in 1..9 : (s \o t)[i] = s[i]) /\ (s \o t)[10] = t[1]
  BY <1>3, <1>6, <1>7
<1>9. IsList(s \o t)
  BY <1>5, ElementsAre, ConcatProperties DEF IsList
<1> QED
  BY <1>1, <1>2, <1>3, <1>8, <1>9 DEF x

\* Of any owner.
LEMMA RowItemsListed == \A c, tokens : IsList(RowItems(c, tokens))
BY RowItemsAre

\* The buffers with a row per token, by number.
LEMMA RowsAre ==
  ASSUME NEW c, NEW n, NEW i \in 1..9
  PROVE  /\ Rows(c, n)[i].owner = c /\ Rows(c, n)[i].name = RowNames[i] /\ Rows(c, n)[i].index = 0
         /\ Rows(c, n)[i].size = n * RowWidths[RowNames[i]]
         /\ Rows(c, n)[i] \in Range(Rows(c, n)) /\ RowNames[i] \in Range(RowNames)
<1>1. Rows(c, n)[i] = Block(c, RowNames[i], 0, n * RowWidths[RowNames[i]])
  BY DEF Rows
<1>2. Rows(c, n)[i] \in Range(Rows(c, n))
  BY DEF Rows, Range
<1>3. RowNames[i] \in Range(RowNames)
  BY DEF RowNames, Range
<1> QED
  BY <1>1, <1>2, <1>3 DEF Block

\* All of them.
LEMMA RowsRange ==
  ASSUME NEW c, NEW n
  PROVE  /\ Range(Rows(c, n)) = {Rows(c, n)[i] : i \in 1..9}
         /\ \A b \in Range(Rows(c, n)) : b.name \in Range(RowNames) /\ b.owner = c /\ b.index = 0
<1>1. Range(Rows(c, n)) = {Rows(c, n)[i] : i \in 1..9}
  BY DEF Range, Rows
<1> QED
  BY <1>1, RowsAre

\* What is in the buffers when the context has them: nothing that could be
\* mistaken for longer ones.
LEMMA RowsLonger ==
  ASSUME SInv, NEW c \in Contexts, stage[c] # "none", NEW tokens \in Nat, tokens > scratch[c]
  PROVE  \A i \in 1..9 : Rows(c, tokens)[i] \notin held[c]
<1>1. PICK w \in Ways : Valid(w.config) /\ model = Model(w)
  BY LayersLive DEF SInv
<1>2. \A name \in Range(RowNames) : RowWidths[name] \in Nat \ {0}
  BY <1>1, WidthsPositive
<1>3. scratch[c] \in Nat
  BY DEF SInv, Shaped
<1>4. ASSUME NEW i \in 1..9, Rows(c, tokens)[i] \in held[c] PROVE FALSE
  <2>1. Rows(c, tokens)[i] \in RowsHeld(c)
    BY <1>4, RowsAre DEF RowsHeld
  <2>2. PICK j \in 1..9 : Rows(c, tokens)[i] = Rows(c, scratch[c])[j]
    BY <2>1, RowsRange DEF SInv, RowsTogether
  <2>3. /\ Rows(c, tokens)[i].name = RowNames[i]
        /\ Rows(c, tokens)[i].size = tokens * RowWidths[RowNames[i]]
    BY RowsAre
  <2>4. /\ Rows(c, scratch[c])[j].name = RowNames[j]
        /\ Rows(c, scratch[c])[j].size = scratch[c] * RowWidths[RowNames[j]]
    BY RowsAre
  <2>5. \A m, n \in Nat, k \in Nat \ {0} : m > n => m * k # n * k
    OBVIOUS
  <2>6. RowNames[i] \in Range(RowNames)
    BY RowsAre
  <2> QED
    BY <1>2, <1>3, <2>2, <2>3, <2>4, <2>5, <2>6
<1> QED
  BY <1>4

\* A reservation begins.
LEMMA ReservingRows ==
  ASSUME SInv, NEW c \in Contexts, stage[c] # "none", NEW tokens \in Nat, tokens > scratch[c],
         NEW rest, Steady(rest)
  PROVE  Reserving(c, RowItems(c, tokens) \o rest)
<1> DEFINE s == RowItems(c, tokens)
           u == s \o rest
<1> DEFINE n == Len(rest)
<1>1. s \in Seq(Range(s)) /\ Len(s) = 10 /\ rest \in Seq(Range(rest)) /\ n \in Nat
  <2>1. rest \in Seq(Range(rest))
    BY DEF Steady
  <2> QED
    BY <2>1, RowItemsAre, ElementsAre DEF IsList
<1>0. \A i \in 1..n : Quiet(rest[i])
  BY DEF Steady
<1>2. /\ Len(u) = 10 + n
      /\ \A i \in 1..10 : u[i] = s[i]
      /\ \A i \in 11..10 + n : u[i] = rest[i - 10]
  <2> DEFINE S == Range(s) \cup Range(rest)
  <2>1. Range(s) \subseteq S /\ Range(rest) \subseteq S
    OBVIOUS
  <2> HIDE DEF S
  <2>2. \A v, T : v \in Seq(T) /\ T \subseteq S => v \in Seq(S)
    OBVIOUS
  <2>3. s \in Seq(S) /\ rest \in Seq(S)
    BY <1>1, <2>1, <2>2
  <2> HIDE DEF s
  <2>4. /\ Len(u) = Len(s) + n
        /\ \A i \in 1..Len(s) + n : u[i] = IF i <= Len(s) THEN s[i] ELSE rest[i - Len(s)]
    BY <2>3, ConcatProperties
  <2> HIDE DEF u, n
  <2> QED
    BY <1>1, <2>4
<1> HIDE DEF n, u
<1>3. Exchanges(c, u[10])
  <2>1. u[10] = Exchange(c, tokens)
    BY <1>2, RowItemsAre DEF s
  <2>2. scratch[c] \in Nat
    BY DEF SInv, Shaped
  <2> QED
    BY <2>1, <2>2 DEF Exchanges, Exchange, Item
<1>4. ASSUME NEW i \in 1..9 PROVE Loading(c, u[i])
  <2>1. u[i] = Loads(c, tokens, i)
    BY <1>2, RowItemsAre DEF s
  <2>2. \A j \in 1..i - 1 : Rows(c, tokens)[j] \notin held[c]
    BY RowsLonger
  <2>3. RowsTo(c, tokens, i - 1) \cap held[c] = {}
    BY <2>2 DEF RowsTo
  <2> QED
    BY <2>1, <2>3 DEF Loading, Loads, Alloc, Item
<1>5. ASSUME NEW i \in 11..Len(u) PROVE Quiet(u[i])
  <2>1. i - 10 \in 1..n /\ i \in 11..10 + n
    BY <1>1, <1>2
  <2> QED
    BY <1>0, <1>2, <2>1
<1>6. 10 \in 1..Len(u) /\ 10 - 1 = 9 /\ 10 + 1 = 11
  BY <1>1, <1>2
<1>7. Reserving(c, u)
  BY <1>3, <1>4, <1>5, <1>6 DEF Reserving
<1> QED
  BY <1>7 DEF u

\* It stays under way as long as neither the buffers nor the model change.
LEMMA ReservingKept ==
  ASSUME NEW c, NEW s, Reserving(c, s), UNCHANGED <<held, model>>
  PROVE  Reserving(c, s)'
<1>1. RowsHeld(c)' = RowsHeld(c)
  BY DEF RowsHeld
<1>2. \A n : Rows(c, n)' = Rows(c, n)
  BY DEF Rows, RowWidths, Hidden, Widest, KvWidth
<1>3. \A x : Exchanges(c, x) => Exchanges(c, x)'
  BY <1>1, <1>2 DEF Exchanges
<1>4. \A x : Loading(c, x) => Loading(c, x)'
  BY DEF Loading
<1>5. PICK j \in 1..Len(s) : /\ Exchanges(c, s[j]) /\ \A i \in 1..j - 1 : Loading(c, s[i])
                            /\ \A i \in j + 1..Len(s) : Quiet(s[i])
  BY DEF Reserving
<1>6. Exchanges(c, s[j])' /\ \A i \in 1..j - 1 : Loading(c, s[i])'
  BY <1>3, <1>4, <1>5
<1> QED
  BY <1>5, <1>6 DEF Reserving

\* A reservation: nothing to do, or nine allocations and an exchange.
LEMMA RowsReserve == SInv /\ ReserveRows => SInv'
<1> SUFFICES ASSUME SInv, ReserveRows PROVE SInv'
  OBVIOUS
<1> DEFINE t == Head(todo).rows
           front == IF Reserved(by, t) THEN <<>> ELSE RowItems(by, t)
<1>1. /\ todo # <<>> /\ t > 0 /\ todo' = front \o Tail(todo)
      /\ UNCHANGED <<heap, held, by, pins, misuse, model, options, scratch, position, stage, doing, way>>
  BY DEF ReserveRows, contextData
<1>2. ~Ready /\ todo \in Seq(Range(todo))
  BY <1>1 DEF SInv, Calm, Shaped
<1>3. IsList(Tail(todo)) /\ \A x \in Range(todo) : x = Head(todo) \/ x \in Range(Tail(todo))
  <2>1. IsList(todo)
    BY <1>2 DEF IsList
  <2> QED
    BY <1>1, <2>1, TailIs
<1>4. IsList(front)
  BY RowItemsListed, ListedShort
<1> HIDE DEF front
<1>5. IsList(todo') /\ Range(todo') = Range(front) \cup Range(Tail(todo))
  BY <1>1, <1>3, <1>4, ElementsOfTwo DEF IsList
<1>6. Shaped'
  BY <1>1, <1>5 DEF SInv, Shaped, IsList
<1>7. Staged'
  BY <1>1 DEF SInv, Staged, Ready
<1>8. Sane'
  <2>1. ASSUME NEW item \in Range(todo), item.rows = 0, ~item.pass PROVE item \in Range(todo')
    BY <1>1, <1>3, <1>5, <2>1
  <2> QED
    BY <1>1, <2>1 DEF SInv, Sane
<1>9. Calm'
  <2>0. PICK s : s = todo'
    OBVIOUS
  <2>1. SUFFICES ASSUME by \in Contexts PROVE Steady(s) \/ Reserving(by, s)
    <3>1. PICK c : c = by
      OBVIOUS
    <3>2. ASSUME Reserving(c, s) PROVE Reserving(c, s)'
      BY <1>1, <3>2, ReservingKept
    <3> QED
      BY <1>1, <1>2, <2>0, <3>1, <3>2 DEF Calm, Ready
  <2>2. Steady(todo)
    <3>1. Head(todo) = todo[1] /\ Len(todo) \in Nat \ {0}
      BY <1>1, <1>2, HeadTailProperties, EmptySeq
    <3>2. ~Reserving(by, todo)
      <4>1. SUFFICES ASSUME Reserving(by, todo) PROVE FALSE
        OBVIOUS
      <4>2. PICK j \in 1..Len(todo) : Exchanges(by, todo[j]) /\ \A i \in 1..j - 1 : Loading(by, todo[i])
        BY <4>1 DEF Reserving
      <4>3. CASE j = 1
        BY <1>1, <3>1, <4>2, <4>3 DEF Exchanges
      <4>4. CASE j # 1
        <5>1. 1 \in 1..j - 1
          BY <3>1, <4>4
        <5> QED
          BY <1>1, <3>1, <4>2, <5>1 DEF Loading
      <4> QED
        BY <4>3, <4>4
    <3> QED
      BY <2>1, <3>2 DEF SInv, Calm
  <2>3. Steady(Tail(todo)) /\ t \in Nat
    BY <1>1, <2>2, SteadyTail DEF Quiet
  <2>4. CASE Reserved(by, t)
    BY <1>1, <2>0, <2>3, <2>4, SteadyNothing, SteadyJoin DEF front
  <2>5. CASE ~Reserved(by, t)
    <3>1. t > scratch[by] /\ stage[by] # "none"
      BY <1>2, <2>1, <2>3, <2>5 DEF Reserved, SInv, Staged, Shaped
    <3>2. Reserving(by, RowItems(by, t) \o Tail(todo))
      BY <1>1, <2>1, <2>3, <3>1, ReservingRows
    <3> QED
      BY <1>1, <2>0, <2>5, <3>2 DEF front
  <2> QED
    BY <2>4, <2>5
<1>10. RowsTogether'
  BY <1>1, RowsKept DEF SInv
<1> QED
  BY <1>6, <1>7, <1>8, <1>9, <1>10 DEF SInv

\* An item that leaves the rows alone, done or failed.
LEMMA QuietRows ==
  ASSUME NEW c, NEW item, Quiet(item), NEW h, NEW r
  PROVE  /\ {b \in Others(held[c] \ item.drop, item.own) \cup item.own : b.name \in Range(RowNames)}
              = RowsHeld(c)
         /\ {b \in held[c] \ item.undo : b.name \in Range(RowNames)} = RowsHeld(c)
BY DEF Quiet, RowsHeld, Others

\* The exchange.
LEMMA ExchangedRows ==
  ASSUME NEW c, NEW item, Exchanges(c, item)
  PROVE  {b \in Others(held[c] \ item.drop, item.own) \cup item.own : b.name \in Range(RowNames)}
           = Range(Rows(c, item.scratch))
<1>1. \A b \in Range(Rows(c, item.scratch)) : b.name \in Range(RowNames)
  BY RowsRange
<1> QED
  BY <1>1 DEF Exchanges, RowsHeld, Others

\* An item succeeds.
LEMMA RowsSucceed == SInv /\ Succeed => SInv'
<1> SUFFICES ASSUME SInv, Succeed PROVE SInv'
  OBVIOUS
<1> DEFINE item == Head(todo)
<1>1. /\ todo # <<>> /\ item.rows = 0 /\ item.pass
      /\ held' = [held EXCEPT ![by] = Others(@ \ item.drop, item.own) \cup item.own]
      /\ scratch' = (IF item.scratch = -1 THEN scratch ELSE [scratch EXCEPT ![by] = item.scratch])
      /\ todo' = Tail(todo)
      /\ UNCHANGED <<by, model, options, stage, doing, way>>
  BY DEF Succeed, Done, Noted
<1>2. ~Ready /\ IsList(todo)
  BY <1>1 DEF SInv, Calm, Shaped, IsList
<1>3. /\ IsList(Tail(todo)) /\ \A x \in Range(todo) : x = item \/ x \in Range(Tail(todo))
      /\ item = todo[1] /\ Len(todo) \in Nat \ {0} /\ Len(Tail(todo)) = Len(todo) - 1
      /\ \A i \in 1..Len(todo) - 1 : Tail(todo)[i] = todo[i + 1]
  BY <1>1, <1>2, TailIs
<1>4. held' = [o \in Owners |-> held'[o]] /\ \A o \in Owners : o # by => held'[o] = held[o]
  BY <1>1 DEF SInv, Shaped
<1>5. by \in Contexts => held'[by] = Others(held[by] \ item.drop, item.own) \cup item.own
  BY <1>1 DEF SInv, Shaped, Owners
<1>6. \A c \in Contexts : c # by => scratch'[c] = scratch[c] /\ RowsHeld(c)' = RowsHeld(c)
  BY <1>1, <1>4 DEF SInv, Shaped, Owners, RowsHeld
<1>7. \A c, n : Rows(c, n)' = Rows(c, n)
  BY <1>1 DEF Rows, RowWidths, Hidden, Widest, KvWidth
<1>8. CASE by \notin Contexts
  <2>1. Shaped'
    BY <1>1, <1>3, <1>4, <1>8 DEF SInv, Shaped, IsList
  <2>2. Staged'
    BY <1>1, <1>6, <1>8 DEF SInv, Staged, Ready
  <2>3. Sane'
    BY <1>1, <1>3 DEF SInv, Sane
  <2>4. Calm'
    BY <1>1, <1>2, <1>8 DEF Calm, Ready
  <2>5. RowsTogether'
    BY <1>6, <1>7, <1>8 DEF SInv, RowsTogether
  <2> QED
    BY <2>1, <2>2, <2>3, <2>4, <2>5 DEF SInv
<1>9. CASE by \in Contexts
  <2>0. doing # "open" /\ stage[by] # "none" /\ scratch[by] \in Nat
    BY <1>2, <1>9, SessionAssumption DEF SInv, Staged, Shaped
  <2>1. CASE Steady(todo)
    <3>1. Quiet(item) /\ Steady(Tail(todo))
      BY <1>1, <2>1, SteadyTail
    <3>2. scratch' = scratch
      BY <1>1, <3>1 DEF Quiet
    <3>3. RowsHeld(by)' = RowsHeld(by)
      BY <1>1, <1>5, <1>9, <3>1, QuietRows DEF RowsHeld
    <3>4. Shaped'
      BY <1>1, <1>3, <1>4, <3>2 DEF SInv, Shaped, IsList
    <3>5. Staged'
      BY <1>1, <3>2 DEF SInv, Staged, Ready
    <3>6. Sane'
      BY <1>1, <2>0 DEF SInv, Sane
    <3>7. Calm'
      BY <1>1, <1>2, <3>1 DEF Calm, Ready
    <3>8. RowsTogether'
      <4>1. \A c \in Contexts : RowsHeld(c)' = RowsHeld(c)
        BY <1>1, <1>6, <3>3
      <4> QED
        BY <1>7, <3>2, <4>1 DEF SInv, RowsTogether
    <3> QED
      BY <3>4, <3>5, <3>6, <3>7, <3>8 DEF SInv
  <2>2. CASE Reserving(by, todo)
    <3>1. PICK j \in 1..Len(todo) :
            /\ Exchanges(by, todo[j]) /\ \A i \in 1..j - 1 : Loading(by, todo[i])
            /\ \A i \in j + 1..Len(todo) : Quiet(todo[i])
      BY <2>2 DEF Reserving
    <3>2. CASE j = 1
      <4>1. Exchanges(by, item)
        BY <1>3, <3>1, <3>2
      <4>2. scratch' = [scratch EXCEPT ![by] = item.scratch] /\ item.scratch \in Nat \ {0}
        BY <1>1, <4>1 DEF Exchanges
      <4>3. RowsHeld(by)' = Range(Rows(by, item.scratch))
        BY <1>1, <1>5, <1>9, <4>1, ExchangedRows DEF RowsHeld
      <4>4. Steady(Tail(todo))
        <5>1. \A i \in 1..Len(todo) - 1 : i + 1 \in j + 1..Len(todo)
          BY <1>3, <3>2
        <5>2. \A i \in 1..Len(Tail(todo)) : Quiet(Tail(todo)[i])
          BY <1>3, <3>1, <5>1
        <5> QED
          BY <1>3, <5>2 DEF Steady, IsList
      <4>5. Shaped'
        BY <1>1, <1>3, <1>4, <4>2 DEF SInv, Shaped, IsList
      <4>6. Staged'
        BY <1>1, <1>6, <2>0, <1>9, <4>2 DEF SInv, Staged, Ready, Shaped
      <4>7. Sane'
        BY <1>1, <2>0 DEF SInv, Sane
      <4>8. Calm'
        BY <1>1, <1>2, <4>4 DEF Calm, Ready
      <4>9. RowsTogether'
        <5>1. scratch'[by] = item.scratch
          BY <1>9, <4>2 DEF SInv, Shaped
        <5>2. ASSUME NEW c \in Contexts
              PROVE  RowsHeld(c)' = IF scratch'[c] = 0 THEN {} ELSE Range(Rows(c, scratch'[c]))
          <6>1. CASE c = by
            BY <1>1, <4>2, <4>3, <5>1, <6>1
          <6>2. CASE c # by
            BY <1>6, <6>2 DEF SInv, RowsTogether
          <6> QED
            BY <6>1, <6>2
        <5> QED
          BY <1>7, <5>2 DEF RowsTogether
      <4> QED
        BY <4>5, <4>6, <4>7, <4>8, <4>9 DEF SInv
    <3>3. CASE j # 1
      <4>1. Loading(by, item)
        <5>1. 1 \in 1..j - 1
          BY <1>3, <3>3
        <5> QED
          BY <1>3, <3>1, <5>1
      <4>2. held' = held /\ scratch' = scratch
        <5>1. Others(held[by] \ item.drop, item.own) \cup item.own = held[by]
          BY <4>1 DEF Loading, Others
        <5>2. held'[by] = held[by]
          BY <1>5, <1>9, <5>1
        <5>3. held' = held
          BY <1>4, <5>2 DEF SInv, Shaped
        <5> QED
          BY <1>1, <4>1, <5>3 DEF Loading
      <4>3. Reserving(by, Tail(todo))
        <5> DEFINE t == Tail(todo)
                   k == j - 1
        <5>1. k \in 1..Len(t) /\ t[k] = todo[j]
          BY <1>3, <3>3
        <5>2. ASSUME NEW i \in 1..k - 1 PROVE Loading(by, t[i])
          <6>1. i + 1 \in 1..j - 1 /\ i \in 1..Len(todo) - 1
            BY <1>3
          <6> QED
            BY <1>3, <3>1, <6>1
        <5>3. ASSUME NEW i \in k + 1..Len(t) PROVE Quiet(t[i])
          <6>1. i + 1 \in j + 1..Len(todo) /\ i \in 1..Len(todo) - 1
            BY <1>3
          <6> QED
            BY <1>3, <3>1, <6>1
        <5> HIDE DEF t, k
        <5> QED
          BY <3>1, <5>1, <5>2, <5>3 DEF Reserving, t
      <4>4. Shaped'
        BY <1>1, <1>3, <1>4, <4>2 DEF SInv, Shaped, IsList
      <4>5. Staged'
        BY <1>1, <4>2 DEF SInv, Staged, Ready
      <4>6. Sane'
        BY <1>1, <2>0 DEF SInv, Sane
      <4>7. Calm'
        <5>1. PICK s : s = Tail(todo)
          OBVIOUS
        <5>2. PICK c : c = by
          OBVIOUS
        <5>3. Reserving(c, s)'
          BY <1>1, <4>2, <4>3, <5>1, <5>2, ReservingKept
        <5> QED
          BY <1>1, <1>2, <5>1, <5>2, <5>3 DEF Calm, Ready
      <4>8. RowsTogether'
        BY <1>1, <4>2, RowsKept DEF SInv
      <4> QED
        BY <4>4, <4>5, <4>6, <4>7, <4>8 DEF SInv
    <3> QED
      BY <3>2, <3>3
  <2> QED
    BY <1>1, <1>2, <1>9, <2>1, <2>2 DEF SInv, Calm
<1> QED
  BY <1>8, <1>9

\* An open or a creation fails.
LEMMA RowsFailWhole == SInv /\ FailWhole => SInv'
<1> SUFFICES ASSUME SInv, FailWhole PROVE SInv'
  OBVIOUS
<1> DEFINE item == Head(todo)
<1>1. /\ todo # <<>> /\ stage[by] = "building"
      /\ held' = [held EXCEPT ![by] = @ \ (item.undo \cup Released)]
      /\ stage' = [stage EXCEPT ![by] = "none"]
      /\ scratch' = (IF by = "model" THEN scratch ELSE [scratch EXCEPT ![by] = 0])
      /\ todo' = <<>> /\ doing' = "nothing"
      /\ UNCHANGED <<by, model, options, way>>
  BY DEF FailWhole, Undone
<1>2. by \in Owners /\ "model" \notin Contexts /\ ~Ready
  BY <1>1, SessionAssumption DEF SInv, Shaped, Calm
<1>3. Shaped'
  <2>1. <<>> \in Seq(Range(<<>>))
    BY EmptySeq DEF Range
  <2>2. held' = [o \in Owners |-> held'[o]] /\ scratch' \in [Contexts -> Nat]
    BY <1>1 DEF SInv, Shaped
  <2> QED
    BY <1>1, <2>1, <2>2 DEF SInv, Shaped
<1>4. stage'[by] = "none" /\ \A o \in Owners : o # by => stage'[o] = stage[o] /\ stage[o] # "building"
  BY <1>1, <1>2 DEF SInv, Staged, Shaped
<1>5. Staged'
  <2>1. \A c \in Contexts : stage'[c] = "none" => scratch'[c] = 0
    BY <1>1, <1>4 DEF SInv, Staged, Shaped, Owners
  <2>2. ASSUME stage'["model"] # "live", NEW c \in Contexts PROVE stage'[c] = "none"
    <3>1. CASE by = "model"
      <4>1. stage[c] = "none"
        BY <1>1, <3>1 DEF SInv, Staged
      <4> QED
        BY <1>2, <1>4, <3>1, <4>1 DEF Owners
    <3>2. CASE by # "model"
      <4>1. stage["model"] # "live"
        BY <1>4, <2>2, <3>2 DEF Owners
      <4>2. stage[c] = "none"
        BY <4>1 DEF SInv, Staged
      <4> QED
        BY <1>4, <4>2 DEF Owners
    <3> QED
      BY <3>1, <3>2
  <2>3. \A o \in Owners : stage'[o] # "building"
    BY <1>4
  <2> QED
    BY <1>1, <2>1, <2>2, <2>3 DEF Staged, Ready
<1>6. Sane'
  BY <1>1, <1>2, <1>4 DEF SInv, Sane, Owners
<1>7. Calm'
  BY <1>1, SteadyNothing DEF Calm
<1>8. RowsTogether'
  <2>1. \A c, n : Rows(c, n)' = Rows(c, n)
    BY <1>1 DEF Rows, RowWidths, Hidden, Widest, KvWidth
  <2>2. ASSUME NEW c \in Contexts
        PROVE  RowsHeld(c)' = IF scratch'[c] = 0 THEN {} ELSE Range(Rows(c, scratch'[c]))
    <3>1. CASE c # by
      <4>1. held'[c] = held[c] /\ scratch'[c] = scratch[c]
        BY <1>1, <3>1 DEF SInv, Shaped, Owners
      <4> QED
        BY <4>1 DEF SInv, RowsTogether, RowsHeld
    <3>2. CASE c = by
      <4>1. held'[c] = held[c] \ (item.undo \cup Released) /\ scratch'[c] = 0
        BY <1>1, <1>2, <3>2 DEF SInv, Shaped
      <4>2. Range(RowNames) \subseteq FreedNames
        BY DEF FreedNames
      <4>3. \A b \in held[c] : b.name \in Range(RowNames) => b \in Released
        BY <1>2, <3>2, <4>2 DEF Released, ReleasedNames
      <4>4. RowsHeld(c)' = {}
        BY <4>1, <4>3 DEF RowsHeld
      <4> QED
        BY <4>1, <4>4
    <3> QED
      BY <3>1, <3>2
  <2> QED
    BY <2>1, <2>2 DEF RowsTogether
<1> QED
  BY <1>3, <1>5, <1>6, <1>7, <1>8 DEF SInv

\* Any other call fails.
LEMMA RowsFailCall == SInv /\ FailCall => SInv'
<1> SUFFICES ASSUME SInv, FailCall PROVE SInv'
  OBVIOUS
<1> DEFINE item == Head(todo)
<1>1. /\ todo # <<>> /\ stage[by] = "live"
      /\ held' = [held EXCEPT ![by] = @ \ item.undo]
      /\ todo' = <<>> /\ doing' = "nothing"
      /\ UNCHANGED <<by, model, options, scratch, stage, way>>
  BY DEF FailCall, Undone
<1>2. ~Ready /\ IsList(todo)
  BY <1>1 DEF SInv, Calm, Shaped, IsList
<1>3. Shaped'
  <2>1. <<>> \in Seq(Range(<<>>))
    BY EmptySeq DEF Range
  <2>2. held' = [o \in Owners |-> held'[o]]
    BY <1>1 DEF SInv, Shaped
  <2> QED
    BY <1>1, <2>1, <2>2 DEF SInv, Shaped
<1>4. Staged'
  <2>1. \A o \in Owners : stage[o] # "building"
    BY <1>1, <1>2 DEF SInv, Staged
  <2> QED
    BY <1>1, <2>1 DEF SInv, Staged, Ready
<1>5. Sane'
  BY <1>1 DEF SInv, Sane
<1>6. Calm'
  BY <1>1, SteadyNothing DEF Calm
<1>7. RowsTogether'
  <2>1. \A c, n : Rows(c, n)' = Rows(c, n)
    BY <1>1 DEF Rows, RowWidths, Hidden, Widest, KvWidth
  <2>2. ASSUME by \in Contexts PROVE \A b \in item.undo : b \in held[by] => b.name \notin Range(RowNames)
    <3>1. CASE Steady(todo)
      <4>1. Quiet(item)
        BY <1>1, <3>1, SteadyTail
      <4> QED
        BY <4>1 DEF Quiet
    <3>2. CASE Reserving(by, todo)
      <4>1. PICK j \in 1..Len(todo) :
              Exchanges(by, todo[j]) /\ \A i \in 1..j - 1 : Loading(by, todo[i])
        BY <3>2 DEF Reserving
      <4>2. item = todo[1]
        BY <1>1, <1>2, TailIs
      <4>3. CASE j = 1
        BY <4>1, <4>2, <4>3 DEF Exchanges
      <4>4. CASE j # 1
        <5>1. 1 \in 1..j - 1
          BY <1>1, <1>2, <4>4, TailIs
        <5> QED
          BY <4>1, <4>2, <5>1 DEF Loading
      <4> QED
        BY <4>3, <4>4
    <3> QED
      BY <2>2, <3>1, <3>2 DEF SInv, Calm
  <2>3. ASSUME NEW c \in Contexts PROVE RowsHeld(c)' = RowsHeld(c)
    <3>1. CASE c # by
      BY <1>1, <3>1 DEF SInv, Shaped, Owners, RowsHeld
    <3>2. CASE c = by
      <4>1. held'[c] = held[c] \ item.undo
        BY <1>1, <3>2 DEF SInv, Shaped
      <4> QED
        BY <2>2, <3>2, <4>1 DEF RowsHeld
    <3> QED
      BY <3>1, <3>2
  <2> QED
    BY <1>1, <2>1, <2>3 DEF SInv, RowsTogether
<1> QED
  BY <1>3, <1>4, <1>5, <1>6, <1>7 DEF SInv

\* A call returns.
LEMMA RowsReturn == SInv /\ Return => SInv'
<1> SUFFICES ASSUME SInv, Return PROVE SInv'
  OBVIOUS
<1>1. /\ ~Ready /\ todo = <<>> /\ stage' = [stage EXCEPT ![by] = "live"]
      /\ model' = (IF doing = "open" THEN Model(way) ELSE model) /\ doing' = "nothing"
      /\ UNCHANGED <<held, by, todo, options, scratch, way>>
  BY DEF Return, Ready
<1>2. by \in Owners /\ "model" \notin Contexts /\ stage[by] # "none" /\ (doing = "open" <=> by = "model")
  BY <1>1, SessionAssumption DEF SInv, Shaped, Staged
<1>3. Shaped'
  BY <1>1 DEF SInv, Shaped
<1>4. stage'[by] = "live" /\ \A o \in Owners : o # by => stage'[o] = stage[o] /\ stage[o] # "building"
  BY <1>1, <1>2 DEF SInv, Staged, Shaped
<1>5. stage'["model"] = "live"
  <2>1. CASE by = "model"
    BY <1>4, <2>1
  <2>2. CASE by # "model"
    <3>1. stage["model"] = "live"
      BY <1>2, <2>2 DEF SInv, Staged, Owners
    <3> QED
      BY <1>4, <2>2, <3>1 DEF Owners
  <2> QED
    BY <2>1, <2>2
<1>6. Staged'
  <2>1. \A c \in Contexts : stage'[c] = "none" => stage[c] = "none"
    BY <1>4 DEF Owners
  <2>2. \A o \in Owners : stage'[o] # "building"
    BY <1>4
  <2> QED
    BY <1>1, <1>5, <2>1, <2>2 DEF SInv, Staged, Ready
<1>7. Sane'
  <2>1. CASE doing = "open"
    <3>1. Valid(way.config)
      BY <1>1, <2>1 DEF SInv, Sane, Range
    <3> QED
      BY <1>1, <2>1, <3>1 DEF SInv, Shaped, Sane
  <2>2. CASE doing # "open"
    <3>1. stage["model"] = "live"
      BY <1>2, <2>2 DEF SInv, Staged, Owners
    <3> QED
      BY <1>1, <2>2, <3>1 DEF SInv, Sane
  <2> QED
    BY <2>1, <2>2
<1>8. Calm'
  BY <1>1, SteadyNothing DEF Calm
<1>9. RowsTogether'
  <2>1. CASE doing = "open"
    <3>1. \A c \in Contexts : scratch[c] = 0
      BY <2>1 DEF SInv, Staged
    <3> QED
      BY <1>1, <3>1 DEF SInv, RowsTogether, RowsHeld
  <2>2. CASE doing # "open"
    BY <1>1, <2>2, RowsKept DEF SInv
  <2> QED
    BY <2>1, <2>2
<1> QED
  BY <1>3, <1>6, <1>7, <1>8, <1>9 DEF SInv

\* A context is freed.
LEMMA RowsFree == ASSUME NEW c \in Contexts PROVE SInv /\ FreeContext(c) => SInv'
<1> SUFFICES ASSUME SInv, FreeContext(c) PROVE SInv'
  OBVIOUS
<1>1. /\ Ready /\ held' = [held EXCEPT ![c] = {}] /\ stage' = [stage EXCEPT ![c] = "none"]
      /\ scratch' = [scratch EXCEPT ![c] = 0]
      /\ UNCHANGED <<by, todo, doing, way, model, options>>
  BY DEF FreeContext, Release
<1>2. \A o \in Owners : stage[o] \in {"none", "live"}
  BY <1>1, ReadyIs DEF SInv
<1>3. todo = <<>> /\ "model" \notin Contexts
  BY <1>1, SessionAssumption DEF SInv, Calm
<1>4. Shaped'
  <2>1. held' = [o \in Owners |-> held'[o]] /\ scratch' \in [Contexts -> Nat]
    BY <1>1 DEF SInv, Shaped
  <2> QED
    BY <1>1, <2>1 DEF SInv, Shaped
<1>5. Staged'
  BY <1>1, <1>2, <1>3 DEF SInv, Staged, Shaped, Ready, Owners
<1>6. Sane'
  BY <1>1, <1>3 DEF SInv, Sane, Shaped, Owners
<1>7. Calm'
  BY <1>1, <1>3, SteadyNothing DEF Calm
<1>8. RowsTogether'
  <2>1. \A x, n : Rows(x, n)' = Rows(x, n)
    BY <1>1 DEF Rows, RowWidths, Hidden, Widest, KvWidth
  <2>2. ASSUME NEW x \in Contexts
        PROVE  RowsHeld(x)' = IF scratch'[x] = 0 THEN {} ELSE Range(Rows(x, scratch'[x]))
    <3>1. CASE x = c
      BY <1>1, <3>1 DEF SInv, Shaped, Owners, RowsHeld
    <3>2. CASE x # c
      <4>1. held'[x] = held[x] /\ scratch'[x] = scratch[x]
        BY <1>1, <3>2 DEF SInv, Shaped, Owners
      <4> QED
        BY <4>1 DEF SInv, RowsTogether, RowsHeld
    <3> QED
      BY <3>1, <3>2
  <2> QED
    BY <2>1, <2>2 DEF RowsTogether
<1> QED
  BY <1>4, <1>5, <1>6, <1>7, <1>8 DEF SInv

\* The model is closed.
LEMMA RowsClose == SInv /\ CloseModel => SInv'
<1> SUFFICES ASSUME SInv, CloseModel PROVE SInv'
  OBVIOUS
<1>1. /\ Ready /\ \A c \in Contexts : stage[c] = "none"
      /\ held' = [held EXCEPT !["model"] = {}] /\ stage' = [stage EXCEPT !["model"] = "none"]
      /\ UNCHANGED <<by, todo, doing, way, options, scratch>>
  BY DEF CloseModel, Release
<1>2. \A o \in Owners : stage[o] \in {"none", "live"}
  BY <1>1, ReadyIs DEF SInv
<1>3. todo = <<>> /\ "model" \notin Contexts
  BY <1>1, SessionAssumption DEF SInv, Calm
<1>4. Shaped'
  <2>1. held' = [o \in Owners |-> held'[o]]
    BY <1>1 DEF SInv, Shaped
  <2> QED
    BY <1>1, <2>1 DEF SInv, Shaped
<1>5. Staged'
  BY <1>1, <1>2, <1>3 DEF SInv, Staged, Shaped, Ready, Owners
<1>6. Sane'
  BY <1>1 DEF SInv, Sane, Shaped, Owners, Ready
<1>7. Calm'
  BY <1>1, <1>3, SteadyNothing DEF Calm
<1>8. RowsTogether'
  <2>1. ASSUME NEW c \in Contexts PROVE held'[c] = held[c] /\ scratch[c] = 0
    BY <1>1, <1>3 DEF SInv, Shaped, Staged, Owners
  <2> QED
    BY <1>1, <2>1 DEF SInv, RowsTogether, RowsHeld
<1> QED
  BY <1>4, <1>5, <1>6, <1>7, <1>8 DEF SInv

\* A step of nothing.
LEMMA RowsStutter == SInv /\ UNCHANGED session => SInv'
<1> SUFFICES ASSUME SInv, UNCHANGED session PROVE SInv'
  OBVIOUS
<1>1. UNCHANGED <<heap, held, by, todo, pins, misuse, model, options, scratch, position, stage, doing, way>>
  BY DEF session, allocations, contextData
<1>2. Shaped' /\ Staged' /\ Sane'
  BY <1>1 DEF SInv, Shaped, Staged, Sane, Ready
<1>3. Calm'
  <2>1. PICK s : s = todo
    OBVIOUS
  <2>2. PICK c : c = by
    OBVIOUS
  <2>3. Reserving(c, s) => Reserving(c, s)'
    BY <1>1, ReservingKept
  <2> QED
    BY <1>1, <2>1, <2>2, <2>3 DEF SInv, Calm, Ready
<1>4. RowsTogether'
  BY <1>1, RowsKept DEF SInv
<1> QED
  BY <1>2, <1>3, <1>4 DEF SInv

\* The nine buffers with a row per token are exchanged together, whatever fails:
\* what scratch_reserve() promises, for every model, every options and every
\* sequence of calls.
THEOREM RowsAreTogether == SessionSpec => []RowsTogether
<1>1. SInv /\ [SessionNext]_session => SInv'
  <2> SUFFICES ASSUME SInv, [SessionNext]_session PROVE SInv'
    OBVIOUS
  <2>1. CASE OpenModel
    BY <2>1, RowsOpen
  <2>2. CASE CloseModel
    BY <2>2, RowsClose
  <2>3. ASSUME NEW c \in Contexts, CreateContext(c) PROVE SInv'
    BY <2>3, RowsCreate
  <2>4. ASSUME NEW c \in Contexts, FreeContext(c) PROVE SInv'
    BY <2>4, RowsFree
  <2>5. ASSUME NEW c \in Contexts,
               Blocks(c) \/ Forward(c) \/ Prefill(c) \/ Decode(c) \/ Prepare(c) PROVE SInv'
    BY <2>5, RowsCalls
  <2>6. ASSUME NEW c \in Contexts, DecodeRefused(c) PROVE SInv'
    BY <2>6, RowsRefused
  <2>7. CASE ReserveRows
    BY <2>7, RowsReserve
  <2>8. CASE Succeed
    BY <2>8, RowsSucceed
  <2>9. CASE FailWhole
    BY <2>9, RowsFailWhole
  <2>10. CASE FailCall
    BY <2>10, RowsFailCall
  <2>11. CASE Return
    BY <2>11, RowsReturn
  <2>12. CASE UNCHANGED session
    BY <2>12, RowsStutter
  <2> QED
    BY <2>1, <2>2, <2>3, <2>4, <2>5, <2>6, <2>7, <2>8, <2>9, <2>10, <2>11, <2>12 DEF SessionNext
<1>2. SInv => RowsTogether
  BY DEF SInv
<1> QED
  BY <1>1, <1>2, SessionInitial, PTL DEF SessionSpec

-------------------------------------------------------------------------------
(***************************************************************************)
(* The plans of the calls that create a context and begin a generation.    *)
(***************************************************************************)

\* Blocks of one owner, each with a field of its own.
Keyed(w, blocks, F) ==
  /\ IsList(blocks)
  /\ \A b \in Range(blocks) : b.owner = w /\ b.name \in NamesOf(w) /\ Key(b) \in F
  /\ \A i, j \in 1..Len(blocks) : i # j => Key(blocks[i]) # Key(blocks[j])

\* Those of two sequences, when they are for different fields, ...
LEMMA KeyedJoin ==
  ASSUME NEW w, NEW s, NEW t, NEW F, NEW G, Keyed(w, s, F), Keyed(w, t, G), F \cap G = {}
  PROVE  Keyed(w, s \o t, F \cup G)
<1> DEFINE m == Len(s)
           n == Len(t)
           u == s \o t
<1>1. s \in Seq(Range(s)) /\ t \in Seq(Range(t)) /\ m \in Nat /\ n \in Nat
  BY ElementsAre DEF Keyed, IsList
<1>2. IsList(u) /\ Range(u) = Range(s) \cup Range(t)
  BY <1>1, ElementsOfTwo DEF IsList
<1>3. Len(u) = m + n /\ \A i \in 1..m + n : u[i] = IF i <= m THEN s[i] ELSE t[i - m]
  <2> DEFINE S == Range(s) \cup Range(t)
  <2>1. Range(s) \subseteq S /\ Range(t) \subseteq S
    OBVIOUS
  <2> HIDE DEF S
  <2>2. \A v, T : v \in Seq(T) /\ T \subseteq S => v \in Seq(S)
    OBVIOUS
  <2>3. s \in Seq(S) /\ t \in Seq(S)
    BY <1>1, <2>1, <2>2
  <2> QED
    BY <2>3, ConcatProperties
<1>4. /\ \A i \in 1..m : s[i] \in Range(s) /\ Key(s[i]) \in F
      /\ \A i \in 1..n : t[i] \in Range(t) /\ Key(t[i]) \in G
  <2>1. Range(s) = {s[i] : i \in 1..m} /\ Range(t) = {t[i] : i \in 1..n}
    BY <1>1, ElementsAre
  <2> QED
    BY <2>1 DEF Keyed
<1>5. ASSUME NEW i \in 1..m + n, NEW j \in 1..m + n, i < j PROVE Key(u[i]) # Key(u[j])
  <2>1. CASE j <= m
    <3>1. i \in 1..m /\ j \in 1..m /\ i <= m /\ i # j
      BY <1>1, <1>5, <2>1
    <3> QED
      BY <1>3, <2>1, <3>1 DEF Keyed
  <2>2. CASE i > m
    <3>1. i - m \in 1..n /\ j - m \in 1..n /\ i - m # j - m /\ ~(i <= m) /\ ~(j <= m)
      BY <1>1, <1>5, <2>2
    <3> QED
      BY <1>3, <3>1 DEF Keyed
  <2>3. CASE i <= m /\ ~(j <= m)
    <3>1. i \in 1..m /\ j - m \in 1..n
      BY <1>1, <2>3
    <3> QED
      BY <1>3, <1>4, <2>3, <3>1
  <2>4. j <= m \/ i > m \/ (i <= m /\ ~(j <= m))
    BY <1>1
  <2> QED
    BY <2>1, <2>2, <2>3, <2>4
<1>6. \A i, j \in 1..m + n : i # j => i < j \/ j < i
  BY <1>1
<1>7. \A i, j \in 1..Len(u) : i # j => Key(u[i]) # Key(u[j])
  BY <1>3, <1>5, <1>6
<1> HIDE DEF u
<1>8. Keyed(w, u, F \cup G)
  BY <1>2, <1>7 DEF Keyed
<1> QED
  BY <1>8 DEF u

\* ... of no sequence, ...
LEMMA KeyedNone == ASSUME NEW w, NEW F PROVE Keyed(w, <<>>, F)
<1>1. IsList(<<>>) /\ Range(<<>>) = {} /\ 1..Len(<<>>) = {}
  BY ListedShort DEF Range
<1> QED
  BY <1>1 DEF Keyed

\* ... and of many.
LEMMA KeyedMany ==
  ASSUME NEW w, NEW n \in Nat, NEW parts, Numbered(n, parts),
         NEW G, \A k \in 1..n : Keyed(w, parts[k], G[k]),
         \A j, k \in 1..n : j # k => G[j] \cap G[k] = {},
         NEW F, \A k \in 1..n : G[k] \subseteq F
  PROVE  Keyed(w, FlattenSeq(parts), F)
<1> DEFINE S == UNION {Range(parts[k]) : k \in 1..n}
           U(m) == UNION {G[k] : k \in 1..m}
<1>1. parts \in [1..n -> Seq(S)]
  <2>1. \A k \in 1..n : parts[k] \in Seq(Range(parts[k])) /\ Range(parts[k]) \subseteq S
    BY DEF Keyed, IsList
  <2> HIDE DEF S
  <2>2. \A v, T : v \in Seq(T) /\ T \subseteq S => v \in Seq(S)
    OBVIOUS
  <2> QED
    BY <2>1, <2>2 DEF Numbered
<1>2. CASE n = 0
  <2>1. Len(parts) = 0
    BY <1>2 DEF Numbered
  <2>2. FlattenSeq(parts) = <<>>
    BY <2>1 DEF FlattenSeq
  <2> QED
    BY <2>2, KeyedNone
<1>3. CASE n # 0
  <2> HIDE DEF S
  <2>1. PICK f \in [1..n -> Seq(S)] : Flattens(f, parts, n)
    BY <1>1, <1>3, FlattenIs
  <2> DEFINE Bad == {m \in 1..n : ~Keyed(w, f[m], U(m))}
  <2>2. ASSUME Bad # {} PROVE FALSE
    <3>1. Bad \in SUBSET Nat
      OBVIOUS
    <3> HIDE DEF Bad
    <3>2. PICK m \in Bad : \A k \in Bad : m <= k
      BY <2>2, <3>1, LeastNatural
    <3> USE DEF Bad
    <3>3. m \in 1..n /\ ~Keyed(w, f[m], U(m))
      OBVIOUS
    <3>4. CASE m = 1
      <4>1. f[m] = parts[1]
        BY <2>1, <3>3, <3>4 DEF Flattens
      <4>2. U(m) = G[1]
        BY <3>4
      <4>3. Keyed(w, parts[1], G[1])
        BY <3>3, <3>4
      <4> HIDE DEF U, Bad
      <4> QED
        BY <3>3, <4>1, <4>2, <4>3
    <3>5. CASE m # 1
      <4>1. m - 1 \in 1..n /\ m - 1 \notin Bad
        BY <3>2, <3>3, <3>5
      <4>2. Keyed(w, f[m - 1], U(m - 1))
        BY <4>1
      <4>3. U(m - 1) \cap G[m] = {}
        <5>1. \A k \in 1..m - 1 : k \in 1..n /\ k # m
          BY <3>3
        <5> QED
          BY <3>3, <5>1
      <4>4. U(m) = U(m - 1) \cup G[m]
        <5>1. \A k \in 1..m : k \in 1..m - 1 \/ k = m
          BY <3>3
        <5>2. 1..m - 1 \subseteq 1..m /\ m \in 1..m
          BY <3>3
        <5> HIDE DEF Bad
        <5>3. U(m) \subseteq U(m - 1) \cup G[m]
          BY <5>1
        <5> QED
          BY <5>2, <5>3
      <4>5. f[m] = f[m - 1] \o parts[m]
        <5>1. m \in 2..n
          BY <3>3, <3>5
        <5> HIDE DEF U, Bad
        <5> QED
          BY <2>1, <5>1 DEF Flattens
      <4> HIDE DEF U, Bad
      <4>6. Keyed(w, f[m - 1] \o parts[m], U(m - 1) \cup G[m])
        BY <3>3, <4>2, <4>3, KeyedJoin
      <4> QED
        BY <3>3, <4>4, <4>5, <4>6
    <3> QED
      BY <3>4, <3>5
  <2>3. Keyed(w, f[n], U(n))
    <3>1. n \in 1..n
      BY <1>3
    <3>2. Bad = {}
      <4> HIDE DEF Bad
      <4> QED
        BY <2>2
    <3> HIDE DEF U
    <3> QED
      BY <3>1, <3>2
  <2>4. FlattenSeq(parts) = f[n]
    BY <2>1 DEF Flattens
  <2>5. U(n) \subseteq F
    OBVIOUS
  <2> HIDE DEF U
  <2> QED
    BY <2>3, <2>4, <2>5 DEF Keyed
<1> QED
  BY <1>2, <1>3

\* Allocations of such blocks, that are left in their fields at once.
LEMMA KeyedPlan ==
  ASSUME NEW w, NEW blocks, NEW F, Keyed(w, blocks, F), NEW A, \A b \in A : Key(b) \notin F
  PROVE  Plan(w, [i \in DOMAIN blocks |-> Keep(blocks[i], A)], A, A, F)
<1> DEFINE n == Len(blocks)
           s == [i \in DOMAIN blocks |-> Keep(blocks[i], A)]
           L == [i \in 1..n + 1 |-> A]
<1>1. n \in Nat /\ DOMAIN blocks = 1..n /\ Range(blocks) = {blocks[i] : i \in 1..n}
  BY ElementsAre DEF Keyed, IsList
<1>2. s = [i \in 1..n |-> s[i]] /\ \A i \in 1..n : s[i] = Keep(blocks[i], A)
  BY <1>1
<1>3. L[1] = A /\ L[n + 1] = A /\ \A i \in 1..n : L[i] = A /\ L[i + 1] = A
  BY <1>1
<1> HIDE DEF n, s, L
<1>4. s \in Seq(Range(s)) /\ Len(s) = n
  <2>1. s \in Seq(Range(s)) /\ DOMAIN s = 1..n
    BY <1>1, <1>2, ListIs
  <2> QED
    BY <1>1, <2>1, LenProperties
<1>5. ASSUME NEW i \in 1..n PROVE Follows(w, s[i], L[i], L[i + 1], F)
  <2>1. blocks[i].owner = w /\ blocks[i].name \in NamesOf(w) /\ Key(blocks[i]) \in F
    BY <1>1 DEF Keyed
  <2>2. Follows(w, Keep(blocks[i], A), A, A, F)
    BY <2>1, FollowsKeep
  <2> QED
    BY <1>2, <1>3, <2>2
<1>6. ASSUME NEW i \in 1..n, NEW j \in 1..n, i < j PROVE Apart(s[i].own, s[j].take \cup s[j].own)
  <2>0. \A b : Keep(b, A).own = {b} /\ Keep(b, A).take = {b}
    BY DEF Keep, Alloc, Item
  <2>1. \A k \in 1..n : s[k].own = {blocks[k]} /\ s[k].take = {blocks[k]}
    BY <1>2, <2>0
  <2>2. Key(blocks[i]) # Key(blocks[j])
    BY <1>1, <1>6 DEF Keyed, n
  <2> QED
    BY <2>1, <2>2 DEF Apart
<1>7. Plan(w, s, A, A, F)
  BY <1>3, <1>4, <1>5, <1>6 DEF Plan
<1> QED
  BY <1>7 DEF s

\* What only looks at buffers is planned, whatever is in the fields.
LEMMA IdlePlan == ASSUME NEW w, w # "model", NEW s, Idle(s) PROVE Plan(w, s, {}, {}, {})
<1> DEFINE L == [i \in 1..Len(s) + 1 |-> {}]
<1>1. s \in Seq(Range(s)) /\ Len(s) \in Nat /\ Range(s) = {s[i] : i \in 1..Len(s)}
  BY ElementsAre DEF Idle
<1>2. \A i \in 1..Len(s) : Plain(s[i])
  BY <1>1 DEF Idle
<1>3. L[1] = {} /\ L[Len(s) + 1] = {} /\ \A i \in 1..Len(s) : L[i] = {} /\ L[i + 1] = {}
  BY <1>1
<1> HIDE DEF L
<1>4. ASSUME NEW i \in 1..Len(s) PROVE Follows(w, s[i], L[i], L[i + 1], {})
  BY <1>2, <1>3 DEF Follows, Plain
<1>5. \A i, j \in 1..Len(s) : i < j => Apart(s[i].own, s[j].take \cup s[j].own)
  BY <1>2 DEF Plain, Apart
<1> QED
  BY <1>1, <1>3, <1>4, <1>5 DEF Plan

\* The fields of a context, by what they are allocated for.
FixedFields ==
  {"scores", "bias", "history", "pair", "activation", "expert", "routed", "shared", "router", "mixture"}
LayerFields == {"keys", "values", "key_history", "value_history", "attn_history", "mlp_history"}
SequenceFields == {"sequence", "sequence layers"} \cup LayerFields
GenerationFields == {"generation", "prefix", "logits", "candidates"}
CreatedFields == {"context"} \cup FixedFields \cup {"selected", "weights"} \cup SequenceFields

\* All of them are freed with the context.
LEMMA FreedNamesAre ==
  /\ FreedNames = Range(RowNames) \cup CreatedFields \cup GenerationFields
  /\ CreatedFields \cap (Range(RowNames) \cup GenerationFields) = {}
  /\ GenerationFields \cap Range(RowNames) = {}
<1>1. FreedNames = Range(RowNames) \cup CreatedFields \cup GenerationFields
  BY DEF FreedNames, CreatedFields, FixedFields, SequenceFields, LayerFields, GenerationFields
<1>2. CreatedFields \cap GenerationFields = {} /\ GenerationFields \cap Range(RowNames) = {}
  BY RowNamesAre DEF CreatedFields, FixedFields, SequenceFields, LayerFields, GenerationFields
<1>3. CreatedFields \cap Range(RowNames) = {}
  BY RowNamesAre DEF CreatedFields, FixedFields, SequenceFields, LayerFields
<1> QED
  BY <1>1, <1>2, <1>3

\* A block of a context.
LEMMA BlockIs ==
  ASSUME NEW c \in Contexts, NEW name, NEW index, NEW size
  PROVE  /\ Block(c, name, index, size).owner = c /\ Block(c, name, index, size).name = name
         /\ Key(Block(c, name, index, size)) = <<name, index>>
         /\ name \in FreedNames => Block(c, name, index, size).name \in NamesOf(c)
BY SessionAssumption DEF Block, Key, NamesOf

NamedFor(c, n, f, names, k, F) ==
  /\ \A i \in 1..n : f[i].owner = c /\ f[i].name = names[i] /\ f[i].index = k
  /\ \A i \in 1..n : names[i] \in FreedNames /\ <<names[i], k>> \in F
  /\ \A i, j \in 1..n : i < j => names[i] # names[j]

\* Blocks listed by number, each named for a field of its own.
LEMMA KeyedListed ==
  ASSUME NEW c \in Contexts, NEW n \in Nat, NEW f, f = [i \in 1..n |-> f[i]],
         NEW names, NEW k, NEW F, NamedFor(c, n, f, names, k, F)
  PROVE  Keyed(c, f, F)
<1> USE DEF NamedFor
<1>1. f \in Seq(Range(f)) /\ Range(f) = {f[i] : i \in 1..n} /\ Len(f) = n
  <2>1. f \in Seq(Range(f)) /\ Range(f) = {f[i] : i \in 1..n} /\ DOMAIN f = 1..n
    BY ListIs
  <2> QED
    BY <2>1, LenProperties
<1>2. \A i \in 1..n : Key(f[i]) = <<names[i], k>>
  BY DEF Key
<1>3. NamesOf(c) = FreedNames
  BY SessionAssumption DEF NamesOf
<1>4. \A i \in 1..n : f[i].owner = c /\ f[i].name \in NamesOf(c) /\ Key(f[i]) \in F
  BY <1>2, <1>3
<1>5. ASSUME NEW i \in 1..n, NEW j \in 1..n, i # j PROVE Key(f[i]) # Key(f[j])
  <2>1. names[i] # names[j]
    <3>1. i < j \/ j < i
      BY <1>5
    <3> QED
      BY <3>1
  <2> QED
    BY <1>2, <2>1
<1>6. \A b \in Range(f) : b.owner = c /\ b.name \in NamesOf(c) /\ Key(b) \in F
  BY <1>1, <1>4
<1> QED
  BY <1>1, <1>5, <1>6 DEF Keyed, IsList

\* The buffers of fixed size.
LEMMA FixedKeyed ==
  ASSUME NEW c \in Contexts, NEW o PROVE Keyed(c, FixedBlocks(c, o), Fields(FixedFields))
<1> DEFINE names == <<"scores", "bias", "history", "pair", "activation", "expert", "routed",
                      "shared", "router", "mixture">>
           f == FixedBlocks(c, o)
<1>1. f = [i \in 1..10 |-> f[i]]
  BY DEF FixedBlocks
<1>2. \A i \in 1..10 : f[i].owner = c /\ f[i].name = names[i] /\ f[i].index = 0
  BY DEF FixedBlocks, Block
<1>3. \A i \in 1..10 : names[i] \in FixedFields
  BY DEF FixedFields
<1>4. \A i, j \in 1..10 : i < j => names[i] # names[j]
  OBVIOUS
<1>5. FixedFields \subseteq FreedNames
  BY DEF FixedFields, FreedNames
<1> HIDE DEF names, f
<1>6. \A i \in 1..10 : names[i] \in FreedNames /\ <<names[i], 0>> \in Fields(FixedFields)
  BY <1>3, <1>5 DEF Fields
<1>7. NamedFor(c, 10, f, names, 0, Fields(FixedFields))
  BY <1>2, <1>4, <1>6 DEF NamedFor
<1>8. Keyed(c, f, Fields(FixedFields))
  BY <1>1, <1>7, KeyedListed
<1> QED
  BY <1>8 DEF f

\* The buffers of a layer of the sequence.
LEMMA LayerKeyed ==
  ASSUME NEW c \in Contexts, NEW k, NEW x, NEW y, NEW z
  PROVE  Keyed(c, <<Block(c, "keys", k, x), Block(c, "values", k, x),
                    Block(c, "key_history", k, y), Block(c, "value_history", k, y),
                    Block(c, "attn_history", k, z), Block(c, "mlp_history", k, z)>>,
               LayerFields \X {k})
<1> DEFINE p == <<Block(c, "keys", k, x), Block(c, "values", k, x),
                  Block(c, "key_history", k, y), Block(c, "value_history", k, y),
                  Block(c, "attn_history", k, z), Block(c, "mlp_history", k, z)>>
           names == <<"keys", "values", "key_history", "value_history", "attn_history", "mlp_history">>
<1>1. p = [i \in 1..6 |-> p[i]]
  OBVIOUS
<1>2. \A i \in 1..6 : p[i].owner = c /\ p[i].name = names[i] /\ p[i].index = k
  BY DEF Block
<1>3. \A i, j \in 1..6 : i < j => names[i] # names[j]
  OBVIOUS
<1>4. \A i \in 1..6 : names[i] \in LayerFields
  BY DEF LayerFields
<1>5. LayerFields \subseteq FreedNames
  BY DEF LayerFields, FreedNames
<1> HIDE DEF names, p
<1>6. \A i \in 1..6 : names[i] \in FreedNames /\ <<names[i], k>> \in LayerFields \X {k}
  BY <1>4, <1>5
<1>7. NamedFor(c, 6, p, names, k, LayerFields \X {k})
  BY <1>2, <1>3, <1>6 DEF NamedFor
<1>8. Keyed(c, p, LayerFields \X {k})
  BY <1>1, <1>7, KeyedListed
<1> QED
  BY <1>8 DEF p

\* The sequence itself and its table of layers.
LEMMA StartKeyed ==
  ASSUME NEW c \in Contexts, NEW x
  PROVE  Keyed(c, <<Block(c, "sequence", 0, 1), Block(c, "sequence layers", 0, x)>>,
               Fields({"sequence", "sequence layers"}))
<1> DEFINE p == <<Block(c, "sequence", 0, 1), Block(c, "sequence layers", 0, x)>>
           names == <<"sequence", "sequence layers">>
           S == {"sequence", "sequence layers"}
<1>1. p = [i \in 1..2 |-> p[i]]
  OBVIOUS
<1>2. /\ p[1].owner = c /\ p[1].name = names[1] /\ p[1].index = 0
      /\ p[2].owner = c /\ p[2].name = names[2] /\ p[2].index = 0
  BY DEF Block
<1>3. names[1] # names[2] /\ names[1] \in S /\ names[2] \in S
  OBVIOUS
<1>4. S \subseteq FreedNames
  BY DEF FreedNames
<1>5. 1..2 = {1, 2} /\ ~(2 < 1) /\ ~(1 < 1) /\ ~(2 < 2)
  OBVIOUS
<1> HIDE DEF names, p, S
<1>6. \A i \in 1..2 : p[i].owner = c /\ p[i].name = names[i] /\ p[i].index = 0
  BY <1>2, <1>5
<1>7. \A i, j \in 1..2 : i < j => names[i] # names[j]
  BY <1>3, <1>5
<1>8. \A i \in 1..2 : names[i] \in FreedNames /\ <<names[i], 0>> \in Fields(S)
  BY <1>3, <1>4, <1>5 DEF Fields
<1>9. NamedFor(c, 2, p, names, 0, Fields(S))
  BY <1>6, <1>7, <1>8 DEF NamedFor
<1>10. Keyed(c, p, Fields(S))
  BY <1>1, <1>9, KeyedListed
<1> QED
  BY <1>10 DEF p, S

\* The buffers of a sequence.
LEMMA SequenceKeyed ==
  ASSUME NEW c \in Contexts, NEW o, NEW n \in Nat, DOMAIN model.layers = 1..n
  PROVE  Keyed(c, SequenceBlocks(c, o), Fields(SequenceFields))
<1> DEFINE kv(k) == model.layers[k].matrices["k"].rows
           ring(k) == RingCapacity(model.layers[k], o)
           layer(k) == <<Block(c, "keys", k, ring(k) * kv(k)), Block(c, "values", k, ring(k) * kv(k)),
                         Block(c, "key_history", k, 3 * kv(k)), Block(c, "value_history", k, 3 * kv(k)),
                         Block(c, "attn_history", k, 3 * Hidden), Block(c, "mlp_history", k, 3 * Hidden)>>
           parts == [k \in 1..n |-> layer(k)]
           first == <<Block(c, "sequence", 0, 1), Block(c, "sequence layers", 0, Len(model.layers))>>
           S == {"sequence", "sequence layers"}
<1>1. SequenceBlocks(c, o) = first \o FlattenSeq(parts)
  BY DEF SequenceBlocks
<1>2. S \subseteq FreedNames /\ S \cap LayerFields = {}
  BY DEF LayerFields, FreedNames
<1>3. ASSUME NEW k \in 1..n PROVE Keyed(c, parts[k], LayerFields \X {k})
  BY LayerKeyed
<1>4. Numbered(n, parts)
  BY DEF Numbered
<1>5. Keyed(c, first, Fields(S))
  BY StartKeyed
<1> HIDE DEF first, parts
<1>6. Keyed(c, FlattenSeq(parts), Fields(LayerFields))
  <2> DEFINE H == [k \in 1..n |-> LayerFields \X {k}]
  <2>1. PICK G : G = H
    OBVIOUS
  <2>2. \A k \in 1..n : G[k] = LayerFields \X {k}
    BY <2>1
  <2>3. \A k \in 1..n : Keyed(c, parts[k], G[k])
    BY <1>3, <2>2
  <2>4. ASSUME NEW j \in 1..n, NEW k \in 1..n, j # k PROVE G[j] \cap G[k] = {}
    BY <2>2, <2>4
  <2>5. \A k \in 1..n : G[k] \subseteq Fields(LayerFields)
    BY <2>2 DEF Fields
  <2> QED
    BY <1>4, <2>3, <2>4, <2>5, KeyedMany
<1>7. Fields(S) \cap Fields(LayerFields) = {} /\ Fields(S) \cup Fields(LayerFields) = Fields(SequenceFields)
  <2>1. SequenceFields = S \cup LayerFields
    BY DEF SequenceFields
  <2> HIDE DEF S
  <2> QED
    BY <1>2, <2>1 DEF Fields
<1> HIDE DEF S
<1> QED
  BY <1>1, <1>5, <1>6, <1>7, KeyedJoin

AllListed(a, b, c, d, e) == IsList(a) /\ IsList(b) /\ IsList(c) /\ IsList(d) /\ IsList(e)

\* Sequences put together one behind the other, and in two halves.
LEMMA TwoHalves ==
  ASSUME NEW a, NEW b, NEW c, NEW d, NEW e, AllListed(a, b, c, d, e)
  PROVE  a \o b \o c \o d \o e = (a \o b) \o (c \o (d \o e))
<1> DEFINE S == Range(a) \cup Range(b) \cup Range(c) \cup Range(d) \cup Range(e)
<1>1. /\ Range(a) \subseteq S /\ Range(b) \subseteq S /\ Range(c) \subseteq S
      /\ Range(d) \subseteq S /\ Range(e) \subseteq S
  OBVIOUS
<1> HIDE DEF S
<1>2. \A v, T : v \in Seq(T) /\ T \subseteq S => v \in Seq(S)
  OBVIOUS
<1>3. a \in Seq(S) /\ b \in Seq(S) /\ c \in Seq(S) /\ d \in Seq(S) /\ e \in Seq(S)
  BY <1>1, <1>2 DEF AllListed, IsList
<1>4. \A v, w \in Seq(S) : v \o w \in Seq(S)
  BY ConcatProperties
<1>5. \A u, v, w \in Seq(S) : (u \o v) \o w = u \o (v \o w)
  BY ConcatAssociative
<1>6. PICK p : p = a \o b
  OBVIOUS
<1>7. PICK q : q = d \o e
  OBVIOUS
<1>8. p \in Seq(S) /\ q \in Seq(S)
  BY <1>3, <1>4, <1>6, <1>7
<1>9. p \o c \in Seq(S)
  BY <1>3, <1>4, <1>8
<1>10. ((p \o c) \o d) \o e = (p \o c) \o q
  BY <1>3, <1>5, <1>7, <1>9
<1>11. (p \o c) \o q = p \o (c \o q)
  <2>1. c \in Seq(S) /\ c \o q \in Seq(S)
    BY <1>3, <1>4, <1>8
  <2>2. ASSUME NEW u \in Seq(S), NEW v \in Seq(S), NEW w \in Seq(S)
        PROVE  (u \o v) \o w = u \o (v \o w)
    BY <1>5
  <2> QED
    BY <1>8, <2>1, <2>2
<1> QED
  BY <1>6, <1>7, <1>10, <1>11

\* The two buffers that are the caller's until the end, and those between.
LEMMA LatePlan ==
  ASSUME NEW c \in Contexts, NEW x, NEW y, NEW late, NEW N,
         x.owner = c, x.name = "selected", x.index = 0,
         y.owner = c, y.name = "weights", y.index = 0,
         N \cap {"selected", "weights"} = {},
         Plan(c, late, {x, y}, {x, y}, Fields(N))
  PROVE  Plan(c, <<Alloc(x, {}), Alloc(y, {x})>> \o (late \o <<Become({x, y})>>), {}, {},
              Fields({"selected", "weights"} \cup N))
<1> DEFINE F == Fields({"selected", "weights"})
           al == <<Alloc(x, {}), Alloc(y, {x})>>
           be == <<Become({x, y})>>
<1>1. /\ Key(x) \in F /\ Key(y) \in F
      /\ x.name \in NamesOf(c) /\ y.name \in NamesOf(c)
  BY SessionAssumption DEF Fields, Key, NamesOf, FreedNames
<1>2. Plan(c, be, {x, y}, {}, F)
  <2>1. \A b \in {x, y} : b.name \in NamesOf(c) /\ Key(b) \in F
    BY <1>1
  <2> HIDE DEF F
  <2>2. Follows(c, Become({x, y}), {x, y}, {}, F)
    BY <2>1, FollowsBecome
  <2> QED
    BY <2>2, PlanOne
<1>3. Plan(c, al, {}, {x, y}, F)
  <2> HIDE DEF F
  <2>1. Follows(c, Alloc(x, {}), {}, {x}, F) /\ Follows(c, Alloc(y, {x}), {x}, {x, y}, F)
    <3>1. {x} = {} \cup {x} /\ {x, y} = {x} \cup {y}
      OBVIOUS
    <3> QED
      BY <1>1, <3>1, FollowsAlloc
  <2>2. Plan(c, <<Alloc(y, {x})>>, {x}, {x, y}, F)
    BY <2>1, PlanOne
  <2>3. Alloc(x, {}).own = {}
    BY TakesAndOwns
  <2> QED
    BY <2>1, <2>2, <2>3, Plan2
<1>4. \A i \in 1..Len(al) : al[i].own = {}
  <2>1. \A i \in 1..Len(al) : al[i] = Alloc(x, {}) \/ al[i] = Alloc(y, {x})
    OBVIOUS
  <2> HIDE DEF al
  <2> QED
    BY <2>1, TakesAndOwns
<1> HIDE DEF al, be
<1>5. Plan(c, late \o be, {x, y}, {}, Fields(N \cup {"selected", "weights"}))
  BY <1>2, FieldsJoin
<1>6. Plan(c, al \o (late \o be), {}, {}, F \cup Fields(N \cup {"selected", "weights"}))
  <2> DEFINE t == late \o be
  <2>1. \A i \in 1..Len(al), j \in 1..Len(t) : Apart(al[i].own, t[j].take \cup t[j].own)
    BY <1>4 DEF Apart
  <2> HIDE DEF t, F
  <2> QED
    BY <1>3, <1>5, <2>1, PlanTwo DEF t
<1>7. F \cup Fields(N \cup {"selected", "weights"}) = Fields({"selected", "weights"} \cup N)
  BY DEF Fields
<1> QED
  BY <1>6, <1>7 DEF al, be

\* What a creation allocates, up to its last failure.
LEMMA CreatePlan ==
  ASSUME NEW c \in Contexts, NEW o \in Options, NEW n \in Nat, DOMAIN model.layers = 1..n
  PROVE  Plan(c, CreateItems(c, o), {}, {}, Fields(CreatedFields))
<1> DEFINE selected == Block(c, "selected", 0, model.config.per_token)
           weights == Block(c, "weights", 0, o.weight_bytes)
           keep(blocks, undo) == [i \in DOMAIN blocks |-> Keep(blocks[i], undo)]
           rows == IF o.incremental THEN 1 ELSE o.max_tokens
           context == Block(c, "context", 0, 1)
           a == <<Keep(context, {}), Reserve(rows)>>
           f == keep(FixedBlocks(c, o), {})
           al == <<Alloc(selected, {}), Alloc(weights, {selected})>>
           late == IF o.incremental THEN keep(SequenceBlocks(c, o), {selected, weights}) ELSE <<>>
           be == <<Become({selected, weights})>>
<1>1. CreateItems(c, o) = a \o f \o al \o late \o be
  BY DEF CreateItems
<1>2. rows \in Nat
  BY SessionAssumption
<1>3. /\ selected.owner = c /\ selected.name = "selected" /\ selected.index = 0
      /\ weights.owner = c /\ weights.name = "weights" /\ weights.index = 0
      /\ context.owner = c /\ context.name = "context" /\ context.index = 0
  BY DEF Block
<1> HIDE DEF selected, weights, context, rows
<1>4. Plan(c, a, {}, {}, Fields({"context"}))
  <2>1. context.name \in NamesOf(c) /\ Key(context) \in Fields({"context"}) /\ context \notin {}
    BY <1>3, SessionAssumption DEF Fields, Key, NamesOf, FreedNames
  <2>2. Follows(c, Keep(context, {}), {}, {}, Fields({"context"}))
    BY <1>3, <2>1, FollowsKeep
  <2>3. Follows(c, Reserve(rows), {}, {}, {})
    BY <1>2, SessionAssumption DEF Follows, Reserve, Item
  <2>4. Plan(c, <<Reserve(rows)>>, {}, {}, {})
    BY <2>3, PlanOne
  <2> QED
    BY <2>2, <2>4, Plan2
<1>5. Plan(c, f, {}, {}, Fields(FixedFields))
  <2>1. Keyed(c, FixedBlocks(c, o), Fields(FixedFields))
    BY FixedKeyed
  <2>2. \A b \in {} : Key(b) \notin Fields(FixedFields)
    OBVIOUS
  <2> QED
    BY <2>1, <2>2, KeyedPlan
<1>6. Plan(c, late, {selected, weights}, {selected, weights}, Fields(SequenceFields))
  <2>1. CASE o.incremental
    <3>1. Keyed(c, SequenceBlocks(c, o), Fields(SequenceFields))
      BY SequenceKeyed
    <3>2. \A b \in {selected, weights} : Key(b) \notin Fields(SequenceFields)
      BY <1>3 DEF Key, Fields, SequenceFields, LayerFields
    <3>3. late = keep(SequenceBlocks(c, o), {selected, weights})
      BY <2>1
    <3> HIDE DEF late
    <3> QED
      BY <3>1, <3>2, <3>3, KeyedPlan
  <2>2. CASE ~o.incremental
    <3>1. late = <<>>
      BY <2>2
    <3> HIDE DEF late
    <3> QED
      BY <3>1, PlanNone
  <2> QED
    BY <2>1, <2>2
<1> HIDE DEF a, f, late
<1>7. Plan(c, al \o (late \o be), {}, {}, Fields({"selected", "weights"} \cup SequenceFields))
  <2>1. SequenceFields \cap {"selected", "weights"} = {}
    BY DEF SequenceFields, LayerFields
  <2> QED
    BY <1>3, <1>6, <2>1, LatePlan
<1> HIDE DEF al, be, keep
<1>8. AllListed(a, f, al, late, be)
  <2>1. IsList(a) /\ IsList(f) /\ IsList(late)
    BY <1>4, <1>5, <1>6 DEF Plan, IsList
  <2>2. IsList(al) /\ IsList(be)
    BY ListedShort DEF al, be
  <2> QED
    BY <2>1, <2>2 DEF AllListed
<1>9. CreateItems(c, o) = (a \o f) \o (al \o (late \o be))
  <2>1. a \o f \o al \o late \o be = (a \o f) \o (al \o (late \o be))
    BY <1>8, TwoHalves
  <2> QED
    BY <1>1, <2>1
<1>10. Plan(c, a \o f, {}, {}, Fields({"context"} \cup FixedFields))
  <2>1. {"context"} \cap FixedFields = {}
    BY DEF FixedFields
  <2> QED
    BY <1>4, <1>5, <2>1, FieldsJoin
<1>11. ({"context"} \cup FixedFields) \cap ({"selected", "weights"} \cup SequenceFields) = {}
  BY DEF FixedFields, SequenceFields, LayerFields
<1>12. ({"context"} \cup FixedFields) \cup ({"selected", "weights"} \cup SequenceFields) = CreatedFields
  BY DEF CreatedFields
<1>13. Plan(c, (a \o f) \o (al \o (late \o be)), {}, {}, Fields(CreatedFields))
  BY <1>7, <1>10, <1>11, <1>12, FieldsJoin
<1> QED
  BY <1>9, <1>13

\* What a first generation allocates, and a later one does not.
LEMMA GenerationPlan ==
  ASSUME NEW c \in Contexts
  PROVE  Plan(c, GenerationItems(c), {}, {}, Fields(GenerationFields))
<1> DEFINE usable == Min({options[c].max_tokens, model.config.max_length})
           width == model.config.unpadded
           F == Fields(GenerationFields)
           new == <<Block(c, "generation", 0, 1), Block(c, "prefix", 0, usable),
                    Block(c, "logits", 0, width), Block(c, "candidates", 0, width)>>
           s == [i \in 1..4 |-> Alloc(new[i], {new[j] : j \in 1..i - 1})]
           M == [i \in 1..5 |-> {new[j] : j \in 1..i - 1}]
<1>1. GenerationItems(c) = IF new[1] \in held[c] THEN <<>> ELSE s \o <<Become(Range(new))>>
  BY DEF GenerationItems
<1>2. new = [i \in 1..4 |-> new[i]]
  OBVIOUS
<1>3. \A i \in 1..4 : new[i].owner = c /\ new[i].name \in GenerationFields /\ new[i].index = 0
  BY DEF Block, GenerationFields
<1> HIDE DEF new
<1>4. Range(new) = {new[i] : i \in 1..4}
  BY <1>2, ListIs
<1>5. \A i \in 1..4 : new[i].name \in NamesOf(c) /\ Key(new[i]) \in F
  BY <1>3, FreedNamesAre, SessionAssumption DEF NamesOf, Key, Fields
<1> HIDE DEF F
<1>6. PICK L : L = M
  OBVIOUS
<1>7. L[1] = {} /\ L[4 + 1] = Range(new) /\ \A i \in 1..4 : L[i] = {new[j] : j \in 1..i - 1}
  BY <1>4, <1>6
<1>8. \A i \in 1..4 : L[i + 1] = L[i] \cup {new[i]}
  <2>1. ASSUME NEW i \in 1..4 PROVE L[i + 1] = L[i] \cup {new[i]}
    <3>1. L[i + 1] = {new[j] : j \in 1..i}
      BY <1>6
    <3>2. 1..i = (1..i - 1) \cup {i}
      OBVIOUS
    <3> QED
      BY <1>7, <3>1, <3>2
  <2> QED
    BY <2>1
<1>9. \A i \in 1..4 : s[i] = Alloc(new[i], L[i])
  BY <1>7
<1>10. s = [i \in 1..4 |-> s[i]]
  OBVIOUS
<1> HIDE DEF s
<1>11. \A i \in 1..4 : Follows(c, s[i], L[i], L[i + 1], F)
  <2>1. ASSUME NEW i \in 1..4 PROVE Follows(c, Alloc(new[i], L[i]), L[i], L[i + 1], F)
    BY <1>3, <1>5, <1>8, FollowsAlloc
  <2> QED
    BY <1>9, <2>1
<1>12. \A i \in 1..4 : s[i].own = {}
  BY <1>9, TakesAndOwns
<1>13. Plan(c, s, {}, Range(new), F)
  <2>1. \A i \in 1..4 : i # 5 => s[i].own = {}
    BY <1>12
  <2>2. \A i \in 1..4 : i > 5 => s[i].take = {}
    OBVIOUS
  <2>3. Plan(c, s, L[1], L[4 + 1], F)
    BY <1>10, <1>11, <2>1, <2>2, PlanListed
  <2> QED
    BY <1>7, <2>3
<1>14. Plan(c, <<Become(Range(new))>>, Range(new), {}, F)
  <2>1. \A b \in Range(new) : b.name \in NamesOf(c) /\ Key(b) \in F
    BY <1>4, <1>5
  <2>2. Follows(c, Become(Range(new)), Range(new), {}, F)
    BY <2>1, FollowsBecome
  <2> QED
    BY <2>2, PlanOne
<1>15. Plan(c, s \o <<Become(Range(new))>>, {}, {}, F)
  <2> DEFINE t == <<Become(Range(new))>>
  <2>1. \A i \in 1..Len(s), j \in 1..Len(t) : Apart(s[i].own, t[j].take \cup t[j].own)
    <3>1. \A i \in 1..Len(s) : i \in 1..4
      BY <1>10
    <3> QED
      BY <1>12, <3>1 DEF Apart
  <2> HIDE DEF t
  <2>2. Plan(c, s \o t, {}, {}, F \cup F)
    BY <1>13, <1>14, <2>1, PlanTwo DEF t
  <2>3. F \cup F = F
    OBVIOUS
  <2> QED
    BY <2>2, <2>3 DEF t
<1> QED
  BY <1>1, <1>15, PlanNone DEF F

-------------------------------------------------------------------------------
(***************************************************************************)
(* The heap is accounted for: the inductive invariant HInv, every action.  *)
(* What is left of a call is planned from the loose blocks that there are, *)
(* or it is what is left of a reservation.                                 *)
(***************************************************************************)

\* The blocks that are in no field.
Loose == heap \ UNION {held[o] : o \in Owners}

\* What is in fields is allocated, was allocated for them and is freed with them.
Owned ==
  /\ misuse = {}
  /\ \A o \in Owners : \A b \in held[o] : b \in heap /\ b.owner = o /\ b.name \in NamesOf(o)
  /\ \A o \in Owners : stage[o] = "none" => held[o] = {}
  /\ (\A b \in Loose : b.owner = by) /\ (Ready => Loose = {})

\* What a generation needs is there as a whole or not at all.
Begun ==
  \A c \in Contexts :
    (\E b \in held[c] : b.name \in GenerationFields) => Block(c, "generation", 0, 1) \in held[c]
Entire(c, item) ==
  (\E b \in item.own : b.name \in GenerationFields) => Block(c, "generation", 0, 1) \in item.own
Apt == by \in Contexts => \A item \in Range(todo) : Entire(by, item)

\* Nothing is in these fields, and they are not those of the rows.
Unused(c, F) ==
  /\ \A b \in held[c] : Key(b) \notin F
  /\ c \in Contexts => F \cap Fields(Range(RowNames)) = {}

\* The rest of the call is planned from here, ...
Straight(c, s) == \E F : Plan(c, s, Loose, {}, F) /\ Unused(c, F)

\* ... or from the end of the reservation that is under way.
Under(c, s, tokens, m, rest, F) ==
  /\ c \in Contexts /\ tokens > scratch[c] /\ Len(s) = 10 - m + Len(rest)
  /\ \A i \in 1..9 - m : s[i] = Loads(c, tokens, m + i)
  /\ s[10 - m] = Exchange(c, tokens)
  /\ \A i \in 1..Len(rest) : s[10 - m + i] = rest[i]
  /\ Plan(c, rest, {}, {}, F) /\ Unused(c, F) /\ Loose = RowsTo(c, tokens, m)
Broken(c, s) ==
  \E tokens, m, rest, F : tokens \in Nat /\ m \in 0..9 /\ Under(c, s, tokens, m, rest, F)

Course == ~Ready => Straight(by, todo) \/ Broken(by, todo)

HInv == SInv /\ Owned /\ Begun /\ Apt /\ Course

-------------------------------------------------------------------------------
\* What is planned behind the first item is about other fields than those that
\* it leaves blocks in.
LEMMA PlanLess ==
  ASSUME NEW w, NEW s, NEW A, NEW B, NEW F, Plan(w, s, A, B, F), s # <<>>
  PROVE  \E C : Follows(w, Head(s), A, C, F)
                /\ Plan(w, Tail(s), C, B, F \ {Key(b) : b \in Head(s).own})
<1> DEFINE t == Tail(s)
           K == {Key(b) : b \in Head(s).own}
<1>1. PICK C : /\ Follows(w, Head(s), A, C, F) /\ Plan(w, t, C, B, F)
               /\ \A i \in 1..Len(t) : Apart(Head(s).own, t[i].take \cup t[i].own)
  BY PlanTail
<1>2. ASSUME NEW i \in 1..Len(t), NEW b \in t[i].take \cup t[i].own PROVE Key(b) \notin K
  BY <1>1 DEF Apart
<1> HIDE DEF t, K
<1>3. ASSUME NEW i \in 1..Len(t), NEW D, NEW E, Follows(w, t[i], D, E, F)
      PROVE  Follows(w, t[i], D, E, F \ K)
  BY <1>2, <1>3 DEF Follows
<1>4. PICK L : /\ L[1] = C /\ L[Len(t) + 1] = B
               /\ \A i \in 1..Len(t) : Follows(w, t[i], L[i], L[i + 1], F)
  BY <1>1 DEF Plan
<1>5. \A i \in 1..Len(t) : Follows(w, t[i], L[i], L[i + 1], F \ K)
  BY <1>3, <1>4
<1>6. Plan(w, t, C, B, F \ K)
  BY <1>1, <1>4, <1>5 DEF Plan
<1> QED
  BY <1>1, <1>6 DEF t, K

\* Nothing is planned between different loose blocks by no items.
LEMMA PlanEnd == ASSUME NEW w, NEW A, NEW B, NEW F, Plan(w, <<>>, A, B, F) PROVE A = B
<1>1. Len(<<>>) = 0 /\ 0 + 1 = 1
  OBVIOUS
<1> QED
  BY <1>1 DEF Plan

\* Initially.
LEMMA HeapInitial == SessionInit => HInv
<1> SUFFICES ASSUME SessionInit PROVE HInv
  OBVIOUS
<1>1. SInv
  BY SessionInitial
<1>2. heap = {} /\ misuse = {} /\ Ready /\ (\A o \in Owners : held[o] = {}) /\ by \notin Contexts
      /\ \A c \in Contexts : held[c] = {}
  BY SessionAssumption DEF SessionInit, Ready, Owners
<1>3. Loose = {}
  BY <1>2 DEF Loose
<1> QED
  BY <1>1, <1>2, <1>3 DEF HInv, Owned, Begun, Apt, Course

\* A call begins.
LEMMA HeapBegin ==
  ASSUME HInv, Ready, NEW c \in Owners, NEW items, NEW F,
         by' = c, todo' = items, UNCHANGED <<heap, held, misuse>>,
         \A o \in Owners : stage'[o] = "none" => stage[o] = "none",
         Plan(c, items, {}, {}, F), Unused(c, F),
         c \in Contexts => \A item \in Range(items) : Entire(c, item)
  PROVE  Owned' /\ Begun' /\ Apt' /\ Course'
<1>1. Loose' = {} /\ Loose = {}
  BY DEF HInv, Owned, Loose
<1>2. Owned'
  BY <1>1 DEF HInv, Owned
<1>3. Begun'
  BY DEF HInv, Begun
<1>4. Apt'
  BY DEF Apt, Entire
<1>5. Straight(c, items)'
  BY <1>1 DEF Straight, Unused
<1>6. Course'
  BY <1>5 DEF Course
<1> QED
  BY <1>2, <1>3, <1>4, <1>6

\* An open.
LEMMA HeapOpen == HInv /\ OpenModel => HInv'
<1> SUFFICES ASSUME HInv, OpenModel PROVE HInv'
  OBVIOUS
<1>1. SInv'
  BY RowsOpen DEF HInv
<1>2. PICK w \in Ways : by' = "model" /\ todo' = OpenItems(w) /\ UNCHANGED <<heap, held, misuse>>
  BY DEF OpenModel, Begin
<1>3. Ready /\ "model" \in Owners /\ "model" \notin Contexts /\ held["model"] = {}
  BY SessionAssumption DEF OpenModel, HInv, Owned, Owners
<1>4. \A o \in Owners : stage'[o] = "none" => stage[o] = "none"
  BY DEF OpenModel, HInv, SInv, Shaped
<1>5. Unused("model", Fields(ClosedNames))
  BY <1>3 DEF Unused
<1>6. Plan("model", OpenItems(w), {}, {}, Fields(ClosedNames))
  BY OpenPlan
<1>7. Owned' /\ Begun' /\ Apt' /\ Course'
  BY <1>2, <1>3, <1>4, <1>5, <1>6, HeapBegin
<1> QED
  BY <1>1, <1>7 DEF HInv

\* What goes to none of the fields of a generation is apt.
LEMMA PlannedWhole ==
  ASSUME NEW c, NEW s, NEW A, NEW B, NEW N, N \cap GenerationFields = {},
         Plan(c, s, A, B, Fields(N))
  PROVE  \A item \in Range(s) : Entire(c, item)
<1>1. ASSUME NEW item \in Range(s), NEW b \in item.own PROVE b.name \notin GenerationFields
  <2>1. PICK i \in 1..Len(s) : item = s[i]
    BY ElementsAre DEF Plan
  <2>2. PICK C, D : Follows(c, item, C, D, Fields(N))
    BY <2>1 DEF Plan
  <2>3. Key(b) \in Fields(N)
    BY <2>2 DEF Follows
  <2>4. b.name \in N
    BY <2>3 DEF Fields, Key
  <2> QED
    BY <2>4
<1> QED
  BY <1>1 DEF Entire

\* A creation.
LEMMA HeapCreate == ASSUME NEW c \in Contexts PROVE HInv /\ CreateContext(c) => HInv'
<1> SUFFICES ASSUME HInv, CreateContext(c) PROVE HInv'
  OBVIOUS
<1>1. SInv'
  BY RowsCreate DEF HInv
<1>2. PICK o \in Options : by' = c /\ todo' = CreateItems(c, o) /\ UNCHANGED <<heap, held, misuse>>
  BY DEF CreateContext, Begin
<1>3. Ready /\ c \in Owners /\ held[c] = {}
  BY DEF CreateContext, HInv, Owned, Owners
<1>4. \A x \in Owners : stage'[x] = "none" => stage[x] = "none"
  BY DEF CreateContext, HInv, SInv, Shaped
<1>5. Unused(c, Fields(CreatedFields))
  BY <1>3, FreedNamesAre DEF Unused, Fields
<1>6. Plan(c, CreateItems(c, o), {}, {}, Fields(CreatedFields))
  <2>1. \E n \in Nat : DOMAIN model.layers = 1..n
    BY LayersLive DEF HInv, SInv, CreateContext
  <2> QED
    BY <2>1, CreatePlan
<1>7. \A item \in Range(CreateItems(c, o)) : Entire(c, item)
  BY <1>6, FreedNamesAre, PlannedWhole
<1>8. Owned' /\ Begun' /\ Apt' /\ Course'
  BY <1>2, <1>3, <1>4, <1>5, <1>6, <1>7, HeapBegin
<1> QED
  BY <1>1, <1>8 DEF HInv

\* The beginning of any other call.
LEMMA HeapEvaluate ==
  ASSUME NEW c \in Contexts, NEW call, NEW items, HInv, SInv', Evaluate(c, call, items),
         NEW F, Plan(c, items, {}, {}, F), Unused(c, F), \A item \in Range(items) : Entire(c, item)
  PROVE  HInv'
<1>1. /\ Ready /\ by' = c /\ todo' = items /\ UNCHANGED <<heap, held, misuse>> /\ stage' = stage
  BY DEF Evaluate, Begin
<1>2. c \in Owners
  BY DEF Owners
<1>3. Owned' /\ Begun' /\ Apt' /\ Course'
  BY <1>1, <1>2, HeapBegin
<1> QED
  BY <1>3 DEF HInv

\* One of the calls that allocate nothing but rows.
LEMMA HeapIdle ==
  ASSUME NEW c \in Contexts, NEW call, NEW items, HInv, SInv', Evaluate(c, call, items), Idle(items)
  PROVE  HInv'
<1>1. Plan(c, items, {}, {}, {})
  BY IdlePlan, SessionAssumption
<1>2. Unused(c, {})
  BY DEF Unused
<1>3. \A item \in Range(items) : Entire(c, item)
  BY DEF Idle, Plain, Entire
<1> QED
  BY <1>1, <1>2, <1>3, HeapEvaluate

\* A first generation leaves all of its blocks at once.
LEMMA GenerationWhole ==
  ASSUME NEW c PROVE \A item \in Range(GenerationItems(c)) : Entire(c, item)
<1> DEFINE usable == Min({options[c].max_tokens, model.config.max_length})
           width == model.config.unpadded
           new == <<Block(c, "generation", 0, 1), Block(c, "prefix", 0, usable),
                    Block(c, "logits", 0, width), Block(c, "candidates", 0, width)>>
           s == [i \in 1..4 |-> Alloc(new[i], {new[j] : j \in 1..i - 1})]
           t == <<Become(Range(new))>>
<1>1. GenerationItems(c) = IF new[1] \in held[c] THEN <<>> ELSE s \o t
  BY DEF GenerationItems
<1>2. new[1] = Block(c, "generation", 0, 1) /\ new[1] \in Range(new)
  BY DEF Range
<1> HIDE DEF new
<1>3. s = [i \in 1..4 |-> s[i]] /\ \A i \in 1..4 : s[i].own = {}
  BY TakesAndOwns
<1>4. IsList(t) /\ Range(t) = {Become(Range(new))}
  <2>1. IsList(t)
    BY ListedShort
  <2>2. DOMAIN t = {1} /\ t[1] = Become(Range(new))
    OBVIOUS
  <2> HIDE DEF t
  <2>3. Range(t) = {Become(Range(new))}
    BY <2>2 DEF Range
  <2> QED
    BY <2>1, <2>3
<1> HIDE DEF s, t
<1>5. IsList(s) /\ Range(s) = {s[i] : i \in 1..4}
  BY <1>3, ListIs DEF IsList
<1>6. Range(s \o t) = Range(s) \cup Range(t)
  BY <1>4, <1>5, ElementsOfTwo DEF IsList
<1>7. Block(c, "generation", 0, 1) \in Become(Range(new)).own
  BY <1>2 DEF Become, Item
<1>8. \A item \in Range(s \o t) : Entire(c, item)
  BY <1>3, <1>4, <1>5, <1>6, <1>7 DEF Entire
<1>9. Range(<<>>) = {}
  BY DEF Range
<1> QED
  BY <1>1, <1>8, <1>9

\* Those calls.
LEMMA HeapCalls ==
  ASSUME NEW c \in Contexts
  PROVE  HInv /\ (Blocks(c) \/ Forward(c) \/ Prefill(c) \/ Decode(c) \/ Prepare(c)) => HInv'
<1> SUFFICES ASSUME HInv, Blocks(c) \/ Forward(c) \/ Prefill(c) \/ Decode(c) \/ Prepare(c)
             PROVE  HInv'
  OBVIOUS
<1>0. SInv'
  BY RowsCalls DEF HInv
<1>1. options[c].max_tokens \in Nat
  BY SessionAssumption DEF HInv, SInv, Shaped
<1>2. stage[c] = "live"
  BY DEF Blocks, Forward, Prefill, Decode, Prepare, Evaluate
<1>3. PICK n \in Nat : DOMAIN model.layers = 1..n
  BY <1>2, LayersLive DEF HInv, SInv
<1>4. \A tokens \in 1..options[c].max_tokens : tokens \in Nat
  BY <1>1
<1>5. CASE Blocks(c)
  <2>1. PICK k \in DOMAIN model.layers, tokens \in 1..options[c].max_tokens :
          \/ Evaluate(c, "attention", AttentionCall(c, k, tokens, FALSE))
          \/ Evaluate(c, "mlp", MlpCall(c, k, tokens, FALSE))
          \/ Evaluate(c, "layer", LayerCall(c, k, tokens, {}))
    BY <1>5 DEF Blocks
  <2>2. /\ Idle(AttentionCall(c, k, tokens, FALSE)) /\ Idle(MlpCall(c, k, tokens, FALSE))
        /\ Idle(LayerCall(c, k, tokens, {}))
    BY <1>4, IdleCalls, IdleLayer
  <2> QED
    BY <1>0, <2>1, <2>2, HeapIdle
<1>6. CASE Forward(c)
  <2>1. PICK tokens \in 1..options[c].max_tokens : Evaluate(c, "forward", ForwardCall(c, tokens))
    BY <1>6 DEF Forward
  <2>2. Idle(ForwardCall(c, tokens))
    BY <1>3, <1>4, IdleForward
  <2> QED
    BY <1>0, <2>1, <2>2, HeapIdle
<1>7. CASE Prefill(c)
  <2>1. PICK tokens \in 1..options[c].max_tokens : Evaluate(c, "prefill", PrefillCall(c, tokens))
    BY <1>7 DEF Prefill
  <2>2. Idle(PrefillCall(c, tokens))
    BY <1>3, <1>4, IdlePrefill
  <2> QED
    BY <1>0, <2>1, <2>2, HeapIdle
<1>8. CASE Decode(c)
  <2>1. Evaluate(c, "decode", TokenCall(c, position[c]))
    BY <1>8 DEF Decode
  <2>2. Idle(TokenCall(c, position[c]))
    BY <1>3, IdleToken
  <2> QED
    BY <1>0, <2>1, <2>2, HeapIdle
<1>9. CASE Prepare(c)
  <2>1. Evaluate(c, "prepare", GenerationItems(c))
    BY <1>9 DEF Prepare
  <2> DEFINE first == Block(c, "generation", 0, 1)
  <2>2. CASE first \in held[c]
    <3>1. GenerationItems(c) = <<>>
      BY <2>2 DEF GenerationItems
    <3>2. Idle(<<>>)
      BY EmptySeq DEF Idle, Range
    <3> QED
      BY <1>0, <2>1, <3>1, <3>2, HeapIdle
  <2>3. CASE first \notin held[c]
    <3>1. Plan(c, GenerationItems(c), {}, {}, Fields(GenerationFields))
      BY GenerationPlan
    <3>2. Unused(c, Fields(GenerationFields))
      <4>1. \A b \in held[c] : Key(b) \notin Fields(GenerationFields)
        BY <2>3 DEF HInv, Begun, Key, Fields
      <4>2. Fields(GenerationFields) \cap Fields(Range(RowNames)) = {}
        BY FreedNamesAre DEF Fields
      <4> QED
        BY <4>1, <4>2 DEF Unused
    <3>3. \A item \in Range(GenerationItems(c)) : Entire(c, item)
      BY <2>3, GenerationWhole
    <3> QED
      BY <1>0, <2>1, <3>1, <3>2, <3>3, HeapEvaluate
  <2> QED
    BY <2>2, <2>3
<1> QED
  BY <1>5, <1>6, <1>7, <1>8, <1>9

\* A decode that is refused.
LEMMA HeapRefused == ASSUME NEW c \in Contexts PROVE HInv /\ DecodeRefused(c) => HInv'
<1> SUFFICES ASSUME HInv, DecodeRefused(c) PROVE HInv'
  OBVIOUS
<1>1. SInv' /\ Ready /\ UNCHANGED <<heap, held, by, todo, misuse, stage, doing>>
  BY RowsRefused DEF HInv, DecodeRefused, allocations
<1>2. Loose' = Loose
  BY <1>1 DEF Loose
<1>3. Owned' /\ Begun' /\ Apt' /\ Course'
  BY <1>1, <1>2 DEF HInv, Owned, Begun, Apt, Entire, Course, Ready
<1> QED
  BY <1>1, <1>3 DEF HInv

\* Where a call can fail, what it frees then is all that is in no field.
LEMMA UndoneIsLoose ==
  ASSUME HInv, ~Ready, todo # <<>>
  PROVE  /\ Head(todo).may => Head(todo).undo = Loose
         /\ Broken(by, todo) => Head(todo).rows = 0
<1>1. IsList(todo)
  BY DEF HInv, SInv, Shaped, IsList
<1>2. Head(todo) = todo[1]
  BY <1>1, TailIs
<1>3. ASSUME Straight(by, todo), Head(todo).may PROVE Head(todo).undo = Loose
  <2>1. PICK F : Plan(by, todo, Loose, {}, F)
    BY <1>3 DEF Straight
  <2>2. PICK C : Follows(by, Head(todo), Loose, C, F)
    BY <2>1, PlanLess
  <2> QED
    BY <1>3, <2>2 DEF Follows
<1>4. ASSUME Broken(by, todo)
      PROVE  (Head(todo).may => Head(todo).undo = Loose) /\ Head(todo).rows = 0
  <2>1. PICK tokens, m, rest, F : tokens \in Nat /\ m \in 0..9 /\ Under(by, todo, tokens, m, rest, F)
    BY <1>4 DEF Broken
  <2>2. CASE m = 9
    <3>1. Head(todo) = Exchange(by, tokens)
      BY <1>2, <2>1, <2>2 DEF Under
    <3> QED
      BY <3>1 DEF Exchange, Item
  <2>3. CASE m # 9
    <3>1. 1 \in 1..9 - m /\ m + 1 - 1 = m
      BY <2>1, <2>3
    <3>2. Head(todo) = Loads(by, tokens, m + 1) /\ Loose = RowsTo(by, tokens, m)
      BY <1>2, <2>1, <3>1 DEF Under
    <3>3. PICK i : i = m + 1 /\ i - 1 = m
      BY <2>1
    <3>4. Loads(by, tokens, i).undo = RowsTo(by, tokens, i - 1)
          /\ Loads(by, tokens, i).rows = 0
      BY DEF Loads, Alloc, Item
    <3>5. RowsTo(by, tokens, i - 1) = Loose
      BY <3>2, <3>3
    <3> QED
      BY <3>2, <3>3, <3>4, <3>5
  <2> QED
    BY <2>2, <2>3
<1> QED
  BY <1>3, <1>4 DEF HInv, Course

\* A sequence behind another, by number.
LEMMA ListedTwo ==
  ASSUME NEW s, NEW t, IsList(s), IsList(t)
  PROVE  /\ Len(s \o t) = Len(s) + Len(t) /\ \A i \in 1..Len(s) : (s \o t)[i] = s[i]
         /\ \A i \in 1..Len(t) : (s \o t)[Len(s) + i] = t[i]
<1> DEFINE n == Len(s)
<1> DEFINE S == Range(s) \cup Range(t)
<1>1. Range(s) \subseteq S /\ Range(t) \subseteq S
  OBVIOUS
<1> HIDE DEF S
<1>2. \A v, T : v \in Seq(T) /\ T \subseteq S => v \in Seq(S)
  OBVIOUS
<1>3. s \in Seq(S) /\ t \in Seq(S) /\ Len(t) \in Nat /\ n \in Nat
  BY <1>1, <1>2, ElementsAre DEF IsList
<1>4. /\ Len(s \o t) = Len(s) + Len(t)
      /\ \A i \in 1..Len(s) + Len(t) : (s \o t)[i] = IF i <= Len(s) THEN s[i] ELSE t[i - Len(s)]
  BY <1>3, ConcatProperties
<1>5. \A i \in 1..n : i \in 1..n + Len(t) /\ i <= n
  BY <1>3
<1>6. \A i \in 1..Len(t) : n + i \in 1..n + Len(t) /\ ~(n + i <= n) /\ n + i - n = i
  BY <1>3
<1> QED
  BY <1>4, <1>5, <1>6

\* The items of a reservation depend on the model and the fields only.
LEMMA ReservationSame ==
  ASSUME NEW c, UNCHANGED <<held, model>>
  PROVE  /\ \A n, i : RowsTo(c, n, i)' = RowsTo(c, n, i)
         /\ \A n, i : Loads(c, n, i)' = Loads(c, n, i)
         /\ \A n : Exchange(c, n)' = Exchange(c, n)
<1>1. RowsHeld(c)' = RowsHeld(c)
  BY DEF RowsHeld
<1>2. \A n : Rows(c, n)' = Rows(c, n)
  BY DEF Rows, RowWidths, Hidden, Widest, KvWidth
<1>3. \A n, i : RowsTo(c, n, i)' = RowsTo(c, n, i)
  BY <1>2 DEF RowsTo
<1>4. \A n, i : Loads(c, n, i)' = Loads(c, n, i)
  BY <1>2, <1>3 DEF Loads
<1>5. \A n : Exchange(c, n)' = Exchange(c, n)
  BY <1>1, <1>2 DEF Exchange
<1> QED
  BY <1>3, <1>4, <1>5

\* A reservation stays under way as long as nothing happens to the heap.
LEMMA BrokenKept ==
  ASSUME NEW c, NEW s, Broken(c, s), UNCHANGED <<heap, held, model, scratch>>
  PROVE  Broken(c, s)'
<1>1. Loose' = Loose
  BY DEF Loose
<1>3. \A n, i : RowsTo(c, n, i)' = RowsTo(c, n, i)
  BY ReservationSame
<1>4. /\ \A n, i : Loads(c, n, i)' = Loads(c, n, i)
      /\ \A n : Exchange(c, n)' = Exchange(c, n)
  BY ReservationSame
<1>6. \A F : Unused(c, F) => Unused(c, F)'
  BY DEF Unused
<1>7. PICK tokens, m, rest, F : tokens \in Nat /\ m \in 0..9 /\ Under(c, s, tokens, m, rest, F)
  BY DEF Broken
<1>8. Under(c, s, tokens, m, rest, F)'
  BY <1>1, <1>3, <1>4, <1>6, <1>7 DEF Under
<1> QED
  BY <1>7, <1>8 DEF Broken

\* A reservation: nothing to do, or nine allocations and an exchange.
LEMMA HeapReserve == HInv /\ ReserveRows => HInv'
<1> SUFFICES ASSUME HInv, ReserveRows PROVE HInv'
  OBVIOUS
<1> DEFINE t == Head(todo).rows
           front == IF Reserved(by, t) THEN <<>> ELSE RowItems(by, t)
           rest == Tail(todo)
<1>0. SInv'
  BY RowsReserve DEF HInv
<1>1. /\ todo # <<>> /\ t > 0 /\ todo' = front \o rest
      /\ UNCHANGED <<heap, held, by, pins, misuse, model, options, scratch, position, stage, doing, way>>
  BY DEF ReserveRows, contextData
<1>2. ~Ready /\ IsList(todo)
  BY <1>1 DEF HInv, SInv, Calm, Shaped, IsList
<1>3. IsList(rest) /\ Range(rest) \subseteq Range(todo) /\ Head(todo) \in Range(todo)
  BY <1>1, <1>2, TailIs
<1>4. PICK F : Plan(by, todo, Loose, {}, F) /\ Unused(by, F)
  BY <1>1, <1>2, UndoneIsLoose DEF HInv, Course, Straight
<1>5. PICK C : Follows(by, Head(todo), Loose, C, F) /\ Plan(by, rest, C, {}, F \ {Key(b) : b \in Head(todo).own})
  BY <1>1, <1>4, PlanLess
<1> DEFINE G == F \ {Key(b) : b \in Head(todo).own}
<1>6. Loose = {} /\ by # "model" /\ t \in Nat /\ Plan(by, rest, {}, {}, G)
  BY <1>1, <1>5 DEF Follows
<1>7. by \in Contexts
  BY <1>6 DEF HInv, SInv, Shaped, Owners
<1>8. Unused(by, G)
  BY <1>4 DEF Unused
<1> HIDE DEF G
<1>9. Loose' = Loose
  BY <1>1 DEF Loose
<1>10. Owned' /\ Begun'
  BY <1>1, <1>9 DEF HInv, Owned, Begun, Ready
<1>11. IsList(front) /\ \A item \in Range(front) : Entire(by, item)
  <2>1. CASE Reserved(by, t)
    <3>1. front = <<>> /\ Range(<<>>) = {}
      BY <2>1 DEF Range
    <3> HIDE DEF front
    <3> QED
      BY <3>1, ListedShort
  <2>2. CASE ~Reserved(by, t)
    <3>1. front = RowItems(by, t)
      BY <2>2
    <3> HIDE DEF front, t
    <3>2. IsList(front) /\ Len(front) = 10
      BY <3>1, RowItemsAre
    <3>3. Range(front) = {front[i] : i \in 1..10}
      BY <3>2, ElementsAre DEF IsList
    <3>4. \A i \in 1..9 : front[i] = Loads(by, t, i)
      BY <3>1, RowItemsAre
    <3>5. front[10] = Exchange(by, t)
      BY <3>1, RowItemsAre
    <3>6. \A i \in 1..9 : front[i].own = {}
      BY <3>4, TakesAndOwns DEF Loads
    <3>7. front[10].own = Range(Rows(by, t))
      BY <3>5 DEF Exchange, Item
    <3>8. \A b \in front[10].own : b.name \notin GenerationFields
      BY <3>7, RowsRange, FreedNamesAre
    <3>9. \A i \in 1..10 : Entire(by, front[i])
      <4>1. \A i \in 1..10 : i \in 1..9 \/ i = 10
        OBVIOUS
      <4> QED
        BY <3>6, <3>8, <4>1 DEF Entire
    <3> QED
      BY <3>2, <3>3, <3>9
  <2> QED
    BY <2>1, <2>2
<1>12. Apt'
  <2> HIDE DEF front, rest
  <2>1. Range(front \o rest) = Range(front) \cup Range(rest)
    BY <1>3, <1>11, ElementsOfTwo DEF IsList
  <2>2. \A item \in Range(rest) : Entire(by, item)
    BY <1>3, <1>7 DEF HInv, Apt
  <2>3. \A item \in Range(front \o rest) : Entire(by, item)
    BY <1>11, <2>1, <2>2
  <2>4. PICK s : s = front \o rest
    OBVIOUS
  <2>5. \A item \in Range(s) : Entire(by, item)
    BY <2>3, <2>4
  <2>6. todo' = s
    BY <1>1, <2>4
  <2> QED
    BY <1>1, <2>5, <2>6 DEF Apt, Entire
<1>13. PICK c : c = by
  OBVIOUS
<1>14. PICK s : s = todo'
  OBVIOUS
<1>15. Straight(c, s)' \/ Broken(c, s)'
  <2>1. CASE Reserved(by, t)
    <3>1. s = rest
      <4>1. rest \in Seq(Range(rest)) /\ front = <<>>
        BY <1>3, <2>1 DEF IsList
      <4> HIDE DEF rest
      <4> QED
        BY <1>1, <1>14, <4>1
    <3>2. Plan(c, s, {}, {}, G) /\ Unused(c, G)
      BY <1>6, <1>8, <1>13, <3>1
    <3>3. Straight(c, s)'
      BY <1>1, <1>6, <1>9, <3>2 DEF Straight, Unused
    <3> QED
      BY <3>3
  <2>2. CASE ~Reserved(by, t)
    <3>1. PICK n : n = t
      OBVIOUS
    <3>2. PICK r : r = rest
      OBVIOUS
    <3>3. s = RowItems(c, n) \o r
      BY <1>1, <1>13, <1>14, <2>2, <3>1, <3>2
    <3>4. IsList(RowItems(c, n)) /\ Len(RowItems(c, n)) = 10 /\ IsList(r) /\ Len(r) \in Nat
      BY <1>3, <3>2, RowItemsAre, ElementsAre DEF IsList
    <3>5. /\ Len(s) = 10 + Len(r)
          /\ \A i \in 1..10 : s[i] = RowItems(c, n)[i]
          /\ \A i \in 1..Len(r) : s[10 + i] = r[i]
      <4>1. PICK q : q = RowItems(c, n)
        OBVIOUS
      <4>2. IsList(q) /\ Len(q) = 10 /\ s = q \o r
        BY <3>3, <3>4, <4>1
      <4>3. IsList(q) /\ IsList(r)
        BY <3>4, <4>2
      <4>4. /\ Len(q \o r) = Len(q) + Len(r) /\ \A i \in 1..Len(q) : (q \o r)[i] = q[i]
            /\ \A i \in 1..Len(r) : (q \o r)[Len(q) + i] = r[i]
        BY <4>3, ListedTwo
      <4> QED
        BY <4>1, <4>2, <4>4
    <3>6. \A i \in 1..9 : s[i] = Loads(c, n, 0 + i)
      BY <3>5, RowItemsAre
    <3>7. s[10] = Exchange(c, n)
      BY <3>5, RowItemsAre
    <3>8. n \in Nat /\ n > scratch[c]
      <4>1. scratch[by] \in Nat
        BY <1>7 DEF HInv, SInv, Shaped
      <4> QED
        BY <1>6, <1>13, <2>2, <3>1, <4>1 DEF Reserved
    <3>9. RowsTo(c, n, 0) = {}
      BY DEF RowsTo
    <3>10. Under(c, s, n, 0, r, G)
      <4>1. 9 - 0 = 9 /\ 10 - 0 = 10
        OBVIOUS
      <4> HIDE DEF t, rest
      <4> QED
        BY <1>6, <1>7, <1>8, <1>13, <3>2, <3>5, <3>6, <3>7, <3>8, <3>9, <4>1 DEF Under
    <3>11. Broken(c, s)
      BY <3>8, <3>10 DEF Broken
    <3> QED
      BY <1>1, <3>11, BrokenKept
  <2> QED
    BY <2>1, <2>2
<1>16. Course'
  BY <1>1, <1>13, <1>14, <1>15 DEF Course
<1> QED
  BY <1>0, <1>10, <1>12, <1>16 DEF HInv

\* What a planned item leaves when it succeeds.
LEMMA DonePlanned ==
  ASSUME HInv, ~Ready, NEW item, NEW C, NEW F, Follows(by, item, Loose, C, F), Unused(by, F),
         Done(item), UNCHANGED by
  PROVE  /\ misuse' = {} /\ Loose' = C
         /\ held'[by] = held[by] \cup item.own
         /\ \A o \in Owners : o # by => held'[o] = held[o]
         /\ \A o \in Owners : \A b \in held'[o] : b \in heap' /\ b.owner = o /\ b.name \in NamesOf(o)
         /\ \A b \in C : b.owner = by
<1>1. /\ by \in Owners /\ held = [o \in Owners |-> held[o]] /\ misuse = {}
      /\ \A o \in Owners : \A b \in held[o] : b \in heap /\ b.owner = o /\ b.name \in NamesOf(o)
      /\ \A b \in Loose : b.owner = by
  BY DEF HInv, SInv, Shaped, Owned
<1>2. /\ heap' = (heap \cup item.take) \ item.drop
      /\ misuse' = misuse \cup (item.drop \ (heap \cup item.take))
      /\ held' = [held EXCEPT ![by] = Others(@ \ item.drop, item.own) \cup item.own]
  BY DEF Done
<1>3. /\ item.drop \subseteq Loose \cup item.take /\ item.own \subseteq Loose \cup item.take
      /\ C = (Loose \cup item.take) \ (item.drop \cup item.own) /\ item.drop \cap item.own = {}
      /\ \A b \in item.own : b.name \in NamesOf(by) /\ Key(b) \in F
      /\ \A b \in item.take : b.owner = by /\ (b.name \in NamesOf(by) => Key(b) \in F)
  BY DEF Follows
<1>4. \A b \in Loose : b \in heap /\ \A o \in Owners : b \notin held[o]
  BY DEF Loose
<1>5. ASSUME NEW b \in item.take, NEW o \in Owners PROVE b \notin held[o]
  BY <1>1, <1>3 DEF Unused
<1>6. misuse' = {}
  BY <1>1, <1>2, <1>3, <1>4
<1>7. Others(held[by] \ item.drop, item.own) = held[by]
  <2>1. \A b \in held[by] : b \notin item.drop
    BY <1>1, <1>3, <1>4, <1>5
  <2>2. \A b \in held[by], n \in item.own : n.name # b.name \/ n.index # b.index
    BY <1>3 DEF Unused, Key
  <2> QED
    BY <2>1, <2>2 DEF Others
<1>8. held'[by] = held[by] \cup item.own /\ \A o \in Owners : o # by => held'[o] = held[o]
  BY <1>1, <1>2, <1>7
<1>9. Loose' = C
  <2>1. Loose' = heap' \ UNION {held'[o] : o \in Owners}
    BY DEF Loose
  <2>2. ASSUME NEW b PROVE (\E o \in Owners : b \in held'[o]) <=> (b \in item.own \/ \E o \in Owners : b \in held[o])
    BY <1>1, <1>8
  <2>3. ASSUME NEW b PROVE b \in Loose' <=> b \in heap' /\ ~(\E o \in Owners : b \in held'[o])
    BY <2>1
  <2>4. ASSUME NEW b PROVE b \in Loose <=> b \in heap /\ ~(\E o \in Owners : b \in held[o])
    BY DEF Loose
  <2>5. ASSUME NEW b PROVE b \in Loose' <=> b \in C
    <3>1. CASE b \in item.take
      BY <1>2, <1>3, <1>5, <2>2, <2>3, <3>1
    <3>2. CASE b \notin item.take
      BY <1>2, <1>3, <2>2, <2>3, <2>4, <3>2
    <3> QED
      BY <3>1, <3>2
  <2> QED
    BY <2>5
<1>10. ASSUME NEW o \in Owners, NEW b \in held'[o]
       PROVE  b \in heap' /\ b.owner = o /\ b.name \in NamesOf(o)
  <2>1. CASE b \in held[o]
    <3>1. b \notin item.drop
      BY <1>3, <1>4, <1>5, <2>1
    <3> QED
      BY <1>1, <1>2, <2>1, <3>1
  <2>2. CASE b \notin held[o]
    <3>1. o = by /\ b \in item.own
      BY <1>8, <2>2
    <3> QED
      BY <1>1, <1>2, <1>3, <1>4, <3>1
  <2> QED
    BY <2>1, <2>2
<1>11. \A b \in C : b.owner = by
  BY <1>1, <1>3
<1> QED
  BY <1>6, <1>8, <1>9, <1>10, <1>11

\* An item succeeds that is planned.
LEMMA HeapPlanned ==
  ASSUME HInv, Succeed, ~Ready, SInv', Straight(by, todo)
  PROVE  HInv'
<1> DEFINE item == Head(todo)
           rest == Tail(todo)
<1>1. /\ todo # <<>> /\ Done(item) /\ todo' = rest
      /\ UNCHANGED <<by, model, options, stage, doing, way>>
  BY DEF Succeed
<1>2. PICK F : Plan(by, todo, Loose, {}, F) /\ Unused(by, F)
  BY DEF Straight
<1>3. PICK C : Follows(by, item, Loose, C, F) /\ Plan(by, rest, C, {}, F \ {Key(b) : b \in item.own})
  BY <1>1, <1>2, PlanLess
<1>4. PICK G : G = F \ {Key(b) : b \in item.own}
  OBVIOUS
<1>5. /\ misuse' = {} /\ Loose' = C
      /\ held'[by] = held[by] \cup item.own
      /\ \A o \in Owners : o # by => held'[o] = held[o]
      /\ \A o \in Owners : \A b \in held'[o] : b \in heap' /\ b.owner = o /\ b.name \in NamesOf(o)
      /\ \A b \in C : b.owner = by
  BY <1>1, <1>2, <1>3, DonePlanned
<1>6. /\ IsList(todo) /\ by \in Owners /\ stage[by] # "none"
      /\ \A o \in Owners : stage[o] = "none" => held[o] = {}
  BY DEF HInv, SInv, Shaped, Staged, Owned, IsList
<1>7. item \in Range(todo) /\ Range(rest) \subseteq Range(todo)
  BY <1>1, <1>6, TailIs
<1> HIDE DEF item, rest
<1>8. Owned'
  <2>1. \A o \in Owners : stage'[o] = "none" => held'[o] = {}
    BY <1>1, <1>5, <1>6
  <2>2. \A b \in Loose' : b.owner = by'
    BY <1>1, <1>5
  <2> QED
    BY <1>1, <1>5, <2>1, <2>2 DEF Owned, Ready
<1>9. Begun'
  <2>1. ASSUME NEW c \in Contexts, NEW b \in held'[c], b.name \in GenerationFields
        PROVE  Block(c, "generation", 0, 1) \in held'[c]
    <3>0. c \in Owners
      BY DEF Owners
    <3>1. CASE b \in held[c]
      <4>1. Block(c, "generation", 0, 1) \in held[c]
        BY <2>1, <3>1 DEF HInv, Begun
      <4> QED
        BY <1>5, <3>0, <4>1
    <3>2. CASE b \notin held[c]
      <4>1. c = by /\ b \in item.own
        BY <1>5, <2>1, <3>0, <3>2
      <4>2. Entire(by, item)
        BY <1>7, <2>1, <4>1 DEF HInv, Apt
      <4> QED
        BY <1>5, <2>1, <4>1, <4>2 DEF Entire
    <3> QED
      BY <3>1, <3>2
  <2> QED
    BY <2>1 DEF Begun
<1>10. PICK s : s = rest
  OBVIOUS
<1>11. PICK c : c = by
  OBVIOUS
<1>12. by' = c /\ todo' = s
  BY <1>1, <1>10, <1>11
<1>13. Apt'
  <2>1. c \in Contexts => \A x \in Range(s) : Entire(c, x)
    BY <1>7, <1>10, <1>11 DEF HInv, Apt
  <2> QED
    BY <1>12, <2>1 DEF Apt, Entire
<1>14. Straight(c, s)'
  <2>1. Plan(c, s, C, {}, G)
    BY <1>3, <1>4, <1>10, <1>11
  <2>2. Unused(c, G)'
    <3>1. \A b \in held'[c] : Key(b) \notin G
      BY <1>2, <1>4, <1>5, <1>11 DEF Unused
    <3>2. c \in Contexts => G \cap Fields(Range(RowNames)) = {}
      BY <1>2, <1>4, <1>11 DEF Unused
    <3> QED
      BY <3>1, <3>2 DEF Unused
  <2> QED
    BY <1>5, <2>1, <2>2 DEF Straight
<1>15. Course'
  BY <1>12, <1>14 DEF Course
<1> QED
  BY <1>8, <1>9, <1>13, <1>15 DEF HInv

\* One of the nine allocations of a reservation succeeds.
LEMMA HeapLoads ==
  ASSUME HInv, Succeed, ~Ready, SInv',
         NEW c \in Contexts, by = c, NEW s, s = Tail(todo), NEW n \in Nat, NEW m \in 0..8,
         NEW rest, NEW F, Under(c, todo, n, m, rest, F)
  PROVE  HInv'
<1> DEFINE item == Head(todo)
           new == Rows(c, n)[m + 1]
<1>1. /\ todo # <<>> /\ Done(item) /\ todo' = s
      /\ UNCHANGED <<by, model, options, stage, doing, way>>
      /\ item.scratch = -1 => scratch' = scratch
  BY DEF Succeed, Noted
<1>2. /\ IsList(todo) /\ c \in Owners /\ stage[c] # "none" /\ held = [o \in Owners |-> held[o]]
      /\ \A o \in Owners : stage[o] = "none" => held[o] = {}
  BY DEF HInv, SInv, Shaped, Staged, Owned, IsList
<1>3. /\ item = todo[1] /\ Range(s) \subseteq Range(todo)
      /\ Len(todo) \in Nat \ {0} /\ Len(s) = Len(todo) - 1
      /\ \A i \in 1..Len(todo) - 1 : s[i] = todo[i + 1]
  BY <1>1, <1>2, TailIs
<1>4. /\ n > scratch[c] /\ Len(todo) = 10 - m + Len(rest)
      /\ \A i \in 1..9 - m : todo[i] = Loads(c, n, m + i)
      /\ todo[10 - m] = Exchange(c, n)
      /\ \A i \in 1..Len(rest) : todo[10 - m + i] = rest[i]
      /\ Plan(c, rest, {}, {}, F) /\ Unused(c, F) /\ Loose = RowsTo(c, n, m)
  BY DEF Under
<1>5. PICK e \in Nat : e = Len(rest) /\ Len(todo) - 1 = 9 - m + e /\ Len(s) = 9 - m + e
  <2>1. Len(rest) \in Nat
    BY <1>4, ElementsAre DEF Plan
  <2>2. \A l, e : e \in Nat /\ l = 10 - m + e => l - 1 = 9 - m + e
    OBVIOUS
  <2> QED
    BY <1>3, <1>4, <2>1, <2>2
<1>6. item.take = {new} /\ item.drop = {} /\ item.own = {} /\ item.scratch = -1
  <2>1. 1 \in 1..9 - m
    OBVIOUS
  <2>1a. todo[1] = Loads(c, n, m + 1)
    BY <2>1, <1>4
  <2>1b. item = Loads(c, n, m + 1)
    BY <2>1a, <1>3
  <2>2. \A b, A : /\ Alloc(b, A).take = {b} /\ Alloc(b, A).drop = {} /\ Alloc(b, A).own = {}
                  /\ Alloc(b, A).scratch = -1
    BY DEF Alloc, Item
  <2> QED
    BY <2>1b, <2>2 DEF Loads
<1>7. new.owner = c /\ m + 1 \in 1..9 /\ new \notin held[c]
  <2>1. m + 1 \in 1..9
    OBVIOUS
  <2>2. new.owner = c
    BY <2>1, RowsAre
  <2>3. new \notin held[c]
    BY <1>2, <1>4, <2>1, RowsLonger DEF HInv
  <2> QED
    BY <2>1, <2>2, <2>3
<1> HIDE DEF item, new
<1>8. heap' = heap \cup {new} /\ misuse' = misuse /\ held' = held
  <2>1. \A h : Others(h \ {}, {}) \cup {} = h
    BY DEF Others
  <2>2. held' = [held EXCEPT ![by] = Others(@ \ {}, {}) \cup {}]
    BY <1>1, <1>6 DEF Done
  <2>3. held' = held
    BY <1>2, <2>1, <2>2
  <2> QED
    BY <1>1, <1>6, <2>3 DEF Done
<1>9. Loose' = Loose \cup {new}
  <2>1. \A o \in Owners : new \notin held[o]
    BY <1>7 DEF HInv, Owned
  <2> QED
    BY <1>8, <2>1 DEF Loose
<1>10. Owned'
  BY <1>1, <1>7, <1>8, <1>9 DEF HInv, Owned, Ready
<1>11. Begun'
  BY <1>8 DEF HInv, Begun
<1>12. Apt'
  <2>1. \A x \in Range(s) : Entire(c, x)
    BY <1>3 DEF HInv, Apt
  <2> QED
    BY <1>1, <2>1 DEF Apt, Entire
<1>13. UNCHANGED <<held, model, scratch>>
  BY <1>1, <1>6, <1>8
<1>15. \A x, i : RowsTo(c, x, i)' = RowsTo(c, x, i)
  BY <1>13, ReservationSame
<1>16. /\ \A x, i : Loads(c, x, i)' = Loads(c, x, i)
       /\ \A x : Exchange(c, x)' = Exchange(c, x)
  BY <1>13, ReservationSame
<1>17. Loose' = RowsTo(c, n, m + 1)'
  <2>1. 1..m + 1 = (1..m) \cup {m + 1}
    OBVIOUS
  <2>2. RowsTo(c, n, m + 1) = RowsTo(c, n, m) \cup {new}
    BY <2>1 DEF RowsTo, new
  <2> QED
    BY <1>4, <1>9, <1>15, <2>2
<1>18. Under(c, s, n, m + 1, rest, F)'
  <2>1. Len(s) = 10 - (m + 1) + Len(rest)
    BY <1>5
  <2>2. ASSUME NEW i \in 1..9 - (m + 1) PROVE s[i] = Loads(c, n, m + 1 + i)
    <3>1. i \in 1..9 - m + e /\ i + 1 \in 1..9 - m /\ m + (i + 1) = m + 1 + i
      OBVIOUS
    <3> QED
      BY <1>3, <1>4, <1>5, <3>1
  <2>3. s[10 - (m + 1)] = Exchange(c, n)
    <3>1. 10 - (m + 1) \in 1..9 - m + e /\ 10 - (m + 1) + 1 = 10 - m
      OBVIOUS
    <3> QED
      BY <1>3, <1>4, <1>5, <3>1
  <2>4. ASSUME NEW i \in 1..Len(rest) PROVE s[10 - (m + 1) + i] = rest[i]
    <3>1. i \in 1..e
      BY <1>5
    <3>2. 10 - (m + 1) + i \in 1..9 - m + e /\ 10 - (m + 1) + i + 1 = 10 - m + i
      BY <3>1
    <3> QED
      BY <1>3, <1>4, <1>5, <3>2
  <2>5. Unused(c, F)'
    BY <1>4, <1>8 DEF Unused
  <2>6. n > scratch'[c]
    BY <1>4, <1>13
  <2> QED
    BY <1>4, <1>16, <1>17, <2>1, <2>2, <2>3, <2>4, <2>5, <2>6 DEF Under
<1>19. Broken(c, s)'
  <2>1. m + 1 \in 0..9
    OBVIOUS
  <2> QED
    BY <1>18, <2>1 DEF Broken
<1>20. Course'
  BY <1>1, <1>19 DEF Course
<1> QED
  BY <1>10, <1>11, <1>12, <1>20 DEF HInv

\* Two sequences with the same elements are one.
LEMMA ListedEqual ==
  ASSUME NEW s, NEW t, IsList(s), IsList(t), Len(s) = Len(t), \A i \in 1..Len(t) : s[i] = t[i]
  PROVE  s = t
<1>1. /\ s \in Seq(Range(s)) /\ t \in Seq(Range(t)) /\ Len(s) \in Nat
      /\ DOMAIN s = 1..Len(s) /\ DOMAIN t = 1..Len(t)
  BY ElementsAre DEF IsList
<1>2. s = [i \in 1..Len(s) |-> s[i]] /\ t = [i \in 1..Len(s) |-> t[i]]
  BY <1>1
<1> QED
  BY <1>2

\* The exchange at its end.
LEMMA HeapExchange ==
  ASSUME HInv, Succeed, ~Ready, SInv',
         NEW c \in Contexts, by = c, NEW s, s = Tail(todo), NEW n \in Nat,
         NEW rest, NEW F, Under(c, todo, n, 9, rest, F)
  PROVE  HInv'
<1> DEFINE item == Head(todo)
<1>1. /\ todo # <<>> /\ Done(item) /\ todo' = s
      /\ UNCHANGED <<by, model, options, stage, doing, way>>
  BY DEF Succeed
<1>2. /\ IsList(todo) /\ c \in Owners /\ stage[c] # "none" /\ held = [o \in Owners |-> held[o]]
      /\ misuse = {} /\ \A o \in Owners : stage[o] = "none" => held[o] = {}
  BY DEF HInv, SInv, Shaped, Staged, Owned, IsList
<1>3. /\ item = todo[1] /\ Range(s) \subseteq Range(todo)
      /\ Len(todo) \in Nat \ {0} /\ Len(s) = Len(todo) - 1 /\ IsList(s)
      /\ \A i \in 1..Len(todo) - 1 : s[i] = todo[i + 1]
  BY <1>1, <1>2, TailIs
<1>4. /\ Len(todo) = 1 + Len(rest) /\ todo[1] = Exchange(c, n)
      /\ \A i \in 1..Len(rest) : todo[1 + i] = rest[i]
      /\ Plan(c, rest, {}, {}, F) /\ Unused(c, F) /\ Loose = RowsTo(c, n, 9)
  <2>1. 10 - 9 = 1
    OBVIOUS
  <2> QED
    BY <2>1 DEF Under
<1>5. Len(rest) \in Nat /\ IsList(rest)
  BY <1>4, ElementsAre DEF Plan, IsList
<1>6. item.take = {} /\ item.drop = RowsHeld(c) /\ item.own = Loose
  <2>1. Range(Rows(c, n)) = RowsTo(c, n, 9)
    BY RowsRange DEF RowsTo
  <2>2. item = Exchange(c, n)
    BY <1>3, <1>4
  <2>3. /\ Exchange(c, n).take = {} /\ Exchange(c, n).drop = RowsHeld(c)
        /\ Exchange(c, n).own = Range(Rows(c, n))
    BY DEF Exchange, Item
  <2> QED
    BY <1>4, <2>1, <2>2, <2>3
<1>7. \A b \in Loose : b.name \in Range(RowNames) /\ b.owner = c /\ b.index = 0
  <2>1. Range(Rows(c, n)) = RowsTo(c, n, 9)
    BY RowsRange DEF RowsTo
  <2> QED
    BY <1>4, <2>1, RowsRange
<1>8. s = rest
  <2> DEFINE k == Len(rest)
  <2>1. \A i \in 1..k : s[i] = rest[i]
    <3>1. \A i \in 1..k : i \in 1..Len(todo) - 1 /\ i + 1 = 1 + i
      BY <1>4, <1>5
    <3> QED
      BY <1>3, <1>4, <3>1
  <2>2. Len(s) = k
    BY <1>3, <1>4, <1>5
  <2> QED
    BY <1>3, <1>5, <2>1, <2>2, ListedEqual
<1> HIDE DEF item
<1>9. RowsHeld(c) = {b \in held[c] : b.name \in Range(RowNames)}
  BY DEF RowsHeld
<1>10. Others(held[c] \ RowsHeld(c), Loose) = held[c] \ RowsHeld(c)
  BY <1>7, <1>9 DEF Others
<1>11. /\ heap' = heap \ RowsHeld(c) /\ misuse' = {}
       /\ held'[c] = (held[c] \ RowsHeld(c)) \cup Loose
       /\ \A o \in Owners : o # c => held'[o] = held[o]
  <2>1. /\ heap' = (heap \cup {}) \ RowsHeld(c)
        /\ misuse' = misuse \cup (RowsHeld(c) \ (heap \cup {}))
        /\ held' = [held EXCEPT ![c] = Others(@ \ RowsHeld(c), Loose) \cup Loose]
    BY <1>1, <1>6 DEF Done
  <2>2. RowsHeld(c) \subseteq heap
    BY <1>2, <1>9 DEF HInv, Owned
  <2> QED
    BY <1>2, <1>10, <2>1, <2>2
<1>12. /\ \A b \in Loose : b \in heap /\ b \notin held[c]
       /\ \A b \in heap : b \in Loose \/ \E o \in Owners : b \in held[o]
  BY <1>2 DEF Loose
<1>13. Loose' = {}
  <2>1. ASSUME NEW b \in heap' PROVE \E o \in Owners : b \in held'[o]
    <3>1. b \in heap /\ b \notin RowsHeld(c)
      BY <1>11
    <3>2. CASE b \in Loose
      BY <1>2, <1>11, <3>2
    <3>3. CASE b \notin Loose
      <4>1. PICK o \in Owners : b \in held[o]
        BY <1>12, <3>1, <3>3
      <4> QED
        BY <1>11, <3>1, <4>1
    <3> QED
      BY <3>2, <3>3
  <2>2. Loose' = heap' \ UNION {held'[o] : o \in Owners}
    BY DEF Loose
  <2> QED
    BY <2>1, <2>2
<1>14. NamesOf(c) = FreedNames /\ Range(RowNames) \subseteq FreedNames
  BY FreedNamesAre, SessionAssumption DEF NamesOf
<1>15. Owned'
  <2>1. ASSUME NEW o \in Owners, NEW b \in held'[o]
        PROVE  b \in heap' /\ b.owner = o /\ b.name \in NamesOf(o)
    <3>1. CASE b \in held[o]
      <4>1. b \in heap /\ b.owner = o /\ b.name \in NamesOf(o)
        BY <3>1 DEF HInv, Owned
      <4>2. b \notin RowsHeld(c)
        <5>1. CASE o = c
          BY <1>11, <1>12, <2>1, <3>1, <5>1
        <5>2. CASE o # c
          BY <1>2, <1>9, <4>1, <5>2 DEF HInv, Owned
        <5> QED
          BY <5>1, <5>2
      <4> QED
        BY <1>11, <4>1, <4>2
    <3>2. CASE b \notin held[o]
      <4>1. o = c /\ b \in Loose
        BY <1>11, <2>1, <3>2
      <4>2. b \in heap /\ b \notin held[c]
        BY <1>12, <4>1
      <4> QED
        BY <1>7, <1>9, <1>11, <1>14, <4>1, <4>2
    <3> QED
      BY <3>1, <3>2
  <2>2. \A o \in Owners : stage'[o] = "none" => held'[o] = {}
    BY <1>1, <1>2, <1>11
  <2> QED
    BY <1>11, <1>13, <2>1, <2>2 DEF Owned
<1>16. Begun'
  <2>1. ASSUME NEW x \in Contexts, NEW b \in held'[x], b.name \in GenerationFields
        PROVE  Block(x, "generation", 0, 1) \in held'[x]
    <3>0. x \in Owners
      BY DEF Owners
    <3>1. b \in held[x]
      <4>1. b \notin Loose
        BY <1>7, <2>1, FreedNamesAre
      <4> QED
        BY <1>11, <2>1, <3>0, <4>1
    <3>2. Block(x, "generation", 0, 1) \in held[x]
      BY <2>1, <3>1 DEF HInv, Begun
    <3>3. Block(x, "generation", 0, 1) \notin RowsHeld(c)
      <4>1. Block(x, "generation", 0, 1).name = "generation"
        BY DEF Block
      <4>2. "generation" \notin Range(RowNames)
        BY FreedNamesAre DEF GenerationFields
      <4> QED
        BY <1>9, <4>1, <4>2
    <3> QED
      BY <1>11, <3>0, <3>2, <3>3
  <2> QED
    BY <2>1 DEF Begun
<1>17. Apt'
  <2>1. \A x \in Range(s) : Entire(c, x)
    BY <1>3 DEF HInv, Apt
  <2> QED
    BY <1>1, <2>1 DEF Apt, Entire
<1>18. Straight(c, s)'
  <2>1. ASSUME NEW b \in held'[c] PROVE Key(b) \notin F
    <3>1. CASE b \in held[c]
      BY <1>4, <3>1 DEF Unused
    <3>2. CASE b \notin held[c]
      <4>1. b \in Loose
        BY <1>11, <2>1, <3>2
      <4>2. Key(b) \in Fields(Range(RowNames))
        BY <1>7, <4>1 DEF Key, Fields
      <4> QED
        BY <1>4, <4>2 DEF Unused
    <3> QED
      BY <3>1, <3>2
  <2>2. Unused(c, F)'
    BY <1>4, <2>1 DEF Unused
  <2> QED
    BY <1>4, <1>8, <1>13, <2>2 DEF Straight
<1>19. Course'
  BY <1>1, <1>18 DEF Course
<1> QED
  BY <1>15, <1>16, <1>17, <1>19 DEF HInv

\* An item succeeds.
LEMMA HeapSucceed == HInv /\ Succeed => HInv'
<1> SUFFICES ASSUME HInv, Succeed PROVE HInv'
  OBVIOUS
<1>1. SInv'
  BY RowsSucceed DEF HInv
<1>2. ~Ready
  BY DEF Succeed, HInv, SInv, Calm
<1>3. CASE Straight(by, todo)
  BY <1>1, <1>2, <1>3, HeapPlanned
<1>4. CASE Broken(by, todo)
  <2>1. PICK n, m, rest, F : n \in Nat /\ m \in 0..9 /\ Under(by, todo, n, m, rest, F)
    BY <1>4 DEF Broken
  <2>2. PICK c : c = by
    OBVIOUS
  <2>3. PICK s : s = Tail(todo)
    OBVIOUS
  <2>4. c \in Contexts /\ Under(c, todo, n, m, rest, F)
    BY <2>1, <2>2 DEF Under
  <2>5. n \in Nat /\ m \in 0..9
    BY <2>1
  <2>6. CASE m = 9
    BY <1>1, <1>2, <2>2, <2>3, <2>4, <2>5, <2>6, HeapExchange
  <2>7. CASE m \in 0..8
    BY <1>1, <1>2, <2>2, <2>3, <2>4, <2>5, <2>7, HeapLoads
  <2> QED
    BY <2>5, <2>6, <2>7
<1> QED
  BY <1>2, <1>3, <1>4 DEF HInv, Course

\* What is in fields is not loose.
LEMMA LooseApart ==
  ASSUME NEW o \in Owners PROVE Loose \cap held[o] = {}
BY DEF Loose

\* An open or a creation fails.
LEMMA HeapFailWhole == HInv /\ FailWhole => HInv'
<1> SUFFICES ASSUME HInv, FailWhole PROVE HInv'
  OBVIOUS
<1>0. SInv'
  BY RowsFailWhole DEF HInv
<1>1. ~Ready /\ by \in Owners /\ held = [o \in Owners |-> held[o]] /\ misuse = {}
  BY DEF FailWhole, HInv, SInv, Calm, Shaped, Owned
<1>2. Head(todo).undo = Loose
  BY <1>1, UndoneIsLoose DEF FailWhole
<1>3. Released = held[by]
  BY <1>1 DEF HInv, Owned, Released, ReleasedNames, NamesOf
<1>4. /\ heap' = heap \ (Loose \cup held[by])
      /\ misuse' = misuse \cup ((Loose \cup held[by]) \ heap) \cup (Loose \cap held[by])
      /\ held' = [held EXCEPT ![by] = @ \ (Loose \cup held[by])]
      /\ stage' = [stage EXCEPT ![by] = "none"] /\ todo' = <<>> /\ doing' = "nothing" /\ by' = by
  BY <1>2, <1>3 DEF FailWhole, Undone
<1>5. Loose \cap held[by] = {} /\ Loose \subseteq heap /\ held[by] \subseteq heap
  BY <1>1, LooseApart DEF HInv, Owned, Loose
<1>6. misuse' = {}
  BY <1>1, <1>4, <1>5
<1>7. held'[by] = {} /\ \A o \in Owners : o # by => held'[o] = held[o]
  BY <1>1, <1>4
<1>8. ASSUME NEW o \in Owners, NEW b \in held'[o]
      PROVE  b \in heap' /\ b.owner = o /\ b.name \in NamesOf(o)
  <2>1. o # by /\ b \in held[o]
    BY <1>7, <1>8
  <2>2. b \in heap /\ b.owner = o /\ b.name \in NamesOf(o)
    BY <2>1 DEF HInv, Owned
  <2>3. b \notin held[by]
    BY <1>1, <2>1, <2>2 DEF HInv, Owned
  <2>4. b \notin Loose
    BY <2>1, LooseApart
  <2> QED
    BY <1>4, <2>2, <2>3, <2>4
<1>9. Loose' = {}
  <2>1. ASSUME NEW b \in heap' PROVE \E o \in Owners : b \in held'[o]
    <3>1. b \in heap /\ b \notin Loose /\ b \notin held[by]
      BY <1>4
    <3>2. PICK o \in Owners : b \in held[o]
      BY <3>1 DEF Loose
    <3> QED
      BY <1>7, <3>1, <3>2
  <2> QED
    BY <2>1 DEF Loose
<1>10. \A o \in Owners : stage'[o] = "none" => held'[o] = {}
  <2>1. stage \in [Owners -> {"none", "building", "live"}]
    BY DEF HInv, SInv, Shaped
  <2> QED
    BY <1>4, <1>7, <2>1 DEF HInv, Owned
<1>11. Owned'
  BY <1>6, <1>8, <1>9, <1>10 DEF Owned
<1>12. Begun'
  <2>1. ASSUME NEW c \in Contexts, NEW b \in held'[c], b.name \in GenerationFields
        PROVE  Block(c, "generation", 0, 1) \in held'[c]
    <3>1. c \in Owners
      BY DEF Owners
    <3>2. held'[c] = held[c]
      BY <1>7, <2>1, <3>1
    <3> QED
      BY <2>1, <3>2 DEF HInv, Begun
  <2> QED
    BY <2>1 DEF Begun
<1>13. Apt' /\ Course'
  <2>1. Range(<<>>) = {}
    BY DEF Range
  <2> QED
    BY <1>4, <2>1 DEF Apt, Course, Ready
<1> QED
  BY <1>0, <1>11, <1>12, <1>13 DEF HInv

\* Any other call fails.
LEMMA HeapFailCall == HInv /\ FailCall => HInv'
<1> SUFFICES ASSUME HInv, FailCall PROVE HInv'
  OBVIOUS
<1>0. SInv'
  BY RowsFailCall DEF HInv
<1>1. ~Ready /\ by \in Owners /\ held = [o \in Owners |-> held[o]] /\ misuse = {}
  BY DEF FailCall, HInv, SInv, Calm, Shaped, Owned
<1>2. Head(todo).undo = Loose
  BY <1>1, UndoneIsLoose DEF FailCall
<1>3. /\ heap' = heap \ (Loose \cup {})
      /\ misuse' = misuse \cup ((Loose \cup {}) \ heap) \cup (Loose \cap {})
      /\ held' = [held EXCEPT ![by] = @ \ (Loose \cup {})]
      /\ stage' = stage /\ todo' = <<>> /\ doing' = "nothing" /\ by' = by
  BY <1>2 DEF FailCall, Undone
<1>4. Loose \cap held[by] = {} /\ Loose \subseteq heap
  BY <1>1, LooseApart DEF Loose
<1>5. misuse' = {} /\ heap' = heap \ Loose
  BY <1>1, <1>3, <1>4
<1>6. held' = held
  <2>1. held[by] \ (Loose \cup {}) = held[by]
    BY <1>4
  <2> QED
    BY <1>1, <1>3, <2>1
<1>7. \A o \in Owners : \A b \in held[o] : b \notin Loose
  BY LooseApart
<1>8. Loose' = {}
  BY <1>5, <1>6 DEF Loose
<1>9. Owned'
  BY <1>3, <1>5, <1>6, <1>7, <1>8 DEF HInv, Owned
<1>10. Begun'
  BY <1>6 DEF HInv, Begun
<1>11. Apt' /\ Course'
  <2>1. Range(<<>>) = {}
    BY DEF Range
  <2> QED
    BY <1>3, <2>1 DEF Apt, Course, Ready
<1> QED
  BY <1>0, <1>9, <1>10, <1>11 DEF HInv

\* A call returns.
LEMMA HeapReturn == HInv /\ Return => HInv'
<1> SUFFICES ASSUME HInv, Return PROVE HInv'
  OBVIOUS
<1>0. SInv'
  BY RowsReturn DEF HInv
<1>1. /\ ~Ready /\ todo = <<>> /\ stage' = [stage EXCEPT ![by] = "live"] /\ doing' = "nothing"
      /\ UNCHANGED <<heap, held, by, todo, misuse>>
  BY DEF Return, Ready
<1>2. Loose = {}
  <2>1. CASE Straight(by, todo)
    BY <1>1, <2>1, PlanEnd DEF Straight
  <2>2. ASSUME Broken(by, todo) PROVE FALSE
    <3>1. PICK n, m, rest, F : n \in Nat /\ m \in 0..9 /\ Under(by, todo, n, m, rest, F)
      BY <2>2 DEF Broken
    <3>2. m \in 0..9 /\ Len(todo) = 10 - m + Len(rest) /\ Len(rest) \in Nat
      BY <3>1, ElementsAre DEF Under, Plan
    <3>3. Len(todo) = 0
      BY <1>1, EmptySeq
    <3> QED
      BY <3>2, <3>3
  <2> QED
    BY <1>1, <2>1, <2>2 DEF HInv, Course
<1>3. Loose' = {}
  BY <1>1, <1>2 DEF Loose
<1>4. \A o \in Owners : stage'[o] = "none" => stage[o] = "none"
  BY <1>1 DEF HInv, SInv, Shaped
<1>5. Owned'
  BY <1>1, <1>3, <1>4 DEF HInv, Owned
<1>6. Begun' /\ Apt' /\ Course'
  BY <1>1 DEF HInv, Begun, Apt, Entire, Course, Ready
<1> QED
  BY <1>0, <1>5, <1>6 DEF HInv

\* A model or a context is freed.
LEMMA HeapRelease ==
  ASSUME HInv, Ready, NEW o \in Owners, Release(o, NamesOf(o)), SInv'
  PROVE  HInv'
<1>1. /\ heap' = heap \ {b \in held[o] : b.name \in NamesOf(o)}
      /\ misuse' = misuse \cup ({b \in held[o] : b.name \in NamesOf(o)} \ heap)
      /\ held' = [held EXCEPT ![o] = {}] /\ stage' = [stage EXCEPT ![o] = "none"]
      /\ UNCHANGED <<by, todo, doing>>
  BY DEF Release
<1>2. {b \in held[o] : b.name \in NamesOf(o)} = held[o] /\ held[o] \subseteq heap /\ misuse = {}
  BY DEF HInv, Owned
<1>3. heap' = heap \ held[o] /\ misuse' = {}
  BY <1>1, <1>2
<1>4. held'[o] = {} /\ \A p \in Owners : p # o => held'[p] = held[p]
  BY <1>1 DEF HInv, SInv, Shaped
<1>5. ASSUME NEW p \in Owners, NEW b \in held'[p]
      PROVE  b \in heap' /\ b.owner = p /\ b.name \in NamesOf(p)
  <2>1. p # o /\ b \in held[p]
    BY <1>4, <1>5
  <2>2. b \in heap /\ b.owner = p /\ b.name \in NamesOf(p)
    BY <2>1 DEF HInv, Owned
  <2>3. b \notin held[o]
    BY <2>1, <2>2 DEF HInv, Owned
  <2> QED
    BY <1>3, <2>2, <2>3
<1>6. Loose' = {}
  <2>1. ASSUME NEW b \in heap' PROVE \E p \in Owners : b \in held'[p]
    <3>1. b \in heap /\ b \notin held[o] /\ b \notin Loose
      BY <1>3 DEF HInv, Owned
    <3>2. PICK p \in Owners : b \in held[p]
      BY <3>1 DEF Loose
    <3> QED
      BY <1>4, <3>1, <3>2
  <2> QED
    BY <2>1 DEF Loose
<1>7. \A p \in Owners : stage'[p] = "none" => held'[p] = {}
  <2>1. stage \in [Owners -> {"none", "building", "live"}]
    BY DEF HInv, SInv, Shaped
  <2> QED
    BY <1>1, <1>4, <2>1 DEF HInv, Owned
<1>8. Owned'
  BY <1>3, <1>5, <1>6, <1>7 DEF Owned
<1>9. Begun'
  <2>1. ASSUME NEW c \in Contexts, NEW b \in held'[c], b.name \in GenerationFields
        PROVE  Block(c, "generation", 0, 1) \in held'[c]
    <3>1. c \in Owners
      BY DEF Owners
    <3>2. held'[c] = held[c]
      BY <1>4, <2>1, <3>1
    <3> QED
      BY <2>1, <3>2 DEF HInv, Begun
  <2> QED
    BY <2>1 DEF Begun
<1>10. Apt' /\ Course'
  BY <1>1 DEF HInv, Apt, Entire, Course, Ready
<1> QED
  BY <1>8, <1>9, <1>10 DEF HInv

\* These are the names that close and free know.
LEMMA HeapFreed ==
  /\ HInv /\ CloseModel => HInv'
  /\ \A c \in Contexts : HInv /\ FreeContext(c) => HInv'
<1>1. ASSUME HInv, CloseModel PROVE HInv'
  <2>1. SInv' /\ Ready /\ Release("model", ClosedNames)
    BY <1>1, RowsClose DEF HInv, CloseModel
  <2>2. "model" \in Owners /\ NamesOf("model") = ClosedNames
    BY DEF Owners, NamesOf
  <2> QED
    BY <1>1, <2>1, <2>2, HeapRelease
<1>2. ASSUME NEW c \in Contexts, HInv, FreeContext(c) PROVE HInv'
  <2>1. SInv' /\ Ready /\ Release(c, FreedNames)
    BY <1>2, RowsFree DEF HInv, FreeContext
  <2>2. c \in Owners /\ NamesOf(c) = FreedNames
    BY SessionAssumption DEF Owners, NamesOf
  <2> QED
    BY <1>2, <2>1, <2>2, HeapRelease
<1> QED
  BY <1>1, <1>2

\* A step of nothing.
LEMMA HeapStutter == HInv /\ UNCHANGED session => HInv'
<1> SUFFICES ASSUME HInv, UNCHANGED session PROVE HInv'
  OBVIOUS
<1>1. UNCHANGED <<heap, held, by, todo, pins, misuse, model, options, scratch, position, stage, doing, way>>
  BY DEF session, allocations, contextData
<1>2. SInv' /\ Loose' = Loose
  BY <1>1, RowsStutter DEF HInv, Loose
<1>3. Owned' /\ Begun' /\ Apt'
  BY <1>1, <1>2 DEF HInv, Owned, Begun, Apt, Entire, Ready
<1>4. Course'
  <2>1. PICK s : s = todo
    OBVIOUS
  <2>2. PICK c : c = by
    OBVIOUS
  <2>3. Broken(c, s) => Broken(c, s)'
    BY <1>1, BrokenKept
  <2>4. Straight(c, s) => Straight(c, s)'
    BY <1>1, <1>2 DEF Straight, Unused
  <2> QED
    BY <1>1, <2>1, <2>2, <2>3, <2>4 DEF HInv, Course, Ready
<1> QED
  BY <1>2, <1>3, <1>4 DEF HInv

\* Whatever fails, nothing leaks, nothing is freed twice and no field points to
\* what was freed: the cleanups of open, creation, reservation and close, for
\* every model, every options and every sequence of calls.
THEOREM HeapIsAccounted == SessionSpec => []HeapAccounted
<1>1. HInv /\ [SessionNext]_session => HInv'
  <2> SUFFICES ASSUME HInv, [SessionNext]_session PROVE HInv'
    OBVIOUS
  <2>1. CASE OpenModel
    BY <2>1, HeapOpen
  <2>2. CASE CloseModel
    BY <2>2, HeapFreed
  <2>3. ASSUME NEW c \in Contexts, CreateContext(c) PROVE HInv'
    BY <2>3, HeapCreate
  <2>4. ASSUME NEW c \in Contexts, FreeContext(c) PROVE HInv'
    BY <2>4, HeapFreed
  <2>5. ASSUME NEW c \in Contexts,
               Blocks(c) \/ Forward(c) \/ Prefill(c) \/ Decode(c) \/ Prepare(c) PROVE HInv'
    BY <2>5, HeapCalls
  <2>6. ASSUME NEW c \in Contexts, DecodeRefused(c) PROVE HInv'
    BY <2>6, HeapRefused
  <2>7. CASE ReserveRows
    BY <2>7, HeapReserve
  <2>8. CASE Succeed
    BY <2>8, HeapSucceed
  <2>9. CASE FailWhole
    BY <2>9, HeapFailWhole
  <2>10. CASE FailCall
    BY <2>10, HeapFailCall
  <2>11. CASE Return
    BY <2>11, HeapReturn
  <2>12. CASE UNCHANGED session
    BY <2>12, HeapStutter
  <2> QED
    BY <2>1, <2>2, <2>3, <2>4, <2>5, <2>6, <2>7, <2>8, <2>9, <2>10, <2>11, <2>12 DEF SessionNext
<1>2. HInv => HeapAccounted
  <2> SUFFICES ASSUME HInv PROVE HeapAccounted
    OBVIOUS
  <2>1. misuse = {} /\ \A o \in Owners : held[o] \subseteq heap
    BY DEF HInv, Owned
  <2>2. ASSUME Ready PROVE heap = UNION {held[o] : o \in Live}
    <3>1. \A o \in Owners : stage[o] \in {"none", "live"} /\ (stage[o] = "none" => held[o] = {})
      BY <2>2, ReadyIs DEF HInv, SInv, Owned
    <3>2. Loose = {}
      BY <2>2 DEF HInv, Owned
    <3>3. ASSUME NEW b \in heap PROVE \E o \in Live : b \in held[o]
      <4>1. PICK o \in Owners : b \in held[o]
        BY <3>2 DEF Loose
      <4> QED
        BY <3>1, <4>1 DEF Live
    <3>4. \A o \in Live : held[o] \subseteq heap
      BY <2>1 DEF Live
    <3> QED
      BY <3>3, <3>4
  <2> QED
    BY <2>1, <2>2 DEF HeapAccounted
<1> QED
  BY <1>1, <1>2, HeapInitial, PTL DEF SessionSpec
===============================================================================
