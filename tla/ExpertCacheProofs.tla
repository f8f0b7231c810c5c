--------------------------- MODULE ExpertCacheProofs ---------------------------
(***************************************************************************)
(* The safety of the expert cache for every set of projections, every      *)
(* charge and every limit.                                                 *)
(*                                                                         *)
(* The invariants of ExpertCache are proved as one inductive invariant     *)
(* with Progress, which says what the call in progress has already         *)
(* established about the projection it works on.  Remembered says what     *)
(* evictions have done since the call missed, from which the cache is seen *)
(* to implement LruCache.                                                  *)
(***************************************************************************)
EXTENDS ExpertCacheLru, DataLemmas, SequenceTheorems

-------------------------------------------------------------------------------
\* The three changes of the list, entry by entry.

\* Linking in at the head shifts every other entry by one.
LEMMA PushShape ==
  ASSUME NEW S, NEW s \in Seq(S), NEW e \in S
  PROVE  /\ <<e>> \o s \in Seq(S)
         /\ Len(<<e>> \o s) = Len(s) + 1
         /\ (<<e>> \o s)[1] = e
         /\ \A i \in 2..(Len(s) + 1) : (<<e>> \o s)[i] = s[i - 1]
<1>1. <<e>> \in Seq(S) /\ Len(<<e>>) = 1 /\ <<e>>[1] = e
  OBVIOUS
<1>2. QED
  BY <1>1, ConcatProperties, LenProperties

\* Unlinking the tail leaves the entries before it where they were.
LEMMA FrontShape ==
  ASSUME NEW S, NEW s \in Seq(S), s # <<>>
  PROVE  /\ Len(s) \in Nat \ {0}
         /\ SubSeq(s, 1, Len(s) - 1) \in Seq(S)
         /\ Len(SubSeq(s, 1, Len(s) - 1)) = Len(s) - 1
         /\ \A i \in 1..(Len(s) - 1) : SubSeq(s, 1, Len(s) - 1)[i] = s[i]
<1>1. Len(s) \in Nat \ {0}
  BY EmptySeq
<1>2. 1 \in Int /\ Len(s) - 1 \in Int /\ \A i \in 1..(Len(s) - 1) : s[i] \in S
  BY <1>1, ElementOfSeq
<1> DEFINE n == Len(s) - 1
           f == SubSeq(s, 1, n)
<1>3. /\ f \in Seq(S)
      /\ Len(f) = IF 1 <= n THEN n - 1 + 1 ELSE 0
      /\ \A i \in 1..(n - 1 + 1) : f[i] = s[1 + i - 1]
  <2> HIDE DEF n
  <2>1. n \in Int /\ \A i \in 1..n : s[i] \in S
    BY <1>2 DEF n
  <2>2. QED
    BY <2>1, SubSeqProperties
<1> HIDE DEF f
<1>4. f \in Seq(S) /\ Len(f) = Len(s) - 1 /\ \A i \in 1..(Len(s) - 1) : f[i] = s[i]
  <2>1. n \in Nat /\ n - 1 + 1 = n
    BY <1>1
  <2>2. Len(f) = n
    <3> HIDE DEF n
    <3>1. QED
      BY <2>1, <1>3
  <2>3. ASSUME NEW i \in 1..n PROVE f[i] = s[i]
    <3>1. i \in 1..(n - 1 + 1) /\ 1 + i - 1 = i
      BY <2>1
    <3> HIDE DEF n
    <3>2. QED
      BY <3>1, <1>3
  <2>4. QED
    BY <1>3, <2>2, <2>3
<1>5. QED
  BY <1>1, <1>4 DEF f

\* promote() permutes the list: each new position holds one old entry.
LEMMA PromoteShape ==
  ASSUME NEW S, NEW s \in Seq(S), NEW i \in 1..Len(s)
  PROVE  /\ Promote(s, i) \in Seq(S)
         /\ Len(Promote(s, i)) = Len(s)
         /\ \A j \in 1..Len(s) :
              Promote(s, i)[j] = IF j = 1 THEN s[i] ELSE IF j <= i THEN s[j - 1] ELSE s[j]
<1> DEFINE a == SubSeq(s, 1, i - 1)
           b == SubSeq(s, i + 1, Len(s))
<1>1. Len(s) \in Nat /\ \A j \in 1..Len(s) : s[j] \in S
  BY LenProperties, ElementOfSeq
<1>2. /\ a \in Seq(S) /\ Len(a) = i - 1
      /\ \A j \in 1..(i - 1) : a[j] = s[j]
  BY <1>1, SubSeqProperties
<1>3. /\ b \in Seq(S) /\ Len(b) = Len(s) - i
      /\ \A j \in 1..(Len(s) - i) : b[j] = s[i + j]
  <2> DEFINE m == i + 1
             n == Len(s)
  <2>1. m \in Int /\ n \in Int /\ \A j \in m..n : s[j] \in S
    BY <1>1
  <2> HIDE DEF m, n
  <2>2. /\ SubSeq(s, m, n) \in Seq(S)
        /\ Len(SubSeq(s, m, n)) = IF m <= n THEN n - m + 1 ELSE 0
        /\ \A j \in 1..(n - m + 1) : SubSeq(s, m, n)[j] = s[m + j - 1]
    BY <2>1, SubSeqProperties
  <2>3. b = SubSeq(s, m, n)
    BY DEF m, n
  <2> HIDE DEF b
  <2>4. QED
    BY <2>2, <2>3, <1>1 DEF m, n
<1>4. /\ <<s[i]>> \o a \in Seq(S) /\ Len(<<s[i]>> \o a) = i
      /\ (<<s[i]>> \o a)[1] = s[i]
      /\ \A j \in 2..i : (<<s[i]>> \o a)[j] = s[j - 1]
  <2>1. s[i] \in S
    BY <1>1
  <2>2. QED
    BY <1>1, <1>2, <2>1, PushShape
<1> DEFINE c == <<s[i]>> \o a
<1>5. /\ c \o b \in Seq(S) /\ Len(c \o b) = Len(s)
      /\ \A j \in 1..Len(s) : (c \o b)[j] = IF j <= i THEN c[j] ELSE b[j - i]
  <2> HIDE DEF a, b, c
  <2>1. c \in Seq(S) /\ Len(c) = i /\ b \in Seq(S) /\ Len(b) = Len(s) - i
    BY <1>3, <1>4 DEF c
  <2>2. /\ c \o b \in Seq(S) /\ Len(c \o b) = Len(c) + Len(b)
        /\ \A j \in 1..(Len(c) + Len(b)) :
             (c \o b)[j] = IF j <= Len(c) THEN c[j] ELSE b[j - Len(c)]
    BY <2>1, ConcatProperties
  <2>3. Len(c) + Len(b) = Len(s)
    BY <2>1, <1>1
  <2>4. QED
    BY <2>1, <2>2, <2>3
<1>6. Promote(s, i) = c \o b
  BY DEF Promote
<1>7. /\ c[1] = s[i]
      /\ \A j \in 2..i : c[j] = s[j - 1]
  BY <1>4
<1> HIDE DEF b, c
<1>8. ASSUME NEW j \in 1..Len(s)
      PROVE  Promote(s, i)[j] = IF j = 1 THEN s[i] ELSE IF j <= i THEN s[j - 1] ELSE s[j]
  <2>1. CASE j <= i
    <3>1. j = 1 \/ j \in 2..i
      BY <2>1
    <3>2. Promote(s, i)[j] = c[j]
      BY <2>1, <1>5, <1>6
    <3>3. QED
      BY <2>1, <3>1, <3>2, <1>7
  <2>2. CASE i < j
    <3>1. j - i \in 1..(Len(s) - i) /\ i + (j - i) = j
      BY <2>2, <1>1
    <3>2. QED
      BY <3>1, <2>2, <1>1, <1>3, <1>5, <1>6
  <2>3. QED
    BY <2>1, <2>2, <1>1
<1>9. QED
  BY <1>5, <1>6, <1>8

-------------------------------------------------------------------------------
\* The same three changes, by weight.

\* The empty cache weighs nothing.
LEMMA WeighsEmpty == Weighs(<<>>, 0)
<1> DEFINE t == [i \in 0..0 |-> 0]
<1>1. Len(<<>>) = 0 /\ Capacity \in Nat
  BY EmptySeq, ConstantsOK
<1>2. t \in [0..Len(<<>>) -> 0..Capacity] /\ t[0] = 0
  BY <1>1
<1> HIDE DEF t
<1>3. \A i, j \in 0..Len(<<>>) : i <= j => t[i] <= t[j]
  BY <1>1, <1>2
<1>4. QED
  BY <1>1, <1>2, <1>3 DEF Weighs

\* What a list weighs is within the limit, and an empty list weighs nothing.
LEMMA WeighsBound ==
  ASSUME NEW s \in Seq(Entries), NEW n, Weighs(s, n)
  PROVE  n \in 0..Capacity /\ (s = <<>> => n = 0)
  BY LenProperties, EmptySeq DEF Weighs

\* A new head adds its charge, if there is room for it.
LEMMA WeighsPush ==
  ASSUME NEW s \in Seq(Entries), NEW n, Weighs(s, n),
         NEW e \in Entries, n + Charge[e.key] <= Capacity
  PROVE  Weighs(<<e>> \o s, n + Charge[e.key])
<1> DEFINE c == Charge[e.key]
           u == <<e>> \o s
<1>1. c \in Nat \ {0} /\ Capacity \in Nat /\ Len(s) \in Nat
  BY ConstantsOK, LenProperties DEF Entries
<1>2. ASSUME NEW i \in 1..Len(s) PROVE Charge[s[i].key] \in Nat
  <2>1. s[i] \in Entries
    BY ElementOfSeq
  <2>2. QED
    BY <2>1, ConstantsOK DEF Entries
<1>3. PICK t \in [0..Len(s) -> 0..Capacity] :
        /\ t[0] = 0 /\ t[Len(s)] = n
        /\ \A i \in 1..Len(s) : t[i] = t[i - 1] + Charge[s[i].key]
        /\ \A i, j \in 0..Len(s) : i <= j => t[i] <= t[j]
  BY DEF Weighs
<1>t. \A i \in 0..Len(s) : t[i] \in 0..Capacity /\ t[i] \in Nat
  BY <1>1, <1>3
<1>4. /\ Len(u) = Len(s) + 1 /\ u[1] = e
      /\ \A i \in 2..(Len(s) + 1) : u[i] = s[i - 1]
  BY PushShape
<1> HIDE DEF u, c
<1> DEFINE v == [i \in 0..(Len(s) + 1) |-> IF i = 0 THEN 0 ELSE c + t[i - 1]]
<1>5. v \in [0..(Len(s) + 1) -> 0..Capacity]
  <2>1. \A i \in 0..Len(s) : t[i] <= n
    BY <1>1, <1>3
  <2>2. ASSUME NEW i \in 0..(Len(s) + 1) PROVE (IF i = 0 THEN 0 ELSE c + t[i - 1]) \in 0..Capacity
    <3>1. CASE i = 0
      BY <3>1, <1>1
    <3>2. CASE i # 0
      <4>1. i - 1 \in 0..Len(s)
        BY <3>2, <1>1
      <4>2. t[i - 1] <= n /\ t[i - 1] \in Nat /\ n \in Nat
        BY <4>1, <2>1, <1>3, <1>1
      <4>3. QED
        BY <4>2, <3>2, <1>1 DEF c
    <3>3. QED
      BY <3>1, <3>2
  <2>3. QED
    BY <2>2
<1>6. v[0] = 0 /\ v[Len(s) + 1] = n + c
  BY <1>1, <1>3
<1>7. \A i \in 1..(Len(s) + 1) : v[i] = v[i - 1] + Charge[u[i].key]
  <2>1. v[1] = v[0] + Charge[u[1].key]
    BY <1>1, <1>3, <1>4 DEF c
  <2>2. ASSUME NEW i \in 2..(Len(s) + 1) PROVE v[i] = v[i - 1] + Charge[u[i].key]
    <3>1. i - 1 \in 1..Len(s) /\ i \in 0..(Len(s) + 1) /\ i - 1 \in 0..(Len(s) + 1) /\ i # 0 /\ i - 1 # 0
      BY <1>1
    <3>2. t[i - 1] = t[(i - 1) - 1] + Charge[s[i - 1].key]
      BY <3>1, <1>3
    <3>3. v[i] = c + t[i - 1] /\ v[i - 1] = c + t[(i - 1) - 1]
      BY <3>1
    <3>4. t[i - 1] \in Nat /\ t[(i - 1) - 1] \in Nat /\ Charge[s[i - 1].key] \in Nat
      <4>1. i - 1 \in 0..Len(s) /\ (i - 1) - 1 \in 0..Len(s)
        BY <1>1
      <4>2. QED
        BY <3>1, <4>1, <1>2, <1>t
    <3>5. u[i] = s[i - 1]
      BY <1>4
    <3> DEFINE a == t[i - 1]
               b == t[(i - 1) - 1]
               d == Charge[s[i - 1].key]
    <3>6. /\ a = b + d /\ v[i] = c + a /\ v[i - 1] = c + b
          /\ a \in Nat /\ b \in Nat /\ d \in Nat /\ c \in Nat
      BY <3>2, <3>3, <3>4, <1>1
    <3>7. Charge[u[i].key] = d
      BY <3>5
    <3> HIDE DEF a, b, d, v
    <3>8. QED
      BY <3>6, <3>7
  <2>3. ASSUME NEW i \in 1..(Len(s) + 1) PROVE i = 1 \/ i \in 2..(Len(s) + 1)
    BY <1>1
  <2> HIDE DEF v
  <2>4. QED
    <3>1. 1 - 1 = 0
      OBVIOUS
    <3>2. QED
      BY <2>1, <2>2, <2>3, <3>1
<1>8. \A i, j \in 0..(Len(s) + 1) : i <= j => v[i] <= v[j]
  <2> SUFFICES ASSUME NEW i \in 0..(Len(s) + 1), NEW j \in 0..(Len(s) + 1), i <= j
               PROVE  v[i] <= v[j]
    OBVIOUS
  <2>1. CASE i = 0
    BY <2>1, <1>5, <1>6
  <2>2. CASE i # 0
    <3>1. i - 1 \in 0..Len(s) /\ j - 1 \in 0..Len(s) /\ i - 1 <= j - 1 /\ j # 0
      BY <2>2, <1>1
    <3>2. t[i - 1] <= t[j - 1] /\ t[i - 1] \in Nat /\ t[j - 1] \in Nat
      BY <3>1, <1>3, <1>t
    <3>3. QED
      BY <3>1, <3>2, <2>2, <1>1
  <2>3. QED
    BY <2>1, <2>2
<1>9. n + c = n + Charge[e.key] /\ u = <<e>> \o s
  BY DEF u, c
<1> HIDE DEF v
<1>10. Weighs(u, n + c)
  BY <1>4, <1>5, <1>6, <1>7, <1>8 DEF Weighs
<1>11. QED
  BY <1>9, <1>10

\* Without its tail a list weighs as much less as the tail was charged.
LEMMA WeighsFront ==
  ASSUME NEW s \in Seq(Entries), NEW n, Weighs(s, n), s # <<>>
  PROVE  /\ Charge[s[Len(s)].key] <= n
         /\ Weighs(SubSeq(s, 1, Len(s) - 1), n - Charge[s[Len(s)].key])
<1> DEFINE u == SubSeq(s, 1, Len(s) - 1)
           c == Charge[s[Len(s)].key]
           m == Len(s) - 1
<1>1. /\ Len(s) \in Nat \ {0} /\ m \in Nat /\ Len(u) = m
      /\ \A i \in 1..m : u[i] = s[i]
  BY FrontShape
<1>2. s[Len(s)] \in Entries
  BY <1>1, ElementOfSeq
<1>3. c \in Nat \ {0}
  BY <1>2, ConstantsOK DEF Entries
<1>4. PICK t \in [0..Len(s) -> 0..Capacity] :
        /\ t[0] = 0 /\ t[Len(s)] = n
        /\ \A i \in 1..Len(s) : t[i] = t[i - 1] + Charge[s[i].key]
        /\ \A i, j \in 0..Len(s) : i <= j => t[i] <= t[j]
  BY DEF Weighs
<1>5. n = t[m] + c /\ t[m] \in Nat
  <2>1. m \in 0..Len(s) /\ Len(s) \in 1..Len(s) /\ Len(s) - 1 = m
    BY <1>1
  <2>2. Capacity \in Nat
    BY ConstantsOK
  <2> HIDE DEF m
  <2>3. t[m] \in 0..Capacity
    BY <2>1, <1>4
  <2>4. QED
    BY <2>1, <2>2, <2>3, <1>4
<1> DEFINE v == [i \in 0..m |-> t[i]]
<1>6. /\ v \in [0..m -> 0..Capacity] /\ v[0] = 0 /\ v[m] = n - c
  <2>1. \A i \in 0..m : i \in 0..Len(s)
    BY <1>1
  <2>2. n - c = t[m]
    BY <1>3, <1>5
  <2>3. QED
    BY <1>1, <1>4, <2>1, <2>2
<1>7. ASSUME NEW i \in 1..m PROVE v[i] = v[i - 1] + Charge[u[i].key]
  <2>1. i \in 1..Len(s) /\ i \in 0..m /\ i - 1 \in 0..m /\ u[i] = s[i]
    BY <1>1
  <2> HIDE DEF u
  <2>2. QED
    BY <1>4, <2>1
<1>8. ASSUME NEW i \in 0..m, NEW j \in 0..m, i <= j PROVE v[i] <= v[j]
  <2>1. i \in 0..Len(s) /\ j \in 0..Len(s)
    BY <1>1
  <2>2. QED
    BY <1>4, <1>8, <2>1
<1> HIDE DEF v, u, m
<1>9. Weighs(u, n - c)
  BY <1>1, <1>6, <1>7, <1>8 DEF Weighs
<1>10. QED
  BY <1>3, <1>5, <1>9 DEF u

\* A promotion does not change what the list weighs.
LEMMA WeighsPromote ==
  ASSUME NEW s \in Seq(Entries), NEW n, Weighs(s, n), NEW k \in 1..Len(s)
  PROVE  Weighs(Promote(s, k), n)
<1> DEFINE u == Promote(s, k)
           c == Charge[s[k].key]
<1>1. /\ Len(s) \in Nat /\ Len(u) = Len(s)
      /\ \A j \in 1..Len(s) : u[j] = IF j = 1 THEN s[k] ELSE IF j <= k THEN s[j - 1] ELSE s[j]
  BY PromoteShape, LenProperties
<1> HIDE DEF u
<1>2. s[k] \in Entries
  BY <1>1, ElementOfSeq
<1>3. c \in Nat \ {0}
  BY <1>2, ConstantsOK DEF Entries
<1>4. PICK t \in [0..Len(s) -> 0..Capacity] :
        /\ t[0] = 0 /\ t[Len(s)] = n
        /\ \A i \in 1..Len(s) : t[i] = t[i - 1] + Charge[s[i].key]
        /\ \A i, j \in 0..Len(s) : i <= j => t[i] <= t[j]
  BY DEF Weighs
<1>5. \A i \in 0..Len(s) : t[i] \in 0..Capacity /\ t[i] \in Nat
  <2>1. Capacity \in Nat
    BY ConstantsOK
  <2>2. ASSUME NEW i \in 0..Len(s) PROVE t[i] \in 0..Capacity
    BY <1>4
  <2>3. QED
    BY <2>1, <2>2
<1>6. k - 1 \in 0..Len(s) /\ k \in 0..Len(s) /\ t[k] = t[k - 1] + c
  BY <1>1, <1>4
<1> HIDE DEF c
<1>7. Capacity \in Nat
  BY ConstantsOK
<1> DEFINE v == [i \in 0..Len(s) |->
                   IF i = 0 THEN 0 ELSE IF i <= k THEN c + t[i - 1] ELSE t[i]]
<1>8. ASSUME NEW i \in 1..Len(s), i <= k
      PROVE  i - 1 \in 0..Len(s) /\ c + t[i - 1] <= t[k] /\ v[i] = c + t[i - 1]
  <2>1. i - 1 \in 0..Len(s) /\ i \in 0..Len(s) /\ i # 0 /\ i - 1 <= k - 1
    BY <1>1, <1>8
  <2>2. t[i - 1] <= t[k - 1]
    BY <2>1, <1>4, <1>6
  <2>3. t[i - 1] \in Nat /\ t[k - 1] \in Nat
    BY <2>1, <1>5, <1>6
  <2>4. QED
    BY <2>1, <2>2, <2>3, <1>3, <1>6, <1>8
<1>9. ASSUME NEW i \in 1..Len(s), k < i
      PROVE  v[i] = t[i] /\ t[k] <= t[i]
  BY <1>1, <1>4, <1>6, <1>9
<1>10. v[0] = 0
  BY <1>1
<1>11. ASSUME NEW i \in 0..Len(s) PROVE v[i] \in 0..Capacity
  <2>1. CASE i = 0
    BY <2>1, <1>10, <1>7
  <2>2. CASE i # 0 /\ i <= k
    <3>1. i \in 1..Len(s)
      BY <2>2, <1>1
    <3>2. i - 1 \in 0..Len(s) /\ c + t[i - 1] <= t[k] /\ v[i] = c + t[i - 1]
      BY <3>1, <2>2, <1>8
    <3> HIDE DEF v
    <3>3. t[i - 1] \in Nat /\ t[k] \in 0..Capacity /\ c \in Nat
      BY <3>2, <1>3, <1>5, <1>6
    <3>4. v[i] \in Nat /\ v[i] <= t[k]
      BY <3>2, <3>3
    <3>5. QED
      BY <3>3, <3>4, <1>7
  <2>3. CASE k < i
    BY <2>3, <1>5
  <2>4. QED
    BY <2>1, <2>2, <2>3, <1>1
<1>12. v \in [0..Len(s) -> 0..Capacity]
  <2>1. v = [i \in 0..Len(s) |-> v[i]]
    OBVIOUS
  <2> HIDE DEF v
  <2>2. QED
    BY <2>1, <1>11
<1>13. v[Len(s)] = n
  <2>1. Len(s) \in 1..Len(s) /\ k <= Len(s)
    BY <1>1
  <2>2. CASE Len(s) = k
    <3>1. v[k] = c + t[k - 1]
      BY <1>8
    <3> HIDE DEF v
    <3>2. QED
      BY <3>1, <2>2, <1>3, <1>4, <1>5, <1>6
  <2>3. CASE k < Len(s)
    <3>1. v[Len(s)] = t[Len(s)]
      BY <2>1, <2>3, <1>9
    <3>2. QED
      BY <3>1, <1>4
  <2>4. QED
    BY <2>1, <2>2, <2>3, <1>1
<1> HIDE DEF v
<1>14. ASSUME NEW i \in 1..Len(s) PROVE v[i] = v[i - 1] + Charge[u[i].key]
  <2>1. i - 1 \in 0..Len(s)
    BY <1>1
  <2>2. CASE i = 1
    <3>1. v[1] = c + t[0] /\ 1 - 1 = 0 /\ u[1] = s[k]
      BY <2>2, <1>1, <1>8
    <3>2. QED
      BY <3>1, <2>2, <1>3, <1>4, <1>10 DEF c
  <2>3. CASE i # 1 /\ i <= k
    <3>1. i - 1 \in 1..Len(s) /\ i - 1 <= k /\ u[i] = s[i - 1]
      BY <2>3, <1>1
    <3>2. v[i] = c + t[i - 1] /\ v[i - 1] = c + t[(i - 1) - 1] /\ (i - 1) - 1 \in 0..Len(s)
      BY <3>1, <2>3, <1>8
    <3>3. t[i - 1] = t[(i - 1) - 1] + Charge[s[i - 1].key]
      BY <3>1, <1>4
    <3>4. s[i - 1] \in Entries
      BY <3>1, ElementOfSeq
    <3>5. Charge[s[i - 1].key] \in Nat
      BY <3>4, ConstantsOK DEF Entries
    <3>6. t[(i - 1) - 1] \in Nat
      BY <3>2, <1>5
    <3>7. QED
      BY <3>1, <3>2, <3>3, <3>5, <3>6, <1>3
  <2>4. CASE k < i
    <3>1. t[i] = t[i - 1] + Charge[u[i].key] /\ v[i] = t[i]
      BY <2>4, <1>1, <1>4, <1>9
    <3>2. v[i - 1] = t[i - 1]
      <4>1. CASE i - 1 = k
        <5>1. v[k] = c + t[k - 1]
          BY <1>8
        <5>2. QED
          BY <4>1, <5>1, <1>3, <1>5, <1>6
      <4>2. CASE k < i - 1
        <5>1. i - 1 \in 1..Len(s)
          BY <4>2, <1>1
        <5>2. QED
          BY <4>2, <5>1, <1>9
      <4>3. QED
        BY <4>1, <4>2, <2>4
    <3>3. QED
      BY <3>1, <3>2
  <2>5. QED
    BY <2>2, <2>3, <2>4
<1>15. ASSUME NEW i \in 0..Len(s), NEW j \in 0..Len(s), i <= j PROVE v[i] <= v[j]
  <2>1. CASE i = 0
    BY <2>1, <1>10, <1>11, <1>7
  <2>2. CASE i # 0 /\ j <= k
    <3>1. i \in 1..Len(s) /\ j \in 1..Len(s) /\ i <= k /\ i - 1 <= j - 1
      BY <2>2, <1>1, <1>15
    <3>2. /\ i - 1 \in 0..Len(s) /\ v[i] = c + t[i - 1]
          /\ j - 1 \in 0..Len(s) /\ v[j] = c + t[j - 1]
      BY <3>1, <2>2, <1>8
    <3>3. t[i - 1] <= t[j - 1] /\ t[i - 1] \in Nat /\ t[j - 1] \in Nat
      BY <3>1, <3>2, <1>4, <1>5
    <3>4. QED
      BY <3>2, <3>3, <1>3
  <2>3. CASE i # 0 /\ i <= k /\ k < j
    <3>1. i \in 1..Len(s) /\ j \in 1..Len(s)
      BY <2>3, <1>1
    <3>2. v[i] <= t[k] /\ v[j] = t[j] /\ t[k] <= t[j]
      BY <3>1, <2>3, <1>8, <1>9
    <3>3. v[i] \in Nat /\ t[k] \in Nat /\ t[j] \in Nat
      BY <1>5, <1>6, <1>7, <1>11
    <3>4. QED
      BY <3>2, <3>3
  <2>4. CASE k < i
    <3>1. i \in 1..Len(s) /\ j \in 1..Len(s) /\ k < j
      BY <2>4, <1>1, <1>15
    <3>2. QED
      BY <3>1, <2>4, <1>4, <1>9, <1>15
  <2>5. QED
    BY <2>1, <2>2, <2>3, <2>4, <1>1
<1>16. Weighs(u, n)
  BY <1>1, <1>10, <1>12, <1>13, <1>14, <1>15 DEF Weighs
<1>17. QED
  BY <1>16 DEF u

-------------------------------------------------------------------------------
\* The same three changes, by content.

Intact(s) ==
  /\ \A i, j \in 1..Len(s) : s[i].key = s[j].key => i = j
  /\ \A i \in 1..Len(s) : s[i].data = s[i].key /\ s[i].scales = s[i].key

\* A complete entry of an absent projection keeps the list intact.
LEMMA IntactPush ==
  ASSUME NEW s \in Seq(Entries), Intact(s), NEW e \in Entries,
         e.key \notin KeysOf(s), e.data = e.key, e.scales = e.key
  PROVE  Intact(<<e>> \o s) /\ (<<e>> \o s)[1] = e
<1> DEFINE u == <<e>> \o s
<1>1. /\ Len(s) \in Nat /\ Len(u) = Len(s) + 1 /\ u[1] = e
      /\ \A i \in 2..(Len(s) + 1) : u[i] = s[i - 1]
  BY PushShape, LenProperties
<1> HIDE DEF u
<1>2. ASSUME NEW i \in 1..Len(u), i # 1
      PROVE  i - 1 \in 1..Len(s) /\ u[i] = s[i - 1] /\ u[i].key # e.key
  BY <1>1, <1>2 DEF KeysOf
<1>3. ASSUME NEW i \in 1..Len(u), NEW j \in 1..Len(u), u[i].key = u[j].key PROVE i = j
  <2>1. CASE i = 1 \/ j = 1
    BY <2>1, <1>1, <1>2, <1>3
  <2>2. CASE i # 1 /\ j # 1
    <3>1. i - 1 = j - 1
      <4>1. /\ i - 1 \in 1..Len(s) /\ u[i] = s[i - 1]
            /\ j - 1 \in 1..Len(s) /\ u[j] = s[j - 1]
        BY <2>2, <1>2
      <4>2. \A a, b \in 1..Len(s) : s[a].key = s[b].key => a = b
        BY DEF Intact
      <4>3. QED
        BY <4>1, <4>2, <1>3
    <3>2. QED
      BY <3>1, <1>1
  <2>3. QED
    BY <2>1, <2>2
<1>4. ASSUME NEW i \in 1..Len(u) PROVE u[i].data = u[i].key /\ u[i].scales = u[i].key
  BY <1>1, <1>2 DEF Intact
<1>5. Intact(u) /\ u[1] = e
  BY <1>1, <1>3, <1>4 DEF Intact
<1>6. QED
  BY <1>5 DEF u

\* An eviction keeps the list intact and adds no projection.
LEMMA IntactFront ==
  ASSUME NEW s \in Seq(Entries), Intact(s), s # <<>>
  PROVE  /\ Intact(SubSeq(s, 1, Len(s) - 1))
         /\ KeysOf(SubSeq(s, 1, Len(s) - 1)) \subseteq KeysOf(s)
<1> DEFINE u == SubSeq(s, 1, Len(s) - 1)
<1>1. /\ Len(s) \in Nat \ {0} /\ Len(u) = Len(s) - 1
      /\ \A i \in 1..(Len(s) - 1) : u[i] = s[i]
  BY FrontShape
<1> HIDE DEF u
<1>2. \A i \in 1..Len(u) : i \in 1..Len(s) /\ u[i] = s[i]
  BY <1>1
<1>3. Intact(u) /\ KeysOf(u) \subseteq KeysOf(s)
  BY <1>2 DEF Intact, KeysOf
<1>4. QED
  BY <1>3 DEF u

\* A promotion keeps the list intact and its projections the same.
LEMMA IntactPromote ==
  ASSUME NEW s \in Seq(Entries), Intact(s), NEW k \in 1..Len(s)
  PROVE  /\ Intact(Promote(s, k)) /\ Promote(s, k)[1] = s[k]
         /\ Promote(s, k) # <<>>
<1> DEFINE u == Promote(s, k)
           from(j) == IF j = 1 THEN k ELSE IF j <= k THEN j - 1 ELSE j
<1>1. /\ Len(s) \in Nat /\ u \in Seq(Entries) /\ Len(u) = Len(s)
      /\ \A j \in 1..Len(s) : u[j] = IF j = 1 THEN s[k] ELSE IF j <= k THEN s[j - 1] ELSE s[j]
  BY PromoteShape, LenProperties
<1> HIDE DEF u
<1>2. \A j \in 1..Len(u) : from(j) \in 1..Len(s) /\ u[j] = s[from(j)]
  BY <1>1
<1>3. \A i, j \in 1..Len(u) : from(i) = from(j) => i = j
  BY <1>1
<1> HIDE DEF from
<1>4. ASSUME NEW i \in 1..Len(u), NEW j \in 1..Len(u), u[i].key = u[j].key PROVE i = j
  <2>1. from(i) \in 1..Len(s) /\ u[i] = s[from(i)] /\ from(j) \in 1..Len(s) /\ u[j] = s[from(j)]
    BY <1>2
  <2>2. \A a, b \in 1..Len(s) : s[a].key = s[b].key => a = b
    BY DEF Intact
  <2>3. from(i) = from(j)
    BY <1>4, <2>1, <2>2
  <2>4. QED
    BY <1>3, <2>3
<1>5. \A i \in 1..Len(u) : u[i].data = u[i].key /\ u[i].scales = u[i].key
  BY <1>2 DEF Intact
<1>6. u[1] = s[k] /\ u # <<>>
  BY <1>1, EmptySeq
<1>7. Intact(u)
  BY <1>4, <1>5 DEF Intact
<1>8. QED
  BY <1>6, <1>7 DEF u

-------------------------------------------------------------------------------
\* What the call in progress has already established.
Progress ==
  /\ pc \in {"room", "fillData", "fillScales"} =>
       Charge[key] <= Capacity /\ key \notin KeysOf(lru)
  /\ pc \in {"fillData", "fillScales"} => bytes <= Capacity - Charge[key]
  /\ pc = "fillScales" => fill.data = key
  /\ pc = "tileScales" => key \in Scaled /\ scratch.data = <<key, tile>>
  /\ IF hit THEN pc = "multiply" /\ lru # <<>> /\ lru[1].key = key
            ELSE pc = "multiply" =>
                   /\ key \notin KeysOf(lru)
                   /\ scratch.data = <<key, tile>>
                   /\ key \in Scaled => scratch.scales = <<key, tile>>

IInv ==
  /\ TypeOK /\ Accounted /\ WithinLimit
  /\ EntriesIntact /\ ReadsOnlyWhenAbsent /\ Progress

\* The counters stay counters, whichever of them are incremented.
LEMMA BumpType ==
  ASSUME NEW c \in [Counters -> 0..MaxCount], NEW names
  PROVE  /\ Bump(c, names) \in [Counters -> 0..MaxCount]
         /\ \A n \in Counters : Bump(c, names)[n] >= c[n]
<1>1. MaxCount \in Nat
  BY ConstantsOK
<1>2. ASSUME NEW n \in Counters
      PROVE  /\ c[n] \in 0..MaxCount
             /\ Increment(c[n]) \in 0..MaxCount /\ Increment(c[n]) >= c[n]
  BY <1>1 DEF Increment
<1> HIDE DEF Increment, Counters
<1>3. QED
  BY <1>1, <1>2 DEF Bump

\* Counting a read, good or bad, keeps the counters counters.
LEMMA CountReadType ==
  ASSUME NEW ok \in BOOLEAN, count \in [Counters -> 0..MaxCount], CountRead(ok)
  PROVE  count' \in [Counters -> 0..MaxCount]
<1>1. \E names : count' = Bump(count, names)
  BY DEF CountRead
<1>2. QED
  BY <1>1, BumpType

\* A new context satisfies the invariant.
LEMMA InitInvariant == Init => IInv
<1> SUFFICES ASSUME Init PROVE IInv
  OBVIOUS
<1>1. Len(<<>>) = 0 /\ <<>> \in Seq(Entries)
  BY EmptySeq
<1>2. TypeOK
  <2>1. MaxCount \in Nat
    BY ConstantsOK
  <2>2. count \in [Counters -> 0..MaxCount]
    BY <2>1 DEF Init
  <2>3. /\ fill \in [data : Keys \cup {Garbage}, scales : {Garbage}]
        /\ scratch \in [data : Buffer, scales : Buffer]
    BY DEF Init, Blank, Buffer
  <2>4. lru \in Seq(Entries)
    BY <1>1 DEF Init
  <2>5. /\ bytes \in Nat /\ peak \in Nat /\ heap \in Nat /\ tile \in Nat \ {0}
        /\ pc \in Places
    BY DEF Init, Places
  <2>h. hit \in BOOLEAN
    BY Zenon DEF Init
  <2>6. key \in IF pc = "idle" THEN {NoKey}
               ELSE IF pc \in {"lookup", "room", "fillData", "fillScales"} THEN Routed
               ELSE Keys
    BY DEF Init
  <2>7. QED
    BY <2>2, <2>3, <2>4, <2>5, <2>6, <2>h DEF TypeOK
<1>3. Accounted /\ WithinLimit
  BY WeighsEmpty, ConstantsOK DEF Init, Accounted, Pending, WithinLimit
<1>4. EntriesIntact /\ ReadsOnlyWhenAbsent /\ Progress
  BY <1>1 DEF Init, EntriesIntact, ReadsOnlyWhenAbsent, Progress
<1>5. QED
  BY <1>2, <1>3, <1>4 DEF IInv

\* Facts about one state that several steps use.
LEMMA StateFacts ==
  ASSUME IInv
  PROVE  /\ lru \in Seq(Entries) /\ Weighs(lru, bytes) /\ Intact(lru)
         /\ bytes \in Nat /\ heap \in Nat /\ peak \in Nat /\ Capacity \in Nat
         /\ bytes <= Capacity /\ (lru = <<>> => bytes = 0)
         /\ \A k \in Routed : k \in Keys /\ k \in Scaled /\ Charge[k] \in Nat \ {0}
         /\ NoKey \notin Keys
<1>1. lru \in Seq(Entries) /\ Weighs(lru, bytes) /\ Intact(lru)
  BY DEF IInv, TypeOK, Accounted, EntriesIntact, Intact
<1>2. bytes \in Nat /\ heap \in Nat /\ peak \in Nat
  BY DEF IInv, TypeOK
<1>3. bytes \in 0..Capacity /\ (lru = <<>> => bytes = 0)
  BY <1>1, WeighsBound
<1>4. QED
  BY <1>1, <1>2, <1>3, ConstantsOK DEF Keys

\* A hit changes the order of the list and nothing that weighs.
LEMMA HitInvariant == IInv /\ Hit => IInv'
<1> SUFFICES ASSUME IInv, Hit PROVE IInv'
  OBVIOUS
<1> USE StateFacts
<1>1. PICK i \in 1..Len(lru) : FoundAt(i) /\ lru' = Promote(lru, i)
  BY DEF Hit, FoundAt
<1>2. lru[i] \in Entries /\ lru[i].key = key /\ key \in Routed
  <2>1. lru[i] \in Entries
    BY ElementOfSeq
  <2>2. QED
    BY <1>1, <2>1 DEF FoundAt, Entries
<1>3. lru' \in Seq(Entries) /\ Weighs(lru', bytes) /\ Intact(lru')
  BY <1>1, PromoteShape, WeighsPromote, IntactPromote
<1>4. lru' # <<>> /\ lru'[1].key = key
  BY <1>1, <1>2, IntactPromote
<1>5. count' \in [Counters -> 0..MaxCount]
  BY BumpType DEF Hit, IInv, TypeOK
<1>6. TypeOK'
  BY <1>2, <1>3, <1>5 DEF Hit, IInv, TypeOK, Places
<1>7. Accounted' /\ WithinLimit'
  BY <1>3 DEF Hit, IInv, Accounted, Pending, WithinLimit
<1>8. EntriesIntact' /\ ReadsOnlyWhenAbsent' /\ Progress'
  BY <1>3, <1>4 DEF Hit, EntriesIntact, Intact, ReadsOnlyWhenAbsent, Progress
<1>9. QED
  BY <1>6, <1>7, <1>8 DEF IInv

\* An eviction gives back exactly what the tail weighs.
LEMMA EvictInvariant == IInv /\ Evict => IInv'
<1> SUFFICES ASSUME IInv, Evict PROVE IInv'
  OBVIOUS
<1> USE StateFacts
<1>1. pc = "room" /\ key \in Routed /\ Charge[key] <= Capacity /\ bytes > Capacity - Charge[key]
  BY DEF Evict, IInv, TypeOK, Progress, NeedsRoom
<1>2. lru # <<>>
  BY <1>1
<1> DEFINE freed == Charge[lru[Len(lru)].key]
<1>3. /\ bytes' = bytes - freed /\ heap' = heap - freed /\ peak' = peak
      /\ pc' = pc /\ key' = key /\ fill' = fill /\ hit' = hit /\ tile' = tile
      /\ scratch' = scratch
  BY DEF Evict
<1>4. lru' \in Seq(Entries) /\ Intact(lru') /\ KeysOf(lru') \subseteq KeysOf(lru)
  BY <1>2, FrontShape, IntactFront DEF Evict
<1>5. freed <= bytes /\ Weighs(lru', bytes')
  BY <1>2, <1>3, WeighsFront DEF Evict
<1>6. freed \in Nat
  <2>1. Len(lru) \in 1..Len(lru)
    BY <1>2, FrontShape
  <2>2. lru[Len(lru)] \in Entries
    BY <2>1, ElementOfSeq
  <2>3. QED
    BY <2>2 DEF Entries
<1> HIDE DEF freed
<1>7. heap = bytes /\ bytes <= peak /\ peak <= Capacity
  BY <1>1 DEF IInv, Accounted, Pending, WithinLimit
<1>8. bytes' \in Nat /\ heap' \in Nat /\ heap' = bytes' /\ bytes' <= bytes
  BY <1>3, <1>5, <1>6, <1>7
<1>9. count' \in [Counters -> 0..MaxCount]
  BY BumpType DEF Evict, IInv, TypeOK
<1>10. TypeOK'
  BY <1>3, <1>4, <1>8, <1>9 DEF IInv, TypeOK
<1>11. Accounted'
  BY <1>1, <1>3, <1>5, <1>8 DEF Accounted, Pending
<1>12. WithinLimit'
  BY <1>3, <1>7, <1>8 DEF WithinLimit
<1>13. EntriesIntact' /\ ReadsOnlyWhenAbsent'
  BY <1>1, <1>3, <1>4 DEF EntriesIntact, Intact, ReadsOnlyWhenAbsent
<1>14. Progress'
  BY <1>1, <1>3, <1>4 DEF IInv, Progress
<1>15. QED
  BY <1>10, <1>11, <1>12, <1>13, <1>14 DEF IInv

\* The entry that is linked in was absent, complete and already paid for.
LEMMA PublishInvariant == IInv /\ Publish => IInv'
<1> SUFFICES ASSUME IInv, Publish PROVE IInv'
  OBVIOUS
<1> USE StateFacts
<1> DEFINE e == [key |-> key, data |-> fill.data, scales |-> key]
<1>1. /\ pc = "fillScales" /\ key \in Routed /\ key \notin KeysOf(lru)
      /\ bytes <= Capacity - Charge[key] /\ fill.data = key /\ ~hit
  BY DEF Publish, IInv, TypeOK, Progress
<1>2. /\ e \in Entries /\ e.key = key /\ e.data = e.key /\ e.scales = e.key
  BY <1>1 DEF Entries
<1>3. lru' = <<e>> \o lru
  BY DEF Publish
<1> HIDE DEF e
<1>4. bytes' = bytes + Charge[key] /\ bytes' \in Nat /\ bytes' <= Capacity
  <2>1. Charge[key] \in Nat /\ bytes' = bytes + Charge[key]
    BY <1>1 DEF Publish
  <2>2. bytes \in Nat /\ Capacity \in Nat /\ bytes <= Capacity - Charge[key]
    BY <1>1
  <2> DEFINE c == Charge[key]
  <2> HIDE DEF c
  <2>3. c \in Nat /\ bytes' = bytes + c /\ bytes <= Capacity - c
    BY <2>1, <2>2 DEF c
  <2>4. bytes' \in Nat /\ bytes' <= Capacity
    BY <2>2, <2>3
  <2>5. QED
    BY <2>1, <2>4
<1>5. lru' \in Seq(Entries) /\ Intact(lru') /\ lru'[1] = e /\ Len(lru') = Len(lru) + 1
  <2>1. e.key \notin KeysOf(lru) /\ lru \in Seq(Entries) /\ Intact(lru)
    BY <1>1, <1>2
  <2>2. Intact(<<e>> \o lru) /\ (<<e>> \o lru)[1] = e
    BY <2>1, <1>2, IntactPush
  <2>3. <<e>> \o lru \in Seq(Entries) /\ Len(<<e>> \o lru) = Len(lru) + 1
    BY <2>1, <1>2, PushShape
  <2>4. QED
    BY <2>2, <2>3, <1>3
<1>6. bytes + Charge[e.key] <= Capacity
  BY <1>2, <1>4
<1>7. Weighs(lru', bytes')
  BY <1>2, <1>3, <1>4, <1>6, WeighsPush
<1>8. lru' # <<>>
  BY <1>5, EmptySeq, LenProperties
<1>9. count' \in [Counters -> 0..MaxCount]
  BY CountReadType DEF Publish, IInv, TypeOK
<1>10. heap' = heap /\ heap = bytes + Charge[key] /\ bytes <= peak /\ peak <= Capacity
  BY <1>1 DEF Publish, IInv, Accounted, Pending, WithinLimit
<1>11. bytes' <= peak' /\ peak' <= Capacity /\ peak' \in Nat
  BY <1>4, <1>10 DEF Publish
<1>12. TypeOK'
  BY <1>1, <1>4, <1>5, <1>9, <1>11 DEF Publish, IInv, TypeOK, Places, Blank
<1>13. Accounted' /\ WithinLimit'
  BY <1>4, <1>7, <1>10, <1>11 DEF Publish, Accounted, Pending, WithinLimit
<1>14. EntriesIntact' /\ ReadsOnlyWhenAbsent' /\ Progress'
  BY <1>2, <1>5, <1>8 DEF Publish, EntriesIntact, Intact, ReadsOnlyWhenAbsent, Progress
<1>15. QED
  BY <1>12, <1>13, <1>14 DEF IInv

\* A failed read frees the entry that was being filled, and only that one.
LEMMA FillFailsInvariant == IInv /\ FillFails => IInv'
<1> SUFFICES ASSUME IInv, FillFails PROVE IInv'
  OBVIOUS
<1> USE StateFacts
<1>1. pc \in {"fillData", "fillScales"} /\ key \in Routed /\ Charge[key] \in Nat
  BY DEF FillFails, IInv, TypeOK
<1>2. heap = bytes + Charge[key] /\ heap' = bytes /\ bytes' = bytes /\ lru' = lru /\ peak' = peak
  <2>1. heap = bytes + Charge[key]
    BY <1>1 DEF IInv, Accounted, Pending
  <2>2. QED
    BY <2>1, <1>1 DEF FillFails
<1>3. count' \in [Counters -> 0..MaxCount]
  <2>1. count \in [Counters -> 0..MaxCount] /\ CountRead(FALSE)
    BY DEF FillFails, IInv, TypeOK
  <2>2. QED
    BY <2>1, CountReadType
<1>4. TypeOK'
  <2>1. /\ key' \in (IF pc' = "idle" THEN {NoKey}
                     ELSE IF pc' \in {"lookup", "room", "fillData", "fillScales"} THEN Routed
                     ELSE Keys)
        /\ tile' \in Nat \ {0} /\ pc' \in Places
    BY DEF FillFails, Return, Places
  <2>2. hit' \in BOOLEAN
    BY Zenon DEF FillFails, Return
  <2>3. fill' \in [data : Keys \cup {Garbage}, scales : {Garbage}]
    BY DEF FillFails, Return, Blank
  <2>4. scratch' \in [data : Buffer, scales : Buffer]
    BY DEF FillFails, IInv, TypeOK
  <2>5. QED
    BY <1>2, <1>3, <2>1, <2>2, <2>3, <2>4 DEF TypeOK
<1>5. Accounted' /\ WithinLimit'
  BY <1>2 DEF FillFails, Return, IInv, Accounted, Pending, WithinLimit
<1>6. EntriesIntact' /\ ReadsOnlyWhenAbsent' /\ Progress'
  BY <1>2 DEF FillFails, Return, IInv, EntriesIntact, ReadsOnlyWhenAbsent, Progress
<1>7. QED
  BY <1>4, <1>5, <1>6 DEF IInv

-------------------------------------------------------------------------------
\* The steps that leave the list alone.

\* Steps that leave the list alone keep it intact.
LEMMA SameEntries ==
  ASSUME IInv, lru' = lru, bytes' = bytes,
         heap' = bytes + Pending', heap' <= Capacity, bytes <= peak', peak' <= Capacity
  PROVE  /\ Accounted' /\ WithinLimit' /\ EntriesIntact'
         /\ KeysOf(lru') = KeysOf(lru)
<1>1. Weighs(lru', bytes')
  BY StateFacts
<1>2. Accounted' /\ WithinLimit'
  BY <1>1 DEF Accounted, WithinLimit
<1>3. QED
  BY <1>2 DEF IInv, EntriesIntact

\* A call that returns leaves well typed registers.
LEMMA ReturnType ==
  ASSUME Return
  PROVE  /\ pc' = "idle" /\ pc' \in Places /\ key' = NoKey
         /\ fill' \in [data : Keys \cup {Garbage}, scales : {Garbage}]
         /\ hit' \in BOOLEAN /\ ~hit'
         /\ tile' \in Nat \ {0}
<1>1. pc' = "idle" /\ pc' \in Places /\ key' = NoKey /\ tile' \in Nat \ {0}
  BY DEF Return, Places
<1>2. hit' \in BOOLEAN /\ ~hit'
  BY Zenon DEF Return
<1>3. fill' \in [data : Keys \cup {Garbage}, scales : {Garbage}]
  BY DEF Return, Blank
<1>4. QED
  BY <1>1, <1>2, <1>3

\* A call that returns without touching the list keeps the invariant, whatever
\* it leaves in the shared buffer.
LEMMA ReturnInvariant ==
  ASSUME IInv, Return, lru' = lru, bytes' = bytes, peak' = peak, heap' = bytes,
         count' \in [Counters -> 0..MaxCount], scratch' \in [data : Buffer, scales : Buffer]
  PROVE  IInv'
<1>1. pc' = "idle" /\ ~hit'
  BY ReturnType
<1>2. Pending' = 0 /\ bytes \in Nat /\ bytes <= Capacity /\ bytes <= peak /\ peak <= Capacity
  BY <1>1, StateFacts DEF Pending, IInv, WithinLimit
<1>3. Accounted' /\ WithinLimit' /\ EntriesIntact'
  BY <1>2, SameEntries
<1>4. TypeOK'
  BY <1>1, StateFacts, ReturnType DEF TypeOK
<1>5. ReadsOnlyWhenAbsent' /\ Progress'
  BY <1>1 DEF ReadsOnlyWhenAbsent, Progress
<1>6. QED
  BY <1>3, <1>4, <1>5 DEF IInv

\* Outside the filling of an entry exactly the published bytes are allocated.
LEMMA Settled ==
  ASSUME IInv, pc \notin {"fillData", "fillScales"}
  PROVE  heap = bytes /\ bytes <= peak /\ peak <= Capacity /\ heap <= Capacity
  BY StateFacts DEF IInv, Accounted, Pending, WithinLimit

\* A projection begins.
LEMMA ProjectInvariant ==
  ASSUME IInv, NEW k \in Keys, Project(k)
  PROVE  IInv'
<1>1. heap' = bytes + Pending' /\ heap' <= Capacity /\ bytes <= peak' /\ peak' <= Capacity
  BY Settled, StateFacts DEF Project, stats, Pending
<1>2. Accounted' /\ WithinLimit' /\ EntriesIntact' /\ KeysOf(lru') = KeysOf(lru)
  BY <1>1, SameEntries DEF Project, stats
<1>3. ~hit /\ hit' = hit
  BY DEF Project, IInv, Progress
<1>4. TypeOK'
  BY <1>3 DEF Project, stats, IInv, TypeOK, Places
<1>5. k \notin Routed => k \notin KeysOf(lru)
  <2>1. \A i \in 1..Len(lru) : lru[i] \in Entries
    BY StateFacts, ElementOfSeq
  <2>2. QED
    BY <2>1 DEF KeysOf, Entries
<1>6. ReadsOnlyWhenAbsent' /\ Progress'
  BY <1>2, <1>3, <1>5 DEF Project, ReadsOnlyWhenAbsent, Progress
<1>7. QED
  BY <1>2, <1>4, <1>6 DEF IInv

\* A miss counts and decides between a new entry and streaming.
LEMMA MissInvariant == IInv /\ Miss => IInv'
<1> SUFFICES ASSUME IInv, Miss PROVE IInv'
  OBVIOUS
<1>1. heap' = bytes + Pending' /\ heap' <= Capacity /\ bytes <= peak' /\ peak' <= Capacity
  BY Settled, StateFacts DEF Miss, Pending
<1>2. Accounted' /\ WithinLimit' /\ EntriesIntact' /\ KeysOf(lru') = KeysOf(lru)
  BY <1>1, SameEntries DEF Miss
<1>3. ~hit /\ hit' = hit /\ key \in Routed /\ key' = key
  BY DEF Miss, IInv, TypeOK, Progress
<1>4. count' \in [Counters -> 0..MaxCount]
  BY BumpType DEF Miss, IInv, TypeOK
<1>5. TypeOK'
  BY <1>3, <1>4 DEF Miss, IInv, TypeOK, Places, Keys
<1>6. key \notin KeysOf(lru)
  BY DEF Miss, Absent, KeysOf
<1>7. ReadsOnlyWhenAbsent' /\ Progress'
  <2>1. pc' = "tileData" \/ (pc' = "room" /\ Charge[key] <= Capacity)
    BY <1>3, StateFacts DEF Miss
  <2>2. QED
    BY <1>2, <1>3, <1>6, <2>1 DEF ReadsOnlyWhenAbsent, Progress
<1>8. QED
  BY <1>2, <1>5, <1>7 DEF IInv

\* The new allocation fits beside what is linked, so the limit holds.
LEMMA AllocateInvariant == IInv /\ Allocate => IInv'
<1> SUFFICES ASSUME IInv, Allocate PROVE IInv'
  OBVIOUS
<1>1. pc = "room" /\ pc' = "fillData" /\ key' = key /\ key \in Routed /\ ~hit /\ hit' = hit
  BY DEF Allocate, IInv, TypeOK, Progress
<1>2. Charge[key] \in Nat /\ bytes \in Nat /\ Capacity \in Nat
  BY <1>1, StateFacts
<1>3. bytes <= Capacity - Charge[key] /\ heap' = bytes + Charge[key]
  BY <1>1, <1>2, Settled DEF Allocate, NeedsRoom
<1>4. heap' = bytes + Pending' /\ heap' <= Capacity /\ bytes <= peak' /\ peak' <= Capacity
  <2>1. Pending' = Charge[key]
    BY <1>1 DEF Pending
  <2>2. heap' <= Capacity /\ heap' \in Nat
    BY <1>2, <1>3
  <2>3. QED
    BY <1>1, <1>3, <2>1, <2>2, Settled DEF Allocate, stats
<1>5. Accounted' /\ WithinLimit' /\ EntriesIntact' /\ KeysOf(lru') = KeysOf(lru)
  BY <1>4, SameEntries DEF Allocate, stats
<1>6. TypeOK'
  <2>1. heap' \in Nat
    BY <1>2, <1>3
  <2>2. fill' \in [data : Keys \cup {Garbage}, scales : {Garbage}]
    BY DEF Allocate, Blank
  <2>3. QED
    BY <1>1, <2>1, <2>2 DEF Allocate, stats, IInv, TypeOK, Places
<1>7. ReadsOnlyWhenAbsent' /\ Progress'
  BY <1>1, <1>3, <1>5 DEF Allocate, stats, IInv, ReadsOnlyWhenAbsent, Progress
<1>8. QED
  BY <1>5, <1>6, <1>7 DEF IInv

\* Without memory the call streams; nothing is allocated.
LEMMA AllocateFailsInvariant == IInv /\ AllocateFails => IInv'
<1> SUFFICES ASSUME IInv, AllocateFails PROVE IInv'
  OBVIOUS
<1>1. pc = "room" /\ pc' = "tileData" /\ key' = key /\ key \in Routed /\ ~hit /\ hit' = hit
  BY DEF AllocateFails, IInv, TypeOK, Progress
<1>2. heap' = bytes + Pending' /\ heap' <= Capacity /\ bytes <= peak' /\ peak' <= Capacity
  BY <1>1, Settled, StateFacts DEF AllocateFails, stats, Pending
<1>3. Accounted' /\ WithinLimit' /\ EntriesIntact' /\ KeysOf(lru') = KeysOf(lru)
  BY <1>2, SameEntries DEF AllocateFails, stats
<1>4. TypeOK'
  BY <1>1 DEF AllocateFails, stats, IInv, TypeOK, Places, Keys
<1>5. ReadsOnlyWhenAbsent' /\ Progress'
  BY <1>1, <1>3 DEF IInv, ReadsOnlyWhenAbsent, Progress
<1>6. QED
  BY <1>3, <1>4, <1>5 DEF IInv

\* The first read of an entry that is not linked yet.
LEMMA FillDataInvariant == IInv /\ FillData => IInv'
<1> SUFFICES ASSUME IInv, FillData PROVE IInv'
  OBVIOUS
<1>1. pc = "fillData" /\ pc' = "fillScales" /\ key' = key /\ key \in Routed /\ ~hit /\ hit' = hit
  BY DEF FillData, IInv, TypeOK, Progress
<1>2. heap' = bytes + Pending' /\ heap' <= Capacity /\ bytes <= peak' /\ peak' <= Capacity
  BY <1>1 DEF FillData, IInv, Accounted, Pending, WithinLimit
<1>3. Accounted' /\ WithinLimit' /\ EntriesIntact' /\ KeysOf(lru') = KeysOf(lru)
  BY <1>2, SameEntries DEF FillData
<1>4. fill' \in [data : Keys \cup {Garbage}, scales : {Garbage}] /\ fill'.data = key
  BY <1>1, StateFacts DEF FillData, IInv, TypeOK
<1>5. count' \in [Counters -> 0..MaxCount]
  BY CountReadType DEF FillData, IInv, TypeOK
<1>6. TypeOK'
  BY <1>1, <1>4, <1>5 DEF FillData, IInv, TypeOK, Places
<1>7. ReadsOnlyWhenAbsent' /\ Progress'
  BY <1>1, <1>3, <1>4 DEF FillData, IInv, ReadsOnlyWhenAbsent, Progress
<1>8. QED
  BY <1>3, <1>6, <1>7 DEF IInv

-------------------------------------------------------------------------------
\* Streaming and the kernel.

\* The data block of a tile is read into the shared buffer.
LEMMA TileDataInvariant == IInv /\ TileData => IInv'
<1> SUFFICES ASSUME IInv, TileData PROVE IInv'
  OBVIOUS
<1>1. /\ pc = "tileData" /\ pc' = (IF key \in Scaled THEN "tileScales" ELSE "multiply")
      /\ key' = key /\ key \in Keys /\ tile' = tile /\ tile \in Nat
      /\ key \notin KeysOf(lru) /\ ~hit /\ hit' = hit
  BY DEF TileData, IInv, TypeOK, Progress, ReadsOnlyWhenAbsent
<1>2. heap' = bytes + Pending' /\ heap' <= Capacity /\ bytes <= peak' /\ peak' <= Capacity
  BY <1>1, Settled, StateFacts DEF TileData, Pending
<1>3. Accounted' /\ WithinLimit' /\ EntriesIntact' /\ KeysOf(lru') = KeysOf(lru)
  BY <1>2, SameEntries DEF TileData
<1>4. scratch' \in [data : Buffer, scales : Buffer] /\ scratch'.data = <<key, tile>>
  BY <1>1 DEF TileData, Buffer
<1>5. count' \in [Counters -> 0..MaxCount]
  BY CountReadType DEF TileData, IInv, TypeOK
<1>6. TypeOK'
  BY <1>1, <1>4, <1>5 DEF TileData, IInv, TypeOK, Places
<1>7. ReadsOnlyWhenAbsent' /\ Progress'
  BY <1>1, <1>3, <1>4 DEF ReadsOnlyWhenAbsent, Progress
<1>8. QED
  BY <1>3, <1>6, <1>7 DEF IInv

\* The scales join the data of the same tile.
LEMMA TileScalesInvariant == IInv /\ TileScales => IInv'
<1> SUFFICES ASSUME IInv, TileScales PROVE IInv'
  OBVIOUS
<1>1. /\ pc = "tileScales" /\ pc' = "multiply" /\ scratch.data = <<key, tile>>
      /\ key' = key /\ key \in Keys /\ tile' = tile /\ tile \in Nat
      /\ key \notin KeysOf(lru) /\ ~hit /\ hit' = hit
  BY DEF TileScales, IInv, TypeOK, Progress, ReadsOnlyWhenAbsent
<1>2. heap' = bytes + Pending' /\ heap' <= Capacity /\ bytes <= peak' /\ peak' <= Capacity
  BY <1>1, Settled, StateFacts DEF TileScales, Pending
<1>3. Accounted' /\ WithinLimit' /\ EntriesIntact' /\ KeysOf(lru') = KeysOf(lru)
  BY <1>2, SameEntries DEF TileScales
<1>4. /\ scratch' \in [data : Buffer, scales : Buffer]
      /\ scratch'.data = <<key, tile>> /\ scratch'.scales = <<key, tile>>
  <2>1. scratch \in [data : Buffer, scales : Buffer] /\ <<key, tile>> \in Buffer
    BY <1>1 DEF IInv, TypeOK, Buffer
  <2>2. scratch' = [scratch EXCEPT !.scales = <<key, tile>>]
    BY DEF TileScales
  <2> HIDE DEF Buffer
  <2>3. QED
    BY <1>1, <2>1, <2>2
<1>5. count' \in [Counters -> 0..MaxCount]
  BY CountReadType DEF TileScales, IInv, TypeOK
<1>6. TypeOK'
  BY <1>1, <1>4, <1>5 DEF TileScales, IInv, TypeOK, Places
<1>7. ReadsOnlyWhenAbsent' /\ Progress'
  BY <1>1, <1>3, <1>4 DEF ReadsOnlyWhenAbsent, Progress
<1>8. QED
  BY <1>3, <1>6, <1>7 DEF IInv

\* A failed tile ends the call.
LEMMA TileFailsInvariant == IInv /\ TileFails => IInv'
<1> SUFFICES ASSUME IInv, TileFails PROVE IInv'
  OBVIOUS
<1>1. count' \in [Counters -> 0..MaxCount]
  <2>1. count \in [Counters -> 0..MaxCount] /\ CountRead(FALSE)
    BY DEF TileFails, IInv, TypeOK
  <2>2. QED
    BY <2>1, CountReadType
<1>2. scratch' \in [data : Buffer, scales : Buffer]
  BY DEF TileFails, Blank, Buffer
<1>3. Return /\ lru' = lru /\ bytes' = bytes /\ peak' = peak /\ heap' = bytes
  BY Settled DEF TileFails
<1>4. QED
  BY <1>1, <1>2, <1>3, ReturnInvariant

\* A rejected kernel call ends the projection.
LEMMA MultiplyFailsInvariant == IInv /\ MultiplyFails => IInv'
<1> SUFFICES ASSUME IInv, MultiplyFails PROVE IInv'
  OBVIOUS
<1>1. /\ Return /\ lru' = lru /\ bytes' = bytes /\ peak' = peak /\ heap' = bytes
      /\ count' \in [Counters -> 0..MaxCount] /\ scratch' \in [data : Buffer, scales : Buffer]
  BY Settled DEF MultiplyFails, stats, IInv, TypeOK
<1>2. QED
  BY <1>1, ReturnInvariant

\* The kernel consumes a tile; the next one is read or taken from the entry.
LEMMA MultiplyInvariant == IInv /\ Multiply => IInv'
<1> SUFFICES ASSUME IInv, Multiply PROVE IInv'
  OBVIOUS
<1>1. /\ lru' = lru /\ bytes' = bytes /\ peak' = peak /\ heap' = bytes
      /\ count' = count /\ count \in [Counters -> 0..MaxCount]
      /\ scratch' = scratch /\ scratch \in [data : Buffer, scales : Buffer]
      /\ pc = "multiply" /\ key \in Keys /\ tile \in Nat
  BY Settled DEF Multiply, stats, IInv, TypeOK
<1>2. CASE Return
  BY <1>1, <1>2, ReturnInvariant
<1>3. CASE tile' = tile + 1 /\ pc' = (IF hit THEN "multiply" ELSE "tileData") /\ UNCHANGED <<key, fill, hit>>
  <2>1. heap' = bytes + Pending' /\ heap' <= Capacity /\ bytes <= peak' /\ peak' <= Capacity
    BY <1>1, <1>3, Settled, StateFacts DEF Pending
  <2>2. Accounted' /\ WithinLimit' /\ EntriesIntact' /\ KeysOf(lru') = KeysOf(lru)
    BY <1>1, <2>1, SameEntries
  <2>3. tile' \in Nat \ {0} /\ pc' \in Places /\ pc' # "idle" /\ key' \in Keys
    BY <1>1, <1>3 DEF Places
  <2>4. TypeOK'
    BY <1>1, <1>3, <2>3 DEF IInv, TypeOK
  <2>5. ReadsOnlyWhenAbsent' /\ Progress'
    BY <1>1, <1>3, <2>2 DEF IInv, ReadsOnlyWhenAbsent, Progress
  <2>6. QED
    BY <2>2, <2>4, <2>5 DEF IInv
<1>4. QED
  BY <1>2, <1>3 DEF Multiply

\* A reset of the statistics keeps the bytes in use.
LEMMA ResetStatsInvariant == IInv /\ ResetStats => IInv'
<1> SUFFICES ASSUME IInv, ResetStats PROVE IInv'
  OBVIOUS
<1>1. heap' = bytes + Pending' /\ heap' <= Capacity /\ bytes <= peak' /\ peak' <= Capacity
  BY Settled, StateFacts DEF ResetStats, Pending
<1>2. Accounted' /\ WithinLimit' /\ EntriesIntact' /\ KeysOf(lru') = KeysOf(lru)
  BY <1>1, SameEntries DEF ResetStats
<1>3. count' \in [Counters -> 0..MaxCount]
  <2>1. MaxCount \in Nat
    BY ConstantsOK
  <2>2. QED
    BY <2>1 DEF ResetStats
<1>4. TypeOK'
  BY <1>3 DEF ResetStats, IInv, TypeOK
<1>5. ReadsOnlyWhenAbsent' /\ Progress'
  BY DEF ResetStats, IInv, ReadsOnlyWhenAbsent, Progress
<1>6. QED
  BY <1>2, <1>4, <1>5 DEF IInv

\* A stuttering step changes nothing the invariant reads.
LEMMA StutterInvariant == IInv /\ UNCHANGED vars => IInv'
  BY DEF vars, stats, IInv, TypeOK, Accounted, Pending, WithinLimit, EntriesIntact,
         ReadsOnlyWhenAbsent, Progress, KeysOf

\* Every step of the specification keeps the invariant.
LEMMA NextInvariant == IInv /\ [Next]_vars => IInv'
<1> SUFFICES ASSUME IInv, [Next]_vars PROVE IInv'
  OBVIOUS
<1>1. ASSUME NEW k \in Keys, Project(k) PROVE IInv'
  BY <1>1, ProjectInvariant
<1>2. CASE ResetStats
  BY <1>2, ResetStatsInvariant
<1>3. CASE Lookup
  BY <1>3, HitInvariant, MissInvariant DEF Lookup
<1>4. CASE MakeRoom
  BY <1>4, EvictInvariant, AllocateInvariant, AllocateFailsInvariant DEF MakeRoom
<1>5. CASE Fill
  BY <1>5, FillDataInvariant, FillFailsInvariant, PublishInvariant DEF Fill
<1>6. CASE Stream
  BY <1>6, TileDataInvariant, TileScalesInvariant, TileFailsInvariant DEF Stream
<1>7. CASE Kernel
  BY <1>7, MultiplyInvariant, MultiplyFailsInvariant DEF Kernel
<1>8. CASE UNCHANGED vars
  BY <1>8, StutterInvariant
<1>9. QED
  BY <1>1, <1>2, <1>3, <1>4, <1>5, <1>6, <1>7, <1>8 DEF Next, Step

-------------------------------------------------------------------------------
\* The inductive invariant holds in every reachable state.
THEOREM Invariance == Spec => []IInv
  BY InitInvariant, NextInvariant, PTL DEF Spec

\* Every variable of the cache keeps its type.
THEOREM TypeCorrect == Spec => []TypeOK
<1>1. IInv => TypeOK
  BY DEF IInv
<1>2. QED
  BY <1>1, Invariance, PTL

\* cache_bytes is what the linked entries weigh and nothing is leaked, on every
\* path through promotions, evictions, failed allocations and failed reads.
THEOREM AccountingExact == Spec => []Accounted
<1>1. IInv => Accounted
  BY DEF IInv
<1>2. QED
  BY <1>1, Invariance, PTL

\* The cache never has more allocated than its limit, for every limit and every
\* size of the projections.
THEOREM LimitKept == Spec => []WithinLimit
<1>1. IInv => WithinLimit
  BY DEF IInv
<1>2. QED
  BY <1>1, Invariance, PTL

\* There is an entry to evict whenever room is needed.
LEMMA RoomMeansVictim ==
  ASSUME IInv, pc = "room", NeedsRoom
  PROVE  lru # <<>>
<1> SUFFICES ASSUME lru = <<>> PROVE FALSE
  OBVIOUS
<1>1. bytes = 0 /\ Capacity \in Nat /\ key \in Routed
  BY StateFacts DEF IInv, TypeOK
<1>2. Charge[key] \in Nat /\ Charge[key] <= Capacity
  BY <1>1, StateFacts DEF IInv, Progress
<1> QED
  BY <1>1, <1>2 DEF NeedsRoom

\* The eviction loop never looks for the tail of an empty list.
THEOREM VictimAlwaysExists == Spec => []VictimExists
<1>1. IInv => VictimExists
  BY RoomMeansVictim DEF VictimExists
<1>2. QED
  BY <1>1, Invariance, PTL

\* No projection is resident twice and no entry is linked in incomplete.
THEOREM NoTornEntry == Spec => []EntriesIntact
<1>1. IInv => EntriesIntact
  BY DEF IInv
<1>2. QED
  BY <1>1, Invariance, PTL

\* The kernel is handed the rows it was asked to multiply by, from an entry or
\* from the shared weight buffer.
THEOREM RightTile == Spec => []KernelGetsItsTile
<1>1. IInv => KernelGetsItsTile
  <2> SUFFICES ASSUME IInv, pc = "multiply"
               PROVE  Operand.data = <<key, tile>> /\ (key \in Scaled => Operand.scales = <<key, tile>>)
    BY DEF KernelGetsItsTile
  <2>1. CASE hit
    <3>1. lru[1].key = key /\ 1 \in 1..Len(lru)
      BY <2>1, StateFacts, EmptySeq DEF IInv, Progress
    <3>2. lru[1].data = key /\ lru[1].scales = key
      BY <3>1, StateFacts DEF Intact
    <3>3. QED
      BY <2>1, <3>2 DEF Operand
  <2>2. CASE ~hit
    BY <2>2 DEF IInv, Progress, Operand
  <2>3. QED
    BY <2>1, <2>2
<1>2. QED
  BY <1>1, Invariance, PTL

\* Nothing resident is read again.
THEOREM NoNeedlessRead == Spec => []ReadsOnlyWhenAbsent
<1>1. IInv => ReadsOnlyWhenAbsent
  BY DEF IInv
<1>2. QED
  BY <1>1, Invariance, PTL

\* A counter is only ever lowered by a reset of the statistics.
THEOREM CountersMonotonic == Spec => CountersOnlyGrow
<1>1. IInv /\ [Next]_vars => [ResetStats \/ \A n \in Counters : count'[n] >= count[n]]_count
  <2> SUFFICES ASSUME IInv, [Next]_vars, count' # count, ~ResetStats
               PROVE  \A n \in Counters : count'[n] >= count[n]
    OBVIOUS
  <2>1. count \in [Counters -> 0..MaxCount]
    BY DEF IInv, TypeOK
  <2>2. \E names : count' = Bump(count, names)
    BY DEF Next, Step, Lookup, MakeRoom, Fill, Stream, Kernel, Project, Hit, Miss, Evict,
           Allocate, AllocateFails, FillData, FillFails, Publish, TileData, TileScales,
           TileFails, Multiply, MultiplyFails, CountRead, stats, vars
  <2>3. QED
    BY <2>1, <2>2, BumpType
<1>2. QED
  BY <1>1, Invariance, PTL DEF Spec, CountersOnlyGrow
-------------------------------------------------------------------------------
\* The running totals of a list of projections.
Totals(s, t) ==
  /\ t \in [0..Len(s) -> 0..Capacity] /\ t[0] = 0
  /\ \A i \in 1..Len(s) : t[i] = t[i - 1] + Charge[s[i]]
  /\ \A i, j \in 0..Len(s) : i <= j => t[i] <= t[j]

\* While room is made, the list is what is left of the order that the call found,
\* and it lost its last entry only because there was no room with it.
Remembered ==
  MakingRoom(pc) =>
    /\ before \in Seq(Routed) /\ Len(lru) <= Len(before)
    /\ \A i \in 1..Len(lru) : lru[i].key = before[i]
    /\ \A i \in 1..Len(before) : before[i] # key
    /\ \E t : /\ Totals(before, t) /\ t[Len(lru)] = bytes
              /\ Len(lru) < Len(before) => t[Len(lru) + 1] > Capacity - Charge[key]

\* The order of a list, key by key.
LEMMA OrderShape ==
  ASSUME NEW s \in Seq(Entries)
  PROVE  /\ Order(s) \in Seq(Routed) /\ Len(Order(s)) = Len(s) /\ Len(s) \in Nat
         /\ \A i \in 1..Len(s) : Order(s)[i] = s[i].key /\ s[i] \in Entries /\ s[i].key \in Routed
<1>1. Len(s) \in Nat /\ \A i \in 1..Len(s) : s[i] \in Entries
  BY LenProperties, ElementOfSeq
<1>2. \A i \in 1..Len(s) : s[i].key \in Routed
  BY <1>1 DEF Entries
<1>3. Order(s) \in [1..Len(s) -> Routed]
  BY <1>2 DEF Order
<1>4. Order(s) \in Seq(Routed) /\ Len(Order(s)) = Len(s)
  BY <1>1, <1>3
<1> QED
  BY <1>1, <1>2, <1>4 DEF Order

\* What Bytes computes is the running total.
LEMMA BytesAreTotals ==
  ASSUME NEW s \in Seq(Routed), NEW t, Totals(s, t), NEW n \in 0..Len(s)
  PROVE  Lru!Bytes(s, n) = t[n]
<1> DEFINE Solves(f) == f = [i \in 0..n |-> IF i = 0 THEN 0 ELSE f[i - 1] + Charge[s[i]]]
           g == [i \in 0..n |-> t[i]]
           f == CHOOSE h : Solves(h)
           Bad == {i \in 0..n : f[i] # t[i]}
<1>1. n \in Nat /\ Len(s) \in Nat /\ n <= Len(s)
  BY LenProperties
<1>2. t[0] = 0 /\ \A i \in 1..n : t[i] = t[i - 1] + Charge[s[i]]
  BY <1>1 DEF Totals
<1>3. Solves(g)
  <2>1. ASSUME NEW i \in 0..n
        PROVE  t[i] = IF i = 0 THEN 0 ELSE g[i - 1] + Charge[s[i]]
    <3>1. i # 0 => i - 1 \in 0..n /\ i \in 1..n
      BY <1>1
    <3> QED
      BY <1>2, <3>1
  <2> QED
    BY <2>1
<1>4. Solves(f)
  <2> HIDE DEF Solves, g
  <2> QED
    BY <1>3
<1>5. Lru!Bytes(s, n) = f[n]
  BY DEF Lru!Bytes
<1>6. Bad = {}
  <2> SUFFICES ASSUME Bad # {} PROVE FALSE
    OBVIOUS
  <2>1. PICK m \in Bad : \A i \in Bad : m <= i
    <3>1. Bad \in SUBSET Nat
      BY <1>1
    <3> HIDE DEF Bad
    <3> QED
      BY <3>1, LeastNatural
  <2>2. m \in 0..n /\ f[m] # t[m]
    OBVIOUS
  <2> HIDE DEF f
  <2>3. f[m] = IF m = 0 THEN 0 ELSE f[m - 1] + Charge[s[m]]
    BY <1>4, <2>2
  <2>4. m # 0
    BY <1>2, <2>2, <2>3
  <2>5. m - 1 \in 0..n /\ m - 1 \notin Bad /\ m \in 1..n
    BY <1>1, <2>1, <2>2, <2>4
  <2> QED
    BY <1>2, <2>2, <2>3, <2>4, <2>5
<1> QED
  BY <1>1, <1>5, <1>6

\* The longest prefix that leaves room for k is where the totals pass the room there is.
LEMMA SurvivorsAre ==
  ASSUME NEW s \in Seq(Routed), NEW t, Totals(s, t), NEW k \in Routed, NEW m \in 0..Len(s),
         t[m] <= Capacity - Charge[k],
         m < Len(s) => t[m + 1] > Capacity - Charge[k]
  PROVE  Lru!Survivors(s, k) = SubSeq(s, 1, m)
<1> DEFINE room == Capacity - Charge[k]
           fits(n) == Lru!Bytes(s, n) <= room
           longest(n) == fits(n) /\ \A j \in (n + 1)..Len(s) : ~fits(j)
           n == CHOOSE i \in 0..Len(s) : longest(i)
<1>1. Len(s) \in Nat /\ Charge[k] \in Nat /\ Capacity \in Nat /\ room \in Int
  BY LenProperties, ConstantsOK
<1>2. \A i \in 0..Len(s) : t[i] \in Nat /\ Lru!Bytes(s, i) = t[i]
  <2> SUFFICES ASSUME NEW i \in 0..Len(s) PROVE t[i] \in Nat /\ Lru!Bytes(s, i) = t[i]
    OBVIOUS
  <2>1. t[i] \in 0..Capacity
    BY DEF Totals
  <2> QED
    BY <1>1, <2>1, BytesAreTotals
<1>3. Lru!Survivors(s, k) = SubSeq(s, 1, n)
  BY DEF Lru!Survivors
<1>4. fits(m)
  BY <1>2
<1>5. ASSUME NEW j \in (m + 1)..Len(s) PROVE ~fits(j)
  <2>1. j \in 0..Len(s) /\ m + 1 \in 0..Len(s) /\ m + 1 <= j /\ m < Len(s)
    BY <1>1
  <2>2. t[m + 1] <= t[j]
    BY <2>1 DEF Totals
  <2> QED
    BY <1>1, <1>2, <2>1, <2>2
<1>6. longest(m)
  BY <1>4, <1>5
<1>7. n \in 0..Len(s) /\ longest(n)
  <2> HIDE DEF longest
  <2> QED
    BY <1>6
<1> HIDE DEF n, fits
<1>8. n = m
  BY <1>1, <1>6, <1>7
<1> QED
  BY <1>3, <1>8

\* What the call remembers of the order it found, it keeps through every eviction.
LEMMA RememberedKept ==
  ASSUME IInv, Remembered, HNext
  PROVE  Remembered'
<1> USE StateFacts
<1>1. CASE Miss
  <2> SUFFICES ASSUME pc' = "room" PROVE Remembered'
    BY <1>1 DEF Miss, Remembered, MakingRoom
  <2>1. /\ before' = Order(lru) /\ lru' = lru /\ key' = key /\ bytes' = bytes
        /\ \A i \in 1..Len(lru) : lru[i].key # key
    BY <1>1 DEF Miss, Absent, HNext, MakingRoom
  <2>2. /\ Order(lru) \in Seq(Routed) /\ Len(Order(lru)) = Len(lru) /\ Len(lru) \in Nat
        /\ \A i \in 1..Len(lru) : Order(lru)[i] = lru[i].key
    BY OrderShape
  <2>3. PICK t \in [0..Len(lru) -> 0..Capacity] :
          /\ t[0] = 0 /\ t[Len(lru)] = bytes
          /\ \A i \in 1..Len(lru) : t[i] = t[i - 1] + Charge[lru[i].key]
          /\ \A i, j \in 0..Len(lru) : i <= j => t[i] <= t[j]
    BY DEF Weighs
  <2>4. Totals(Order(lru), t)
    BY <2>2, <2>3 DEF Totals
  <2>5. \A i \in 1..Len(lru') : lru'[i].key = before'[i]
    BY <2>1, <2>2
  <2>6. /\ before' \in Seq(Routed) /\ Len(lru') <= Len(before') /\ ~(Len(lru') < Len(before'))
        /\ \A i \in 1..Len(before') : before'[i] # key'
    <3>1. /\ Order(lru) \in Seq(Routed) /\ Len(lru) <= Len(Order(lru))
          /\ ~(Len(lru) < Len(Order(lru)))
      BY <2>2
    <3>2. \A i \in 1..Len(Order(lru)) : Order(lru)[i] # key
      BY <2>1, <2>2
    <3> QED
      BY <2>1, <3>1, <3>2
  <2>7. Totals(before', t) /\ t[Len(lru')] = bytes'
    BY <2>1, <2>3, <2>4
  <2> QED
    BY <2>5, <2>6, <2>7 DEF Remembered
<1>2. CASE Evict
  <2>1. /\ before' = before /\ key' = key /\ pc = "room" /\ MakingRoom(pc)
        /\ bytes > Capacity - Charge[key]
        /\ lru' = SubSeq(lru, 1, Len(lru) - 1)
        /\ bytes' = bytes - Charge[lru[Len(lru)].key]
    BY <1>2 DEF Evict, NeedsRoom, HNext, MakingRoom
  <2>2. lru # <<>>
    BY <2>1, RoomMeansVictim DEF NeedsRoom
  <2>3. /\ Len(lru) \in Nat \ {0} /\ Len(lru') = Len(lru) - 1
        /\ \A i \in 1..(Len(lru) - 1) : lru'[i] = lru[i]
    BY <2>1, <2>2, FrontShape
  <2>4. PICK t : /\ Totals(before, t) /\ t[Len(lru)] = bytes
    BY <2>1 DEF Remembered
  <2>5. /\ before \in Seq(Routed) /\ Len(lru) <= Len(before) /\ Len(before) \in Nat
        /\ \A i \in 1..Len(lru) : lru[i].key = before[i]
        /\ \A i \in 1..Len(before) : before[i] # key
    BY <2>1, LenProperties DEF Remembered
  <2>6. t[Len(lru)] = t[Len(lru) - 1] + Charge[lru[Len(lru)].key] /\ t[Len(lru) - 1] \in Nat
    <3>1. Len(lru) \in 1..Len(before) /\ Len(lru) - 1 \in 0..Len(before) /\ Len(lru) \in 1..Len(lru)
      BY <2>3, <2>5
    <3>2. t[Len(lru) - 1] \in 0..Capacity /\ t[Len(lru)] = t[Len(lru) - 1] + Charge[before[Len(lru)]]
      BY <2>4, <3>1 DEF Totals
    <3> QED
      BY <2>5, <3>1, <3>2
  <2>7. Charge[lru[Len(lru)].key] \in Nat
    BY <2>3, OrderShape
  <2>8. t[Len(lru')] = bytes' /\ t[Len(lru') + 1] > Capacity - Charge[key']
    <3>1. Len(lru') = Len(lru) - 1 /\ Len(lru') + 1 = Len(lru)
      BY <2>3
    <3>2. t[Len(lru) - 1] = bytes'
      BY <2>1, <2>4, <2>6, <2>7
    <3>3. t[Len(lru)] > Capacity - Charge[key']
      BY <2>1, <2>4
    <3> QED
      BY <3>1, <3>2, <3>3
  <2>9. Len(lru') <= Len(before') /\ \A i \in 1..Len(lru') : lru'[i].key = before'[i]
    BY <2>1, <2>3, <2>5
  <2> QED
    BY <2>1, <2>4, <2>5, <2>8, <2>9 DEF Remembered
<1>3. CASE Allocate \/ FillData
  BY <1>3 DEF Allocate, FillData, HNext, Remembered, MakingRoom, stats
<1>4. CASE ~(Miss \/ Evict \/ Allocate \/ FillData)
  <2>1. ~MakingRoom(pc')
    BY <1>4 DEF HNext, Next, Step, Lookup, MakeRoom, Fill, Stream, Kernel, Project, Hit,
         AllocateFails, FillFails, Publish, TileData, TileScales, TileFails, Multiply,
         MultiplyFails, ResetStats, Return, MakingRoom
  <2> QED
    BY <2>1 DEF Remembered
<1> QED
  BY <1>1, <1>2, <1>3, <1>4

\* What the code leaves when there is room is what an ideal cache would leave.
LEMMA RoomIsMinimal ==
  ASSUME IInv, Remembered, MakingRoom(pc), bytes <= Capacity - Charge[key]
  PROVE  /\ key \in Routed \ Lru!Members(before) /\ Charge[key] <= Capacity
         /\ Order(lru) = Lru!Survivors(before, key)
<1>1. key \in Routed /\ Charge[key] <= Capacity
  BY DEF IInv, TypeOK, Progress, MakingRoom
<1>2. /\ before \in Seq(Routed) /\ Len(lru) <= Len(before) /\ Len(before) \in Nat
      /\ \A i \in 1..Len(lru) : lru[i].key = before[i]
      /\ \A i \in 1..Len(before) : before[i] # key
  BY LenProperties DEF Remembered
<1>3. PICK t : /\ Totals(before, t) /\ t[Len(lru)] = bytes
               /\ Len(lru) < Len(before) => t[Len(lru) + 1] > Capacity - Charge[key]
  BY DEF Remembered
<1>4. /\ Order(lru) \in Seq(Routed) /\ Len(Order(lru)) = Len(lru) /\ Len(lru) \in Nat
      /\ \A i \in 1..Len(lru) : Order(lru)[i] = lru[i].key
  BY StateFacts, OrderShape
<1>5. Lru!Survivors(before, key) = SubSeq(before, 1, Len(lru))
  <2>1. Len(lru) \in 0..Len(before)
    BY <1>2, <1>4
  <2> QED
    BY <1>1, <1>2, <1>3, <2>1, SurvivorsAre
<1>6. /\ SubSeq(before, 1, Len(lru)) \in Seq(Routed)
      /\ Len(SubSeq(before, 1, Len(lru))) = Len(lru)
      /\ \A i \in 1..Len(lru) : SubSeq(before, 1, Len(lru))[i] = before[i]
  <2> DEFINE n == Len(lru)
  <2>1. n \in Nat /\ \A i \in 1..n : before[i] \in Routed
    BY <1>2, <1>4, ElementOfSeq
  <2> HIDE DEF n
  <2>2. /\ SubSeq(before, 1, n) \in Seq(Routed)
        /\ Len(SubSeq(before, 1, n)) = IF 1 <= n THEN n - 1 + 1 ELSE 0
        /\ \A i \in 1..(n - 1 + 1) : SubSeq(before, 1, n)[i] = before[1 + i - 1]
    BY <2>1, SubSeqProperties
  <2>3. n - 1 + 1 = n /\ (~(1 <= n) => n = 0)
    BY <2>1
  <2>4. \A i \in 1..n : 1 + i - 1 = i
    OBVIOUS
  <2>5. Len(SubSeq(before, 1, n)) = n /\ \A i \in 1..n : SubSeq(before, 1, n)[i] = before[i]
    BY <2>2, <2>3, <2>4
  <2> QED
    BY <2>2, <2>5 DEF n
<1>7. Order(lru) = SubSeq(before, 1, Len(lru))
  BY <1>2, <1>4, <1>6, SeqEqual
<1>8. key \notin Lru!Members(before)
  BY <1>2 DEF Lru!Members
<1> QED
  BY <1>1, <1>5, <1>7, <1>8

\* The abstract order, and what a step that changes nothing of the cache leaves alone.
Held == IF MakingRoom(pc) THEN before ELSE Order(lru)
Asked == IF key \in Routed THEN key ELSE NoKey

\* A hit uses a resident projection again.
LEMMA HitReuses == ASSUME IInv, Hit PROVE Lru!Reuse
<1> USE StateFacts
<1>1. PICK i \in 1..Len(lru) : FoundAt(i) /\ lru' = Promote(lru, i)
  BY DEF Hit, FoundAt
<1>2. /\ ~MakingRoom(pc) /\ ~MakingRoom(pc') /\ key \in Routed /\ key' = key /\ hit' = TRUE
  BY DEF Hit, IInv, TypeOK, MakingRoom
<1>3. /\ Order(lru) \in Seq(Routed) /\ Len(Order(lru)) = Len(lru)
      /\ \A j \in 1..Len(lru) : Order(lru)[j] = lru[j].key
  BY OrderShape
<1>4. /\ Promote(lru, i) \in Seq(Entries) /\ Len(Promote(lru, i)) = Len(lru)
      /\ \A j \in 1..Len(lru) :
           Promote(lru, i)[j] = IF j = 1 THEN lru[i] ELSE IF j <= i THEN lru[j - 1] ELSE lru[j]
  BY PromoteShape
<1>5. /\ Promote(Order(lru), i) \in Seq(Routed) /\ Len(Promote(Order(lru), i)) = Len(lru)
      /\ \A j \in 1..Len(lru) :
           Promote(Order(lru), i)[j] =
             IF j = 1 THEN Order(lru)[i] ELSE IF j <= i THEN Order(lru)[j - 1] ELSE Order(lru)[j]
  BY <1>3, PromoteShape
<1>6. /\ Order(lru') \in Seq(Routed) /\ Len(Order(lru')) = Len(lru)
      /\ \A j \in 1..Len(lru) : Order(lru')[j] = lru'[j].key
  BY <1>1, <1>4, OrderShape
<1>7. ASSUME NEW j \in 1..Len(lru) PROVE Order(lru')[j] = Promote(Order(lru), i)[j]
  <2>1. CASE j = 1
    BY <1>1, <1>3, <1>4, <1>5, <1>6, <2>1
  <2>2. CASE j # 1 /\ j <= i
    <3>1. j - 1 \in 1..Len(lru)
      BY <2>2, LenProperties
    <3>2. lru'[j] = lru[j - 1] /\ Promote(Order(lru), i)[j] = Order(lru)[j - 1]
      BY <1>1, <1>4, <1>5, <2>2
    <3> QED
      BY <1>3, <1>6, <3>1, <3>2
  <2>3. CASE j # 1 /\ ~(j <= i)
    <3>1. lru'[j] = lru[j] /\ Promote(Order(lru), i)[j] = Order(lru)[j]
      BY <1>1, <1>4, <1>5, <2>3
    <3> QED
      BY <1>3, <1>6, <3>1
  <2> QED
    BY <2>1, <2>2, <2>3
<1>8. Order(lru') = Promote(Order(lru), i)
  BY <1>5, <1>6, <1>7, SeqEqual
<1>9. Order(lru)[i] = key
  BY <1>1, <1>3 DEF FoundAt
<1> QED
  BY <1>2, <1>3, <1>8, <1>9 DEF Lru!Reuse, Promote

\* An entry that is linked in has taken the place of as few others as possible.
LEMMA PublishBrings == ASSUME IInv, Remembered, Publish PROVE Lru!Bring
<1> USE StateFacts
<1> DEFINE e == [key |-> key, data |-> fill.data, scales |-> key]
<1>1. /\ MakingRoom(pc) /\ ~MakingRoom(pc') /\ key \in Routed /\ key' = key /\ hit' = TRUE
      /\ bytes <= Capacity - Charge[key] /\ lru' = <<e>> \o lru
  BY DEF Publish, IInv, TypeOK, Progress, MakingRoom
<1>2. /\ key \in Routed \ Lru!Members(before) /\ Charge[key] <= Capacity
      /\ Order(lru) = Lru!Survivors(before, key)
  BY <1>1, RoomIsMinimal
<1>3. e \in Entries /\ e.key = key
  BY <1>1 DEF IInv, TypeOK, Entries, Keys
<1> HIDE DEF e
<1>4. /\ <<e>> \o lru \in Seq(Entries) /\ Len(<<e>> \o lru) = Len(lru) + 1
      /\ (<<e>> \o lru)[1] = e
      /\ \A i \in 2..(Len(lru) + 1) : (<<e>> \o lru)[i] = lru[i - 1]
  BY <1>3, PushShape
<1>5. /\ Order(lru) \in Seq(Routed) /\ Len(Order(lru)) = Len(lru) /\ Len(lru) \in Nat
      /\ \A i \in 1..Len(lru) : Order(lru)[i] = lru[i].key
  BY OrderShape
<1>6. /\ <<key>> \o Order(lru) \in Seq(Routed) /\ Len(<<key>> \o Order(lru)) = Len(lru) + 1
      /\ (<<key>> \o Order(lru))[1] = key
      /\ \A i \in 2..(Len(lru) + 1) : (<<key>> \o Order(lru))[i] = Order(lru)[i - 1]
  BY <1>1, <1>5, PushShape
<1>7. /\ Order(lru') \in Seq(Routed) /\ Len(Order(lru')) = Len(lru) + 1
      /\ \A i \in 1..(Len(lru) + 1) : Order(lru')[i] = lru'[i].key
  BY <1>1, <1>4, OrderShape
<1>8. ASSUME NEW i \in 1..(Len(lru) + 1) PROVE Order(lru')[i] = (<<key>> \o Order(lru))[i]
  <2>1. CASE i = 1
    BY <1>1, <1>3, <1>4, <1>6, <1>7, <2>1
  <2>2. CASE i # 1
    <3>1. i \in 2..(Len(lru) + 1) /\ i - 1 \in 1..Len(lru)
      BY <1>5, <2>2
    <3>2. lru'[i] = lru[i - 1] /\ (<<key>> \o Order(lru))[i] = Order(lru)[i - 1]
      BY <1>1, <1>4, <1>6, <3>1
    <3> QED
      BY <1>5, <1>7, <3>1, <3>2
  <2> QED
    BY <2>1, <2>2
<1>9. Order(lru') = <<key>> \o Order(lru)
  BY <1>6, <1>7, <1>8, SeqEqual
<1> QED
  BY <1>1, <1>2, <1>9 DEF Lru!Bring, Lru!CanBring

\* A call that could not fill its entry has made room for it and no more.
LEMMA FailureGivesUp == ASSUME IInv, Remembered, AllocateFails \/ FillFails PROVE Lru!GiveUp
<1>1. /\ MakingRoom(pc) /\ ~MakingRoom(pc') /\ key \in Routed /\ lru' = lru
      /\ (key' = key \/ key' = NoKey) /\ hit = FALSE /\ hit' = FALSE
  BY DEF AllocateFails, FillFails, Return, IInv, TypeOK, Progress, MakingRoom
<1>2. bytes <= Capacity - Charge[key]
  <2>1. bytes \in Nat /\ Capacity \in Nat /\ Charge[key] \in Nat
    BY <1>1, StateFacts
  <2>2. CASE AllocateFails
    <3>1. ~(bytes > Capacity - Charge[key])
      BY <2>2 DEF AllocateFails, NeedsRoom
    <3> QED
      BY <2>1, <3>1
  <2>3. CASE FillFails
    BY <2>3 DEF FillFails, IInv, Progress
  <2> QED
    BY <2>2, <2>3
<1>3. /\ key \in Routed \ Lru!Members(before) /\ Charge[key] <= Capacity
      /\ Order(lru) = Lru!Survivors(before, key)
  BY <1>1, <1>2, RoomIsMinimal
<1>4. NoKey \notin Routed
  BY StateFacts
<1> QED
  BY <1>1, <1>3, <1>4 DEF Lru!GiveUp, Lru!CanBring

\* Every other step is one the caller sees, or no step of the cache at all.
LEMMA OthersImplement ==
  ASSUME IInv, Remembered, HNext, ~(Hit \/ Publish \/ AllocateFails \/ FillFails)
  PROVE  \/ \E k \in Routed : Lru!Ask(k)
         \/ Lru!Done
         \/ Held' = Held /\ Asked' = Asked /\ hit' = hit
<1> USE StateFacts
<1>1. CASE \E k \in Keys : Project(k)
  <2>1. PICK k \in Keys : Project(k)
    BY <1>1
  <2>2. /\ key = NoKey /\ key' = k /\ lru' = lru /\ hit' = hit
        /\ ~MakingRoom(pc) /\ ~MakingRoom(pc') /\ NoKey \notin Routed
    BY <2>1 DEF Project, MakingRoom, IInv, TypeOK
  <2> QED
    BY <2>2 DEF Lru!Ask, Held, Asked
<1>2. CASE TileFails \/ MultiplyFails \/ (Multiply /\ tile = Tiles[key])
  <2>1. /\ key' = NoKey /\ hit' = FALSE /\ lru' = lru
        /\ ~MakingRoom(pc) /\ ~MakingRoom(pc') /\ NoKey \notin Routed
    BY <1>2 DEF TileFails, MultiplyFails, Multiply, Return, MakingRoom
  <2> QED
    BY <2>1 DEF Lru!Done
<1>3. CASE Miss
  BY <1>3 DEF Miss, HNext, Held, Asked, MakingRoom
<1>4. CASE Evict \/ Allocate \/ FillData
  BY <1>4 DEF Evict, Allocate, FillData, HNext, Held, Asked, MakingRoom
<1>5. CASE TileData \/ TileScales \/ ResetStats \/ (Multiply /\ tile # Tiles[key])
  <2>1. /\ key' = key /\ hit' = hit /\ lru' = lru /\ ~MakingRoom(pc) /\ ~MakingRoom(pc')
    BY <1>5 DEF TileData, TileScales, ResetStats, Multiply, MakingRoom
  <2> QED
    BY <2>1 DEF Held, Asked
<1> QED
  BY <1>1, <1>2, <1>3, <1>4, <1>5
     DEF HNext, Next, Step, Lookup, MakeRoom, Fill, Stream, Kernel

\* inkling_project with its list, its evictions and its failures implements LruCache.
THEOREM LruImplemented == HSpec => ImplementsLru
<1>1. HInit => Init /\ Remembered /\ Lru!Init
  <2> SUFFICES ASSUME HInit PROVE Remembered /\ Lru!Init
    BY DEF HInit
  <2>1. pc = "idle" /\ lru = <<>> /\ key = NoKey /\ hit = FALSE
    BY DEF HInit, Init
  <2>2. Order(<<>>) = <<>> /\ NoKey \notin Routed
    BY EmptySeq, ConstantsOK DEF Order, Keys
  <2> QED
    BY <2>1, <2>2 DEF Remembered, MakingRoom, Lru!Init
<1>2. [HNext]_<<vars, before>> => [Next]_vars
  BY DEF HNext
<1>3. IInv /\ Remembered /\ [HNext]_<<vars, before>> => Remembered'
  <2> SUFFICES ASSUME IInv, Remembered, UNCHANGED <<vars, before>> PROVE Remembered'
    BY RememberedKept
  <2> QED
    BY DEF vars, stats, Remembered, MakingRoom
<1>4. IInv /\ Remembered /\ [HNext]_<<vars, before>> => [Lru!Next]_<<Held, Asked, hit>>
  <2> SUFFICES ASSUME IInv, Remembered, [HNext]_<<vars, before>>
               PROVE  Lru!Next \/ (Held' = Held /\ Asked' = Asked /\ hit' = hit)
    OBVIOUS
  <2>1. CASE UNCHANGED <<vars, before>>
    BY <2>1 DEF vars, stats, Held, Asked, MakingRoom
  <2>2. CASE HNext
    BY <2>2, HitReuses, PublishBrings, FailureGivesUp, OthersImplement DEF Lru!Next
  <2> QED
    BY <2>1, <2>2
<1>5. HSpec => []IInv
  BY <1>1, <1>2, Invariance, PTL DEF HSpec, Spec
<1> QED
  BY <1>1, <1>3, <1>4, <1>5, PTL DEF HSpec, ImplementsLru, Lru!Spec, Held, Asked
===============================================================================
