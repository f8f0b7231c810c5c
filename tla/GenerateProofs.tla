---------------------------- MODULE GenerateProofs ----------------------------
(***************************************************************************)
(* The sampler draws what its options call for, on every row, and the      *)
(* generation loop returns what its request defines, whatever happened     *)
(* before.                                                                 *)
(*                                                                         *)
(* The first half is about values: inkling_sample goes through a ranked    *)
(* array with running sums, Called speaks of tokens and sets of tokens.    *)
(* The ranking translates one into the other: the tokens ahead of the one  *)
(* at place i are those at the places before i, and weigh what the running *)
(* sum has reached there.                                                  *)
(***************************************************************************)
EXTENDS Generate, DataLemmas, SequenceTheorems

Betters(logits) ==
  {pair \in (DOMAIN logits) \X (DOMAIN logits) : Better(logits, pair[1], pair[2])}

\* Rows of integers are ranked by rank_candidate.
LEMMA BetterRanks ==
  ASSUME NEW n \in Nat, NEW logits \in [1..n -> Int]
  PROVE  /\ Ranks(Betters(logits), 1..n)
         /\ \A j, k \in 1..n : <<j, k>> \in Betters(logits) <=> Better(logits, j, k)
<1>1. \A j, k \in 1..n : <<j, k>> \in Betters(logits) <=> Better(logits, j, k)
  BY DEF Betters
<1>2. \A x \in 1..n : <<x, x>> \notin Betters(logits)
  BY <1>1 DEF Better
<1>3. \A x, y, z \in 1..n :
        Better(logits, x, y) /\ Better(logits, y, z) => Better(logits, x, z)
  BY DEF Better
<1>4. \A x, y \in 1..n : x = y \/ Better(logits, x, y) \/ Better(logits, y, x)
  BY DEF Better
<1> QED
  BY <1>1, <1>2, <1>3, <1>4 DEF Ranks

\* The ranked row: each place once, the better first, and what is ahead of a place.
LEMMA RankedInOrder ==
  ASSUME NEW n \in Nat, NEW logits \in [1..n -> Int]
  PROVE  LET order == Ranked(logits) IN
         /\ order \in [1..n -> 1..n]
         /\ \A i, j \in 1..n : order[i] = order[j] => i = j
         /\ \A t \in 1..n : \E i \in 1..n : order[i] = t
         /\ \A i, j \in 1..n : Better(logits, order[i], order[j]) <=> i < j
         /\ \A i \in 1..n : /\ Ahead(logits, order[i]) = Listed(order, i - 1)
                            /\ Cardinality(Ahead(logits, order[i])) = i - 1
<1> DEFINE R == Betters(logits)
           order == Ranked(logits)
<1>1. Ranks(R, 1..n) /\ \A j, k \in 1..n : <<j, k>> \in R <=> Better(logits, j, k)
  BY BetterRanks
<1> HIDE DEF R
<1>2. \E o \in [1..n -> 1..n] : \A i, j \in 1..n : i < j => Better(logits, o[i], o[j])
  <2>1. PICK o : InOrder(o, R, n)
    BY <1>1, Arrangement
  <2>2. o \in [1..n -> 1..n] /\ \A i, j \in 1..n : i < j => <<o[i], o[j]>> \in R
    BY <2>1 DEF InOrder
  <2>3. \A i \in 1..n : o[i] \in 1..n
    BY <2>2
  <2> QED
    BY <1>1, <2>2, <2>3
<1>3. /\ order \in [1..n -> 1..n]
      /\ \A i, j \in 1..n : i < j => Better(logits, order[i], order[j])
  BY <1>2 DEF Ranked
<1> HIDE DEF order
<1>4. \A i \in 1..n : order[i] \in 1..n
  BY <1>3
<1>5. InOrder(order, R, n)
  BY <1>1, <1>3, <1>4 DEF InOrder
<1>6. /\ \A i, j \in 1..n : order[i] = order[j] => i = j
      /\ \A t \in 1..n : \E i \in 1..n : order[i] = t
      /\ \A i, j \in 1..n : <<order[i], order[j]>> \in R <=> i < j
  BY <1>1, <1>5, ListsEach
<1>7. ASSUME NEW i \in 1..n
      PROVE  /\ Ahead(logits, order[i]) = Listed(order, i - 1)
             /\ Cardinality(Ahead(logits, order[i])) = i - 1
  <2>1. Ahead(logits, order[i]) = RankedBefore(R, n, order[i])
    BY <1>1, <1>4 DEF Ahead, RankedBefore
  <2> QED
    BY <1>1, <1>5, <2>1, PlaceInOrder
<1>8. \A i, j \in 1..n : Better(logits, order[i], order[j]) <=> i < j
  BY <1>1, <1>4, <1>6
<1> QED
  BY <1>3, <1>6, <1>7, <1>8 DEF order

\* A greedy draw is the first of the highest logits.
LEMMA GreedyDraw ==
  ASSUME NEW n \in Nat \ {0}, NEW logits \in [1..n -> Int]
  PROVE  /\ Best(logits) \in 1..n
         /\ Best(logits) = CHOOSE t \in DOMAIN logits : Ahead(logits, t) = {}
<1> DEFINE order == Ranked(logits)
           b == order[1]
           K == {k \in DOMAIN logits : \A j \in DOMAIN logits : logits[j] <= logits[k]}
<1>1. /\ b \in 1..n
      /\ \A t \in 1..n \ {b} : Better(logits, b, t)
      /\ Ahead(logits, b) = {}
  <2>1. /\ order \in [1..n -> 1..n]
        /\ \A t \in 1..n : \E i \in 1..n : order[i] = t
        /\ \A i, j \in 1..n : Better(logits, order[i], order[j]) <=> i < j
        /\ \A i \in 1..n : Ahead(logits, order[i]) = Listed(order, i - 1)
    BY RankedInOrder
  <2> HIDE DEF order
  <2>2. 1 \in 1..n /\ \A i \in 1..n : i = 1 \/ 1 < i
    OBVIOUS
  <2>3. Ahead(logits, b) = {}
    BY <2>1, <2>2 DEF Listed
  <2> QED
    BY <2>1, <2>2, <2>3
<1> HIDE DEF order, b
<1>2. b \in K /\ \A k \in K : b <= k
  BY <1>1 DEF Better
<1>3. Min(K) = b
  <2>1. K \in SUBSET Nat /\ K # {}
    BY <1>2
  <2> HIDE DEF K
  <2>2. Min(K) \in K /\ Min(K) <= b
    BY <1>2, <2>1, LeastIs
  <2>3. Min(K) \in Nat /\ b \in Nat /\ b <= Min(K)
    BY <1>2, <2>1, <2>2
  <2> QED
    BY <2>2, <2>3
<1>4. \A t \in DOMAIN logits : Ahead(logits, t) = {} => t = b
  BY <1>1 DEF Ahead
<1>5. b = CHOOSE t \in DOMAIN logits : Ahead(logits, t) = {}
  BY <1>1, <1>4
<1> QED
  BY <1>1, <1>3, <1>5 DEF Best

-------------------------------------------------------------------------------
\* Comparing products with a common factor.
LEMMA Products ==
  ASSUME NEW a \in Nat, NEW b \in Nat, NEW w \in Nat
  PROVE  /\ a * w \in Nat
         /\ a <= b => a * w <= b * w
         /\ a < b /\ w > 0 => a * w < b * w
<1>1. a * w \in Nat
  OBVIOUS
<1>2. a <= b => a * w <= b * w
  OBVIOUS
<1>3. a < b /\ w > 0 => a * w < b * w
  OBVIOUS
<1> QED
  BY <1>1, <1>2, <1>3

\* Running sums of masses that start with a positive one.
LEMMA RunningSums ==
  ASSUME NEW k \in Nat \ {0}, NEW masses \in [1..k -> Nat], masses[1] > 0
  PROVE  /\ Upto(masses, 0) = 0
         /\ \A i \in 0..k : Upto(masses, i) \in Nat
         /\ \A i \in 1..k : Upto(masses, i) = Upto(masses, i - 1) + masses[i]
         /\ \A i, j \in 0..k : i <= j => Upto(masses, i) <= Upto(masses, j)
         /\ \A i \in 1..k : Upto(masses, i) > 0
<1>1. \A S : Weight(masses, S) = SumOver(masses, S)
  BY DEF Weight, SumOver
<1>2. \A i \in 0..k : Upto(masses, i) = SumOver(masses, 1..i)
  BY <1>1 DEF Upto
<1>3. \A i \in 1..k : masses[i] \in Nat
  OBVIOUS
<1>4. Upto(masses, 0) = 0
  BY <1>2, SumOfNothing
<1>5. \A i \in 0..k : Upto(masses, i) \in Nat
  <2> SUFFICES ASSUME NEW i \in 0..k PROVE SumOver(masses, 1..i) \in Nat
    BY <1>2
  <2> QED
    BY <1>3, SumsType
<1>6. \A i, j \in 0..k : i <= j => Upto(masses, i) <= Upto(masses, j)
  <2> SUFFICES ASSUME NEW i \in 0..k, NEW j \in i..k
               PROVE SumOver(masses, 1..i) <= SumOver(masses, 1..j)
    BY <1>2
  <2> QED
    BY <1>3, SumsGrow
<1>7. ASSUME NEW i \in 1..k PROVE Upto(masses, i) = Upto(masses, i - 1) + masses[i]
  <2> DEFINE h == i - 1
  <2>1. h \in Nat /\ h \in 0..k /\ h + 1 = i /\ \A c \in 1..(h + 1) : masses[c] \in Nat
    OBVIOUS
  <2> HIDE DEF h
  <2>2. SumOver(masses, 1..(h + 1)) = SumOver(masses, 1..h) + masses[h + 1]
    BY <2>1, SumOfNext
  <2>3. Upto(masses, i) = Upto(masses, h) + masses[i]
    BY <1>2, <2>1, <2>2
  <2> QED
    BY <2>3 DEF h
<1>8. ASSUME NEW i \in 1..k PROVE Upto(masses, i) > 0
  <2>1. Upto(masses, 1) = Upto(masses, 1 - 1) + masses[1]
    BY <1>7
  <2>2. Upto(masses, 1) = masses[1]
    BY <1>4, <2>1
  <2> QED
    BY <1>5, <1>6, <2>2
<1> QED
  BY <1>4, <1>5, <1>6, <1>7, <1>8

\* Masses are a sequence of top_k numbers.
LEMMA MassesLength == ASSUME NEW k \in Nat, NEW masses \in [1..k -> Nat] PROVE Len(masses) = k
OBVIOUS

\* The nucleus keeps a place exactly if the places before it fall short of top_p.
LEMMA RetainedIs ==
  ASSUME NEW k \in Nat \ {0}, NEW masses \in [1..k -> Nat], masses[1] > 0,
         NEW top_p \in 1..Whole
  PROVE  /\ Retained(masses, top_p) \in 1..k
         /\ \A i \in 1..k : i <= Retained(masses, top_p) <=>
              \/ top_p = Whole
              \/ Upto(masses, i - 1) * Whole < top_p * Upto(masses, k)
<1> DEFINE S(i) == Upto(masses, i)
           enough == {m \in DOMAIN masses : S(m) * Whole >= top_p * S(Len(masses))}
           kept == Retained(masses, top_p)
<1>1. Len(masses) = k /\ DOMAIN masses = 1..k
  BY MassesLength
<1>2. /\ S(0) = 0 /\ \A i \in 0..k : S(i) \in Nat
      /\ \A i, j \in 0..k : i <= j => S(i) <= S(j)
      /\ S(k) > 0
  BY RunningSums
<1>3. kept = IF top_p = Whole THEN k ELSE Min(enough)
  BY <1>1 DEF Retained
<1>4. enough = {m \in 1..k : S(m) * Whole >= top_p * S(k)}
  BY <1>1
<1> HIDE DEF S, enough, kept
<1>5. Whole \in Nat /\ top_p \in Nat /\ top_p > 0 /\ top_p <= Whole /\ k \in 0..k
  BY SamplerAssumption
<1>6. top_p * S(k) \in Nat /\ top_p * S(k) <= S(k) * Whole /\ top_p * S(k) > 0
  <2>1. S(k) \in Nat
    BY <1>2
  <2>2. top_p * S(k) <= Whole * S(k)
    BY <1>5, <2>1, Products
  <2>3. 0 * S(k) < top_p * S(k)
    BY <1>2, <1>5, <2>1, Products
  <2>4. Whole * S(k) = S(k) * Whole /\ 0 * S(k) = 0 /\ top_p * S(k) \in Nat
    BY <1>5, <2>1
  <2> QED
    BY <2>2, <2>3, <2>4
<1>7. CASE top_p = Whole
  BY <1>3, <1>7 DEF kept
<1>8. CASE top_p # Whole
  <2>1. k \in enough /\ enough \in SUBSET Nat
    BY <1>4, <1>6
  <2>2. kept \in enough /\ \A m \in enough : kept <= m
    BY <1>3, <1>8, <2>1, LeastIs
  <2>3. kept \in 1..k
    BY <1>4, <2>2
  <2>4. ASSUME NEW i \in 1..k
        PROVE  i <= kept <=> S(i - 1) * Whole < top_p * S(k)
    <3> DEFINE h == i - 1
    <3>1. h \in 0..k /\ S(h) \in Nat /\ S(h) * Whole \in Nat
      BY <1>2, <1>5, Products
    <3>2. CASE h = 0
      <4>1. S(h) * Whole = 0
        BY <1>2, <1>5, <3>2
      <4> QED
        BY <1>6, <2>3, <3>2, <4>1
    <3>3. CASE h # 0 /\ h < kept
      <4>1. h \in 1..k /\ h \notin enough
        BY <2>2, <2>3, <3>3
      <4> QED
        BY <1>4, <1>6, <2>3, <3>1, <3>3, <4>1
    <3>4. CASE h >= kept
      <4>1. S(kept) <= S(h) /\ S(kept) \in Nat
        BY <1>2, <2>3, <3>1, <3>4
      <4>2. S(kept) * Whole <= S(h) * Whole
        BY <1>5, <3>1, <4>1, Products
      <4>3. S(kept) * Whole >= top_p * S(k) /\ S(kept) * Whole \in Nat
        BY <1>4, <1>5, <2>2, <4>1, Products
      <4> QED
        BY <1>6, <2>3, <3>1, <3>4, <4>2, <4>3
    <3> QED
      BY <2>3, <3>2, <3>3, <3>4
  <2> QED
    BY <1>8, <2>3, <2>4 DEF S, kept
<1> QED
  BY <1>7, <1>8

\* The word falls on the place where the running sum passes its share.
LEMMA PlaceIs ==
  ASSUME NEW k \in Nat \ {0}, NEW masses \in [1..k -> Nat], masses[1] > 0,
         NEW kept \in 1..k, NEW word \in 0..(Words - 1)
  PROVE  LET c == Place(masses, kept, word) IN
         /\ c \in 1..kept
         /\ Upto(masses, c - 1) * Words <= word * Upto(masses, kept)
         /\ word * Upto(masses, kept) < Upto(masses, c) * Words
<1> DEFINE S(i) == Upto(masses, i)
           target == word * S(kept)
           past == {i \in 1..kept : S(i) * Words > target}
           weighty == {i \in 1..kept : masses[i] > 0}
           beyond == {i \in weighty : S(i) * Words > target}
           c == Min(past)
<1>1. /\ S(0) = 0 /\ \A i \in 0..k : S(i) \in Nat
      /\ \A i \in 1..k : S(i) = S(i - 1) + masses[i]
      /\ S(kept) > 0
  BY RunningSums
<1>2. Words \in Nat /\ Words > 0 /\ word \in Nat /\ word < Words /\ kept \in 0..k
  BY SamplerAssumption
<1>3. Place(masses, kept, word) = IF beyond = {} THEN Max(weighty) ELSE Min(beyond)
  BY DEF Place
<1> HIDE DEF S
<1>4. target \in Nat /\ target < S(kept) * Words
  <2>1. word * S(kept) < Words * S(kept) /\ word * S(kept) \in Nat
    BY <1>1, <1>2, Products
  <2>2. Words * S(kept) = S(kept) * Words
    BY <1>1, <1>2
  <2> QED
    BY <2>1, <2>2
<1> HIDE DEF target
<1>5. kept \in past /\ past \in SUBSET Nat
  BY <1>4
<1> HIDE DEF past
<1>6. c \in past /\ \A x \in past : c <= x
  BY <1>5, LeastIs
<1> HIDE DEF c
<1>7. c \in 1..kept /\ S(c) * Words > target
  BY <1>6 DEF past
<1>8. S(c - 1) * Words <= target
  <2> DEFINE h == c - 1
  <2>1. h \in 0..k /\ S(h) \in Nat
    BY <1>1, <1>7
  <2>2. CASE h = 0
    BY <1>1, <1>2, <1>4, <2>2
  <2>3. CASE h # 0
    <3>1. h \in 1..kept /\ h \notin past
      BY <1>6, <1>7, <2>3
    <3>2. ~(S(h) * Words > target)
      BY <3>1 DEF past
    <3>3. S(h) * Words \in Nat
      BY <1>2, <2>1, Products
    <3> QED
      BY <1>4, <3>2, <3>3
  <2> QED
    BY <2>2, <2>3
<1>9. masses[c] > 0
  <2> SUFFICES ASSUME masses[c] = 0 PROVE FALSE
    BY <1>7
  <2>1. S(c) = S(c - 1) /\ S(c) \in Nat
    BY <1>1, <1>7
  <2>2. S(c) * Words <= target /\ S(c) * Words \in Nat
    BY <1>2, <1>8, <2>1, Products
  <2> QED
    BY <1>4, <1>7, <2>2
<1>10. beyond \in SUBSET Nat /\ c \in beyond /\ \A x \in beyond : c <= x
  <2>1. beyond \subseteq past /\ c \in beyond
    BY <1>7, <1>9 DEF past
  <2> HIDE DEF beyond
  <2> QED
    BY <1>5, <1>6, <2>1
<1>11. Min(beyond) = c
  <2> HIDE DEF beyond
  <2>1. Min(beyond) \in beyond /\ Min(beyond) <= c
    BY <1>10, LeastIs
  <2>2. Min(beyond) \in Nat /\ c \in Nat /\ c <= Min(beyond)
    BY <1>10, <2>1
  <2> QED
    BY <2>1, <2>2
<1>12. Place(masses, kept, word) = c
  <2>1. beyond # {}
    BY <1>10
  <2> HIDE DEF beyond, weighty
  <2> QED
    BY <1>3, <1>11, <2>1
<1> QED
  BY <1>7, <1>8, <1>12 DEF S, target

\* No other place has that property.
LEMMA OnePlace ==
  ASSUME NEW k \in Nat \ {0}, NEW masses \in [1..k -> Nat], masses[1] > 0,
         NEW c \in 1..k, NEW d \in 1..k, NEW target \in Nat,
         Upto(masses, c - 1) * Words <= target, target < Upto(masses, c) * Words,
         Upto(masses, d - 1) * Words <= target, target < Upto(masses, d) * Words
  PROVE  c = d
<1>1. ASSUME NEW i \in 1..k, NEW j \in 1..k, i < j,
             target < Upto(masses, i) * Words, Upto(masses, j - 1) * Words <= target
      PROVE  FALSE
  <2> DEFINE h == j - 1
  <2>1. i \in 0..k /\ h \in 0..k /\ i <= h
    BY <1>1
  <2>2. Upto(masses, i) <= Upto(masses, h) /\ Upto(masses, i) \in Nat /\ Upto(masses, h) \in Nat
    <3> HIDE DEF h
    <3> QED
      BY <2>1, RunningSums
  <2> HIDE DEF h
  <2>3. /\ Upto(masses, i) * Words <= Upto(masses, h) * Words
        /\ Upto(masses, i) * Words \in Nat /\ Upto(masses, h) * Words \in Nat
    BY <2>2, Products, SamplerAssumption
  <2>4. Upto(masses, h) * Words <= target
    BY <1>1 DEF h
  <2> QED
    BY <1>1, <2>3, <2>4
<1>2. c = d \/ c < d \/ d < c
  OBVIOUS
<1> QED
  BY <1>1, <1>2

\* The masses of the ranked candidates are the weights of their tokens.
LEMMA MassesAreWeights ==
  ASSUME NEW n \in Nat \ {0}, NEW logits \in [1..n -> Int],
         NEW options, options.top_k \in 1..n, Weighable(logits, options.temperature)
  PROVE  LET order == Ranked(logits)
             masses == Masses(logits, options)
             weights == Weights(logits, options.temperature)
         IN /\ masses \in [1..options.top_k -> Nat] /\ masses[1] > 0
            /\ \A i \in 1..options.top_k : weights[order[i]] = masses[i]
<1> DEFINE order == Ranked(logits)
           k == options.top_k
           highest == {logits[t] : t \in DOMAIN logits}
           peak == Max(highest)
<1>1. /\ order \in [1..n -> 1..n]
      /\ \A t \in 1..n : \E i \in 1..n : order[i] = t
      /\ \A i, j \in 1..n : Better(logits, order[i], order[j]) <=> i < j
  BY RankedInOrder
<1>2. Masses(logits, options) =
        [i \in 1..k |-> Mass(logits[order[1]] - logits[order[i]], options.temperature)]
  BY DEF Masses
<1>3. Weights(logits, options.temperature) =
        [t \in DOMAIN logits |-> Mass(peak - logits[t], options.temperature)]
  BY DEF Weights
<1> HIDE DEF order
<1>4. order[1] \in 1..n /\ \A t \in 1..n : logits[t] <= logits[order[1]]
  <2>1. 1 \in 1..n /\ \A i \in 1..n : i = 1 \/ 1 < i
    OBVIOUS
  <2>2. ASSUME NEW i \in 1..n PROVE logits[order[i]] <= logits[order[1]]
    <3>1. logits[order[i]] \in Int /\ logits[order[1]] \in Int
      BY <1>1, <2>1
    <3>2. CASE 1 < i
      <4>1. Better(logits, order[1], order[i])
        BY <1>1, <2>1, <3>2
      <4>2. logits[order[1]] > logits[order[i]] \/ logits[order[1]] = logits[order[i]]
        BY <4>1 DEF Better
      <4> QED
        BY <3>1, <4>2
    <3> QED
      BY <2>1, <3>1, <3>2
  <2> QED
    BY <1>1, <2>1, <2>2
<1>5. peak = logits[order[1]]
  <2>1. /\ logits[order[1]] \in highest /\ \A x \in highest : x <= logits[order[1]]
        /\ highest \in SUBSET Int
    BY <1>4
  <2> DEFINE top == logits[order[1]]
  <2> HIDE DEF highest, top
  <2>2. peak \in highest /\ peak >= top
    BY <2>1 DEF Max, top
  <2>3. peak \in Int /\ top \in Int /\ peak <= top
    BY <2>1, <2>2 DEF top
  <2>4. peak = top
    BY <2>2, <2>3
  <2> QED
    BY <2>4 DEF top
<1> HIDE DEF peak
<1>6. ASSUME NEW i \in 1..k
      PROVE  /\ order[i] \in 1..n
             /\ Mass(logits[order[1]] - logits[order[i]], options.temperature) \in Nat
             /\ i = 1 => Mass(logits[order[1]] - logits[order[i]], options.temperature) > 0
  <2>1. order[i] \in 1..n
    <3>1. i \in 1..n
      OBVIOUS
    <3> QED
      BY <1>1, <3>1
  <2>2. logits[order[1]] >= logits[order[i]] /\ (i = 1 => logits[order[1]] = logits[order[i]])
    BY <1>4, <2>1
  <2> QED
    BY <1>4, <2>1, <2>2 DEF Weighable
<1>7. Masses(logits, options) \in [1..k -> Nat] /\ Masses(logits, options)[1] > 0
  <2>1. 1 \in 1..k
    OBVIOUS
  <2> QED
    BY <1>2, <1>6, <2>1
<1>8. \A i \in 1..k : Weights(logits, options.temperature)[order[i]] = Masses(logits, options)[i]
  BY <1>2, <1>3, <1>5, <1>6
<1> QED
  BY <1>7, <1>8 DEF order

\* Sets of tokens weigh what the running sum has reached: those at the first places,
\* those ahead of a place, the top_k and the nucleus.
LEMMA Translation ==
  ASSUME NEW n \in Nat \ {0}, NEW logits \in [1..n -> Int],
         NEW options, options.top_k \in 1..n, options.top_p \in 1..Whole,
         Weighable(logits, options.temperature)
  PROVE  LET order == Ranked(logits)
             masses == Masses(logits, options)
             weights == Weights(logits, options.temperature)
             kept == Retained(masses, options.top_p)
         IN /\ \A i \in 1..options.top_k :
                 /\ Weight(weights, Ahead(logits, order[i])) = Upto(masses, i - 1)
                 /\ Weight(weights, Ahead(logits, order[i]) \cup {order[i]}) = Upto(masses, i)
            /\ Nucleus(logits, options) = Listed(order, kept)
            /\ Weight(weights, Nucleus(logits, options)) = Upto(masses, kept)
<1> DEFINE order == Ranked(logits)
           k == options.top_k
           masses == Masses(logits, options)
           weights == Weights(logits, options.temperature)
           kept == Retained(masses, options.top_p)
           kth == {t \in DOMAIN logits : Cardinality(Ahead(logits, t)) < k}
<1>1. /\ order \in [1..n -> 1..n]
      /\ \A i, j \in 1..n : order[i] = order[j] => i = j
      /\ \A t \in 1..n : \E i \in 1..n : order[i] = t
      /\ \A i \in 1..n : /\ Ahead(logits, order[i]) = Listed(order, i - 1)
                         /\ Cardinality(Ahead(logits, order[i])) = i - 1
  BY RankedInOrder
<1>2. /\ masses \in [1..k -> Nat] /\ masses[1] > 0
      /\ \A i \in 1..k : weights[order[i]] = masses[i]
  BY MassesAreWeights
<1>3. Nucleus(logits, options) =
        {t \in kth : \/ options.top_p = Whole
                     \/ Weight(weights, Ahead(logits, t)) * Whole < options.top_p * Weight(weights, kth)}
  BY DEF Nucleus
<1>4. k \in Nat \ {0} /\ \A i \in 1..k : i \in 1..n
  OBVIOUS
<1>5. /\ kept \in 1..k
      /\ \A i \in 1..k : i <= kept <=>
           \/ options.top_p = Whole
           \/ Upto(masses, i - 1) * Whole < options.top_p * Upto(masses, k)
  <2> HIDE DEF masses, k
  <2> QED
    BY <1>2, <1>4, RetainedIs
<1> HIDE DEF order, masses, weights, kept
<1>0. k \in Nat /\ Carries(order, k, weights, masses)
  <2>1. \A i, j \in 1..k : order[i] = order[j] => i = j
    BY <1>1, <1>4
  <2>2. \A i \in 1..k : weights[order[i]] = masses[i] /\ masses[i] \in Nat
    BY <1>2
  <2> QED
    BY <1>4, <2>1, <2>2 DEF Carries
<1>6. ASSUME NEW m \in 0..k PROVE Weight(weights, Listed(order, m)) = Upto(masses, m)
  <2> HIDE DEF k, kth
  <2>1. SumOver(weights, Listed(order, m)) = SumOver(masses, 1..m)
    BY <1>0, SumMoved
  <2> QED
    BY <2>1 DEF Upto, Weight, SumOver
<1>7. ASSUME NEW i \in 1..k
      PROVE  /\ Weight(weights, Ahead(logits, order[i])) = Upto(masses, i - 1)
             /\ Weight(weights, Ahead(logits, order[i]) \cup {order[i]}) = Upto(masses, i)
  <2>1. Ahead(logits, order[i]) = Listed(order, i - 1)
    BY <1>1, <1>4
  <2>0. i - 1 \in 0..k /\ i \in 0..k
    BY <1>4
  <2>2. Listed(order, i - 1) \cup {order[i]} = Listed(order, i)
    <3>1. \A j \in 1..i : j \in 1..(i - 1) \/ j = i
      OBVIOUS
    <3>2. i \in 1..i /\ \A j \in 1..(i - 1) : j \in 1..i
      OBVIOUS
    <3> QED
      BY <3>1, <3>2 DEF Listed
  <2> HIDE DEF k, kth
  <2> QED
    BY <1>6, <2>0, <2>1, <2>2
<1>8. kth = Listed(order, k)
  <2>1. ASSUME NEW t \in kth PROVE t \in Listed(order, k)
    <3>0. t \in 1..n /\ Cardinality(Ahead(logits, t)) < k
      OBVIOUS
    <3>1. PICK i \in 1..n : order[i] = t
      BY <1>1, <3>0
    <3>2. i - 1 < k
      BY <1>1, <3>0, <3>1
    <3>3. i \in 1..k
      BY <1>4, <3>2
    <3> QED
      BY <3>1, <3>3 DEF Listed
  <2>2. ASSUME NEW i \in 1..k PROVE order[i] \in kth
    <3>1. i \in 1..n /\ i - 1 < k
      BY <1>4
    <3>2. order[i] \in 1..n /\ Cardinality(Ahead(logits, order[i])) < k
      BY <1>1, <3>1
    <3> QED
      BY <3>2
  <2> HIDE DEF k, kth
  <2> QED
    BY <2>1, <2>2 DEF Listed
<1>9. Nucleus(logits, options) = Listed(order, kept)
  <2>1. Weight(weights, kth) = Upto(masses, k)
    <3>1. k \in 0..k
      BY <1>4
    <3> QED
      BY <1>6, <1>8, <3>1
  <2> HIDE DEF kth
  <2>2. ASSUME NEW i \in 1..k
        PROVE  order[i] \in Nucleus(logits, options) <=> i <= kept
    <3>1. order[i] \in kth
      BY <1>8 DEF Listed
    <3> QED
      BY <1>3, <1>5, <1>7, <2>1, <3>1
  <2>3. ASSUME NEW t \in Nucleus(logits, options) PROVE t \in Listed(order, kept)
    <3>0. t \in Listed(order, k)
      BY <1>3, <1>8
    <3>1. PICK i \in 1..k : t = order[i]
      BY <3>0 DEF Listed
    <3>2. i <= kept
      BY <2>2, <3>1
    <3>3. i \in 1..kept
      BY <1>4, <1>5, <3>2
    <3> QED
      BY <3>1, <3>3 DEF Listed
  <2>4. ASSUME NEW i \in 1..kept PROVE order[i] \in Nucleus(logits, options)
    <3>1. i \in 1..k /\ i <= kept
      BY <1>5
    <3> QED
      BY <2>2, <3>1
  <2> QED
    BY <2>3, <2>4 DEF Listed
<1>10. Weight(weights, Nucleus(logits, options)) = Upto(masses, kept)
  <2>1. kept \in 0..k
    BY <1>5
  <2> QED
    BY <1>6, <1>9, <2>1
<1> QED
  BY <1>7, <1>9, <1>10 DEF order, masses, weights, kept

\* inkling_sample() draws the token that its options and the word call for: on rows
\* of any width, with ties, with masses that vanish, for every top_k, top_p and word,
\* and the token is one of the row.
THEOREM SamplerIsRight ==
  ASSUME NEW n \in Nat \ {0}, NEW logits \in [1..n -> Int], NEW options,
         options.top_k \in 1..n, options.top_p \in 1..Whole,
         options.temperature # 0 => Weighable(logits, options.temperature),
         NEW word, options.temperature # 0 => word \in 0..(Words - 1)
  PROVE  /\ Sample(logits, options, word) = Called(logits, options, word)
         /\ Sample(logits, options, word) \in 0..(n - 1)
<1>1. CASE options.temperature = 0
  <2>1. Sample(logits, options, word) = Best(logits) - 1
    BY <1>1 DEF Sample
  <2>2. Called(logits, options, word) = (CHOOSE t \in DOMAIN logits : Ahead(logits, t) = {}) - 1
    BY <1>1 DEF Called
  <2>3. Best(logits) \in 1..n /\ (CHOOSE t \in DOMAIN logits : Ahead(logits, t) = {}) = Best(logits)
    BY GreedyDraw
  <2> DEFINE best == Best(logits)
  <2> HIDE DEF best
  <2>4. best \in 1..n => best - 1 \in 0..(n - 1)
    OBVIOUS
  <2> QED
    BY <2>1, <2>2, <2>3, <2>4 DEF best
<1>2. CASE options.temperature # 0
  <2> DEFINE order == Ranked(logits)
             k == options.top_k
             masses == Masses(logits, options)
             weights == Weights(logits, options.temperature)
             kept == Retained(masses, options.top_p)
             nucleus == Nucleus(logits, options)
             c == Place(masses, kept, word)
             mine(t) ==
               /\ Weight(weights, Ahead(logits, t)) * Words <= word * Weight(weights, nucleus)
               /\ word * Weight(weights, nucleus) <
                    Weight(weights, Ahead(logits, t) \cup {t}) * Words
  <2>1. Sample(logits, options, word) = order[c] - 1
    BY <1>2 DEF Sample
  <2>2. Called(logits, options, word) = (CHOOSE t \in nucleus : mine(t)) - 1
    BY <1>2 DEF Called
  <2>3. /\ masses \in [1..k -> Nat] /\ masses[1] > 0
    BY <1>2, MassesAreWeights
  <2>4. /\ \A i \in 1..k : /\ Weight(weights, Ahead(logits, order[i])) = Upto(masses, i - 1)
                           /\ Weight(weights, Ahead(logits, order[i]) \cup {order[i]}) = Upto(masses, i)
        /\ nucleus = Listed(order, kept)
        /\ Weight(weights, nucleus) = Upto(masses, kept)
    BY <1>2, Translation
  <2>5. order \in [1..n -> 1..n]
    BY RankedInOrder
  <2>6. k \in Nat \ {0} /\ word \in 0..(Words - 1) /\ \A i \in 1..k : i \in 1..n
    BY <1>2
  <2> HIDE DEF order, masses, weights, nucleus, k
  <2>7. kept \in 1..k
    BY <2>3, <2>6, RetainedIs
  <2> HIDE DEF kept
  <2>8. /\ c \in 1..kept
        /\ Upto(masses, c - 1) * Words <= word * Upto(masses, kept)
        /\ word * Upto(masses, kept) < Upto(masses, c) * Words
    BY <2>3, <2>6, <2>7, PlaceIs
  <2> HIDE DEF c
  <2>9. c \in 1..k /\ order[c] \in nucleus /\ order[c] \in 1..n
    <3>1. c \in 1..k
      BY <2>6, <2>7, <2>8
    <3>2. order[c] \in Listed(order, kept)
      BY <2>8 DEF Listed
    <3>3. c \in 1..n
      BY <2>6, <3>1
    <3> QED
      BY <2>4, <2>5, <3>1, <3>2, <3>3
  <2>10. mine(order[c])
    BY <2>4, <2>8, <2>9
  <2>11. ASSUME NEW t \in nucleus, mine(t) PROVE t = order[c]
    <3>1. PICK d \in 1..kept : t = order[d]
      BY <2>4 DEF Listed
    <3>2. d \in 1..k
      BY <2>6, <2>7, <3>1
    <3>3. /\ Upto(masses, d - 1) * Words <= word * Upto(masses, kept)
          /\ word * Upto(masses, kept) < Upto(masses, d) * Words
      BY <2>4, <2>11, <3>1, <3>2
    <3>4. word * Upto(masses, kept) \in Nat
      <4>1. kept \in 0..k /\ word \in Nat
        BY <2>6, <2>7, SamplerAssumption
      <4>2. Upto(masses, kept) \in Nat
        BY <2>3, <2>6, <4>1, RunningSums
      <4> QED
        BY <4>1, <4>2, Products
    <3>5. d = c
      <4> DEFINE target == word * Upto(masses, kept)
      <4>1. /\ target \in Nat
            /\ Upto(masses, c - 1) * Words <= target /\ target < Upto(masses, c) * Words
            /\ Upto(masses, d - 1) * Words <= target /\ target < Upto(masses, d) * Words
        BY <2>8, <3>3, <3>4
      <4> HIDE DEF target
      <4> QED
        BY <2>3, <2>6, <2>9, <3>2, <4>1, OnePlace
    <3> QED
      BY <3>1, <3>5
  <2> HIDE DEF mine
  <2>12. (CHOOSE t \in nucleus : mine(t)) = order[c]
    BY <2>9, <2>10, <2>11
  <2> DEFINE t == order[c]
  <2>13. t \in 1..n => t - 1 \in 0..(n - 1)
    <3> HIDE DEF t
    <3> QED
      OBVIOUS
  <2> QED
    BY <2>1, <2>2, <2>9, <2>12, <2>13
<1> QED
  BY <1>1, <1>2

-------------------------------------------------------------------------------
\* The generation loop.

Buffers == [1..Capacity -> Tokens \cup {Garbage}]

\* The token the loop has put into the buffer at place i is the one called for by r.
Chosen(buffer, r, i) ==
  buffer[Len(r.prompt) + i] =
    Called(Logits(SubSeq(buffer, 1, Len(r.prompt) + i - 1)), Effective(r.options, Width),
           Word(<<r.seed, i>>))

\* The buffer has the prompt and n tokens chosen for r, none of the first m EOS.
Holds(buffer, r, n, m) ==
  /\ \A i \in 1..Len(r.prompt) : buffer[i] = r.prompt[i]
  /\ \A i \in 1..n : Chosen(buffer, r, i)
  /\ \A i \in 1..Len(r.prompt) + n : buffer[i] \in Tokens
  /\ \A i \in 1..m : buffer[Len(r.prompt) + i] # EOS

\* What the RNG is after n tokens.
Drew(r, n) == <<r.seed, IF r.options.temperature = 0 THEN 0 ELSE n>>

TypeOK ==
  /\ incremental \in BOOLEAN
  /\ text # Broken => text \in Seq(Tokens) /\ Len(text) <= Capacity
  /\ pc \in {"idle", "prepare", "evaluate", "feed", "sample", "deliver"}
  /\ prefix # <<>> => prefix \in Buffers

Counted ==
  /\ pc # "idle" => req \in Requests /\ Acceptable(req) /\ Required(req) > 0 /\ count \in Nat
  /\ pc = "prepare" => count = 0
  /\ pc \in {"evaluate", "feed", "sample"} => count < Required(req)
  /\ pc = "deliver" => count > 0 /\ count <= Required(req)

Written ==
  pc \in {"evaluate", "feed", "sample", "deliver"} =>
    /\ prefix \in Buffers /\ rng = Drew(req, count)
    /\ Holds(prefix, req, count, IF pc = "deliver" THEN count - 1 ELSE count)

Ends ==
  pc = "deliver" => LastTurn(prefix[Length], count) /\ stop = StopAfter(prefix[Length], count)

Follows ==
  /\ pc = "evaluate" /\ count > 0 /\ incremental => text = SubSeq(prefix, 1, Length - 1)
  /\ pc = "feed" => /\ incremental /\ text # Broken /\ Len(text) < Length
                    /\ text = SubSeq(prefix, 1, Len(text))
                    /\ count > 0 => Len(text) = Length - 1
  /\ pc = "sample" => /\ answer = SubSeq(prefix, 1, Length)
                      /\ incremental => text = answer
  /\ pc = "deliver" /\ incremental => text = SubSeq(prefix, 1, Length - 1)

\* The inductive invariant.
IInv == TypeOK /\ Counted /\ Written /\ Ends /\ Follows /\ OutputIsReference

\* What an accepted request allows.
LEMMA Serving ==
  ASSUME NEW r \in Requests, Acceptable(r)
  PROVE  /\ r.prompt \in Seq(Tokens) /\ Len(r.prompt) \in 1..Capacity
         /\ Required(r) \in 0..Capacity /\ Len(r.prompt) + Required(r) <= Capacity
         /\ r.max \in Nat /\ Required(r) <= r.max /\ r.seed \in Seeds
         /\ Effective(r.options, Width).temperature = r.options.temperature
         /\ Effective(r.options, Width).top_k \in 1..Width
         /\ Effective(r.options, Width).top_p \in 1..Whole
<1>1. /\ r.prompt \in Seq(Ids) /\ r.max \in Nat /\ r.seed \in Seeds
      /\ r.options \in [temperature : Nat, top_k : Nat, top_p : Nat]
      /\ Capacity \in Nat \ {0} /\ Width \in Nat \ {0}
  BY GenerateAssumption
<1>2. /\ r.prompt # <<>> /\ Len(r.prompt) <= Capacity /\ ValidOptions(r.options)
      /\ \A i \in 1..Len(r.prompt) : r.prompt[i] \in Tokens
  BY DEF Acceptable
<1>3. r.prompt \in Seq(Tokens) /\ Len(r.prompt) \in 1..Capacity
  <2>1. Len(r.prompt) \in Nat \ {0} /\ r.prompt \in [1..Len(r.prompt) -> Ids]
    BY <1>1, <1>2, EmptySeq, LenProperties
  <2>2. r.prompt \in [1..Len(r.prompt) -> Tokens]
    BY <1>2, <2>1
  <2> QED
    BY <1>1, <1>2, <2>1, <2>2, SeqDef
<1>4. /\ Required(r) \in 0..Capacity /\ Len(r.prompt) + Required(r) <= Capacity
      /\ Required(r) <= r.max
  BY <1>1, <1>3 DEF Required, Least
<1>5. /\ Effective(r.options, Width).temperature = r.options.temperature
      /\ Effective(r.options, Width).top_k \in 1..Width
      /\ Effective(r.options, Width).top_p \in 1..Whole
  <2> DEFINE o == r.options
  <2>1. /\ o \in [temperature : Nat, top_k : Nat, top_p : Nat]
        /\ o.top_p > 0 /\ o.top_p <= Whole /\ Whole \in Nat \ {0}
    BY <1>1, <1>2, SamplerAssumption DEF ValidOptions
  <2> HIDE DEF o
  <2>2. /\ Effective(o, Width).temperature = o.temperature
        /\ Effective(o, Width).top_k \in 1..Width
        /\ Effective(o, Width).top_p \in 1..Whole
    <3>1. CASE o.temperature = 0
      BY <1>1, <2>1, <3>1 DEF Effective
    <3>2. CASE o.temperature # 0 /\ (o.top_k = 0 \/ o.top_k > Width)
      BY <1>1, <2>1, <3>2 DEF Effective
    <3>3. CASE o.temperature # 0 /\ ~(o.top_k = 0 \/ o.top_k > Width)
      BY <1>1, <2>1, <3>3 DEF Effective
    <3> QED
      BY <3>1, <3>2, <3>3
  <2> QED
    BY <2>2 DEF o
<1> QED
  BY <1>1, <1>3, <1>4, <1>5

\* The front of a buffer of which the first m places are tokens.
LEMMA BufferFront ==
  ASSUME NEW f, NEW m \in Nat, \A i \in 1..m : f[i] \in Tokens
  PROVE  /\ SubSeq(f, 1, m) \in Seq(Tokens) /\ Len(SubSeq(f, 1, m)) = m
         /\ \A i \in 1..m : SubSeq(f, 1, m)[i] = f[i]
         /\ m \in 1..Capacity => SubSeq(f, 1, m) \in Context!Texts
<1> DEFINE s == SubSeq(f, 1, m)
<1>1. s \in Seq(Tokens) /\ Len(s) = m /\ \A i \in 1..m : s[i] = f[i]
  <2>1. 1 \in Int /\ m \in Int /\ m - 1 + 1 = m /\ (1 <= m \/ m = 0)
    OBVIOUS
  <2>2. \A i \in 1..m : 1 + i - 1 = i
    OBVIOUS
  <2> QED
    BY <2>1, <2>2, SubSeqProperties
<1> HIDE DEF s
<1>2. s \in [1..m -> Tokens]
  BY <1>1, LenProperties
<1>3. m \in 1..Capacity => s \in Context!Texts
  BY <1>2 DEF Context!Texts
<1> QED
  BY <1>1, <1>3 DEF s

\* Two buffers with the same tokens at the first m places have the same front.
LEMMA SameFront ==
  ASSUME NEW f, NEW g, NEW m \in Nat,
         \A i \in 1..m : f[i] \in Tokens /\ g[i] = f[i]
  PROVE  SubSeq(g, 1, m) = SubSeq(f, 1, m)
<1>1. /\ SubSeq(f, 1, m) \in Seq(Tokens) /\ Len(SubSeq(f, 1, m)) = m
      /\ \A i \in 1..m : SubSeq(f, 1, m)[i] = f[i]
  BY BufferFront
<1>2. /\ SubSeq(g, 1, m) \in Seq(Tokens) /\ Len(SubSeq(g, 1, m)) = m
      /\ \A i \in 1..m : SubSeq(g, 1, m)[i] = g[i]
  BY BufferFront
<1> DEFINE s == SubSeq(f, 1, m)
           t == SubSeq(g, 1, m)
<1>3. s \in Seq(Tokens) /\ t \in Seq(Tokens) /\ Len(t) = Len(s) /\ \A i \in 1..Len(t) : t[i] = s[i]
  BY <1>1, <1>2
<1> HIDE DEF s, t
<1>4. t = s
  BY <1>3, SeqEqual
<1> QED
  BY <1>4 DEF s, t

\* The front of one more place.
LEMMA NextFront ==
  ASSUME NEW f, NEW m \in Nat, \A i \in 1..m + 1 : f[i] \in Tokens
  PROVE  SubSeq(f, 1, m + 1) = Append(SubSeq(f, 1, m), f[m + 1])
<1> DEFINE s == SubSeq(f, 1, m)
           u == SubSeq(f, 1, m + 1)
           x == f[m + 1]
           t == Append(s, x)
<1>1. s \in Seq(Tokens) /\ Len(s) = m /\ \A i \in 1..m : s[i] = f[i]
  BY BufferFront
<1>2. u \in Seq(Tokens) /\ Len(u) = m + 1 /\ \A i \in 1..m + 1 : u[i] = f[i]
  BY BufferFront
<1>3. x \in Tokens
  OBVIOUS
<1> HIDE DEF s, u
<1>4. /\ t \in Seq(Tokens) /\ Len(t) = m + 1
      /\ \A i \in 1..m : t[i] = s[i]
      /\ t[m + 1] = x
  <2> HIDE DEF x
  <2> QED
    BY <1>1, <1>3, AppendProperties
<1> HIDE DEF t
<1>5. \A i \in 1..m + 1 : u[i] = t[i]
  BY <1>1, <1>2, <1>4
<1>6. u = t
  BY <1>2, <1>4, <1>5, SeqEqual
<1> QED
  BY <1>6 DEF t, u, s

\* The buffer has the prompt, and n tokens after it.
Continued(f, prompt, n) ==
  /\ \A i \in 1..Len(prompt) : f[i] = prompt[i]
  /\ \A i \in 1..Len(prompt) + n : f[i] \in Tokens

\* A text in two parts: the prompt, and what follows it.
LEMMA TwoParts ==
  ASSUME NEW f, NEW prompt \in Seq(Tokens), NEW n \in Nat, Continued(f, prompt, n)
  PROVE  LET ids == SubSeq(f, Len(prompt) + 1, Len(prompt) + n) IN
         /\ ids \in Seq(Tokens) /\ Len(ids) = n
         /\ \A i \in 1..n : ids[i] = f[Len(prompt) + i]
         /\ \A i \in 1..n : prompt \o SubSeq(ids, 1, i - 1) = SubSeq(f, 1, Len(prompt) + i - 1)
<1>0. /\ \A i \in 1..Len(prompt) : f[i] = prompt[i]
      /\ \A i \in 1..Len(prompt) + n : f[i] \in Tokens
  BY DEF Continued
<1> DEFINE p == Len(prompt)
           ids == SubSeq(f, p + 1, p + n)
<1>1. p \in Nat
  BY LenProperties
<1> HIDE DEF p
<1>2. ids \in Seq(Tokens) /\ Len(ids) = n /\ \A i \in 1..n : ids[i] = f[p + i]
  <2>1. p + 1 \in Int /\ p + n \in Int /\ \A i \in (p + 1)..(p + n) : f[i] \in Tokens
    BY <1>0, <1>1 DEF p
  <2>2. /\ ids \in Seq(Tokens)
        /\ Len(ids) = IF p + 1 <= p + n THEN (p + n) - (p + 1) + 1 ELSE 0
        /\ \A i \in 1..((p + n) - (p + 1) + 1) : ids[i] = f[p + 1 + i - 1]
    BY <2>1, SubSeqProperties
  <2>3. (p + n) - (p + 1) + 1 = n /\ \A i \in 1..n : p + 1 + i - 1 = p + i
    BY <1>1
  <2>4. IF p + 1 <= p + n THEN (p + n) - (p + 1) + 1 = n ELSE n = 0
    BY <1>1
  <2> HIDE DEF ids
  <2> QED
    BY <2>2, <2>3, <2>4
<1> HIDE DEF ids
<1>3. ASSUME NEW i \in 1..n
      PROVE  prompt \o SubSeq(ids, 1, i - 1) = SubSeq(f, 1, p + i - 1)
  <2> DEFINE a == SubSeq(ids, 1, i - 1)
             b == SubSeq(f, 1, p + i - 1)
             c == prompt \o a
  <2>1. a \in Seq(Tokens) /\ Len(a) = i - 1 /\ \A j \in 1..i - 1 : a[j] = ids[j]
    <3>1. i - 1 \in Nat /\ \A j \in 1..i - 1 : ids[j] \in Tokens
      BY <1>2, ElementOfSeq
    <3> QED
      BY <3>1, BufferFront
  <2>2. b \in Seq(Tokens) /\ Len(b) = p + i - 1 /\ \A j \in 1..p + i - 1 : b[j] = f[j]
    <3>1. p + i - 1 \in Nat /\ \A j \in 1..p + i - 1 : f[j] \in Tokens
      BY <1>0, <1>1 DEF p
    <3> DEFINE m == p + i - 1
    <3> HIDE DEF m
    <3>2. SubSeq(f, 1, m) \in Seq(Tokens) /\ Len(SubSeq(f, 1, m)) = m
          /\ \A j \in 1..m : SubSeq(f, 1, m)[j] = f[j]
      BY <3>1, BufferFront DEF m
    <3> QED
      BY <3>2 DEF m
  <2> HIDE DEF a, b
  <2>3. /\ c \in Seq(Tokens) /\ Len(c) = p + (i - 1)
        /\ \A j \in 1..p + (i - 1) : c[j] = IF j <= p THEN prompt[j] ELSE a[j - p]
    <3>1. /\ c \in Seq(Tokens) /\ Len(c) = Len(prompt) + Len(a)
          /\ \A j \in 1..Len(prompt) + Len(a) :
               c[j] = IF j <= Len(prompt) THEN prompt[j] ELSE a[j - Len(prompt)]
      BY <2>1, ConcatProperties
    <3>2. Len(prompt) = p /\ Len(a) = i - 1
      BY <2>1 DEF p
    <3> HIDE DEF c
    <3> QED
      BY <3>1, <3>2
  <2> HIDE DEF c
  <2>4. ASSUME NEW j \in 1..p + i - 1 PROVE c[j] = b[j]
    <3>1. CASE j <= p
      <4>1. c[j] = prompt[j] /\ b[j] = f[j] /\ f[j] = prompt[j]
        BY <1>0, <1>1, <2>2, <2>3, <3>1 DEF p
      <4> QED
        BY <4>1
    <3>2. CASE j > p
      <4>1. j - p \in 1..i - 1 /\ j - p \in 1..n /\ p + (j - p) = j /\ j \in 1..p + (i - 1)
        BY <1>1, <3>2
      <4>2. c[j] = a[j - p] /\ a[j - p] = ids[j - p] /\ ids[j - p] = f[p + (j - p)]
        BY <1>1, <1>2, <2>1, <2>3, <3>2, <4>1
      <4> QED
        BY <2>2, <4>1, <4>2
    <3> QED
      BY <1>1, <3>1, <3>2
  <2>5. c = b
    <3>1. Len(c) = Len(b) /\ \A j \in 1..Len(c) : c[j] = b[j]
      BY <1>1, <2>2, <2>3, <2>4
    <3> QED
      BY <2>2, <2>3, <3>1, SeqEqual
  <2> QED
    BY <2>5 DEF a, b, c
<1> QED
  BY <1>2, <1>3 DEF ids, p
\* A token that is called for extends what the buffer holds.
LEMMA Extends ==
  ASSUME NEW f \in Buffers, NEW r \in Requests, Acceptable(r), NEW n \in Nat, n < Required(r),
         Holds(f, r, n, n), NEW token \in Tokens,
         token = Called(Logits(SubSeq(f, 1, Len(r.prompt) + n)), Effective(r.options, Width),
                        Word(<<r.seed, n + 1>>))
  PROVE  LET g == [f EXCEPT ![Len(r.prompt) + n + 1] = token] IN
         /\ g \in Buffers /\ g[Len(r.prompt) + n + 1] = token
         /\ Holds(g, r, n + 1, n)
         /\ token # EOS => Holds(g, r, n + 1, n + 1)
         /\ SubSeq(g, 1, Len(r.prompt) + n) = SubSeq(f, 1, Len(r.prompt) + n)
<1> DEFINE p == Len(r.prompt)
           g == [f EXCEPT ![p + n + 1] = token]
<1>1. p \in Nat /\ p + n + 1 \in 1..Capacity
  <2>1. p \in 1..Capacity /\ Required(r) \in 0..Capacity /\ p + Required(r) <= Capacity
    BY Serving
  <2> HIDE DEF p
  <2> QED
    BY <2>1, GenerateAssumption
<1> HIDE DEF p
<1>2. /\ g \in Buffers /\ g[p + n + 1] = token
      /\ \A i \in 1..p + n : g[i] = f[i]
  BY <1>1 DEF Buffers
<1> HIDE DEF g
<1>3. \A i \in 1..p + n : f[i] \in Tokens
  BY DEF Holds, p
<1>4. ASSUME NEW m \in 0..p + n PROVE SubSeq(g, 1, m) = SubSeq(f, 1, m)
  <2>1. m \in Nat /\ \A i \in 1..m : f[i] \in Tokens /\ g[i] = f[i]
    BY <1>1, <1>2, <1>3
  <2> QED
    BY <2>1, SameFront
<1>5. \A i \in 1..p : g[i] = r.prompt[i]
  BY <1>1, <1>2 DEF Holds, p
<1>6. \A i \in 1..p + (n + 1) : g[i] \in Tokens
  <2>1. \A i \in 1..p + (n + 1) : i \in 1..p + n \/ i = p + n + 1
    BY <1>1
  <2> QED
    BY <1>2, <1>3, <2>1
<1>7. ASSUME NEW i \in 1..n PROVE Chosen(g, r, i) /\ g[p + i] # EOS
  <2>1. Chosen(f, r, i) /\ f[p + i] # EOS
    BY DEF Holds, p
  <2>2. p + i \in 1..p + n /\ p + i - 1 \in 0..p + n
    BY <1>1
  <2>3. g[p + i] = f[p + i] /\ SubSeq(g, 1, p + i - 1) = SubSeq(f, 1, p + i - 1)
    BY <1>2, <1>4, <2>2
  <2> QED
    BY <2>1, <2>3 DEF Chosen, p
<1>8. Chosen(g, r, n + 1) /\ g[p + (n + 1)] = token
  <2>1. p + (n + 1) = p + n + 1 /\ p + (n + 1) - 1 = p + n /\ p + n \in 0..p + n
    BY <1>1
  <2>2. SubSeq(g, 1, p + n) = SubSeq(f, 1, p + n)
    BY <1>4, <2>1
  <2> QED
    BY <1>2, <2>1, <2>2 DEF Chosen, p
<1>9. \A i \in 1..n + 1 : i \in 1..n \/ i = n + 1
  OBVIOUS
<1>10. Holds(g, r, n + 1, n)
  <2>1. \A i \in 1..n + 1 : Chosen(g, r, i)
    BY <1>7, <1>8, <1>9
  <2> QED
    BY <1>5, <1>6, <1>7, <2>1 DEF Holds, p
<1>11. token # EOS => Holds(g, r, n + 1, n + 1)
  <2>1. \A i \in 1..n + 1 : Chosen(g, r, i)
    BY <1>7, <1>8, <1>9
  <2>2. token # EOS => \A i \in 1..n + 1 : g[p + i] # EOS
    BY <1>7, <1>8, <1>9
  <2> QED
    BY <1>5, <1>6, <2>1, <2>2 DEF Holds, p
<1>12. SubSeq(g, 1, p + n) = SubSeq(f, 1, p + n)
  <2>1. p + n \in 0..p + n
    BY <1>1
  <2> QED
    BY <1>4, <2>1
<1> QED
  BY <1>2, <1>10, <1>11, <1>12 DEF g, p

\* The token that is drawn is the one called for, in the vocabulary; the RNG is then
\* where the request will have it.
LEMMA Drawing ==
  ASSUME Counted, Written, Follows, pc = "sample"
  PROVE  /\ Drawn = Called(Logits(SubSeq(prefix, 1, Length)), Effective(req.options, Width),
                           Word(<<req.seed, count + 1>>))
         /\ Drawn \in Tokens /\ Advanced = Drew(req, count + 1)
<1> DEFINE row == SubSeq(prefix, 1, Length)
           asked == Effective(req.options, Width)
           word == Word(<<req.seed, count + 1>>)
<1>1. /\ req \in Requests /\ Acceptable(req) /\ count \in Nat /\ count < Required(req)
      /\ Holds(prefix, req, count, count) /\ rng = Drew(req, count) /\ answer = row
  BY DEF Counted, Written, Follows
<1>2. /\ Length \in 1..Capacity /\ req.seed \in Seeds /\ count + 1 \in 0..Capacity
      /\ asked.temperature = req.options.temperature
      /\ asked.top_k \in 1..Width /\ asked.top_p \in 1..Whole
  BY <1>1, Serving, GenerateAssumption DEF Length
<1>3. row \in Context!Texts
  <2>1. \A i \in 1..Length : prefix[i] \in Tokens
    BY <1>1 DEF Holds, Length
  <2> QED
    BY <1>2, <2>1, BufferFront
<1>4. /\ Width \in Nat \ {0} /\ Logits(row) \in [1..Width -> Int]
      /\ req.options.temperature \in Nat
      /\ req.options.temperature # 0 => Weighable(Logits(row), req.options.temperature)
  <2>1. req.options.temperature \in Nat
    BY <1>1, GenerateAssumption
  <2>2. req.options.temperature # 0 => req.options.temperature > 0
    BY <2>1
  <2> QED
    BY <1>1, <1>3, <2>1, <2>2, GenerateAssumption
<1>5. word \in 0..Words - 1
  BY <1>2, GenerateAssumption DEF States
<1>6. Advanced = Drew(req, count + 1)
  BY <1>1 DEF Advanced, Drew
<1>7. Drawn = Sample(Logits(row), asked, Word(Drew(req, count + 1)))
  BY <1>1, <1>6 DEF Drawn
<1> HIDE DEF row, asked
<1>8. CASE req.options.temperature # 0
  <2>1. Word(Drew(req, count + 1)) = word
    BY <1>8 DEF Drew
  <2> HIDE DEF word
  <2>2. /\ Sample(Logits(row), asked, word) = Called(Logits(row), asked, word)
        /\ Sample(Logits(row), asked, word) \in 0..(Width - 1)
    BY <1>2, <1>4, <1>5, <1>8, SamplerIsRight
  <2>3. Drawn \in Tokens
    BY <1>7, <2>1, <2>2, GenerateAssumption
  <2> QED
    BY <1>6, <1>7, <2>1, <2>2, <2>3 DEF row, asked, word
<1>9. CASE req.options.temperature = 0
  <2> DEFINE still == Word(Drew(req, count + 1))
  <2>1. asked.temperature = 0
    BY <1>2, <1>9
  <2> HIDE DEF still, word
  <2>2. /\ Sample(Logits(row), asked, still) = Called(Logits(row), asked, still)
        /\ Sample(Logits(row), asked, still) \in 0..(Width - 1)
    BY <1>2, <1>4, <2>1, SamplerIsRight
  <2>3. Called(Logits(row), asked, still) = Called(Logits(row), asked, word)
    BY <2>1 DEF Called
  <2>4. Drawn \in Tokens
    BY <1>7, <2>2, GenerateAssumption DEF still
  <2> QED
    BY <1>6, <1>7, <2>2, <2>3, <2>4 DEF row, asked, word, still
<1> QED
  BY <1>8, <1>9
\* Initially nothing was asked and nothing was written.
LEMMA InitInvariant == Init => IInv
<1> SUFFICES ASSUME Init PROVE IInv
  OBVIOUS
<1> USE DEF Init, Context!Init
<1>1. TypeOK
  <2>1. <<>> \in Seq(Tokens) /\ Len(<<>>) = 0
    BY EmptySeq
  <2> QED
    BY <2>1, GenerateAssumption DEF TypeOK
<1>2. Counted /\ Written /\ Ends /\ Follows /\ OutputIsReference
  BY DEF Counted, Written, Ends, Follows, OutputIsReference
<1> QED
  BY <1>1, <1>2 DEF IInv

\* Between two calls only the type of the context and the output matter.
LEMMA IdleInvariant ==
  ASSUME TypeOK', pc' = "idle", OutputIsReference'
  PROVE  IInv'
BY DEF IInv, Counted, Written, Ends, Follows

\* A call that fails after it has begun writes neither output: the sampler's own
\* failures, those of the allocation and those of the context.
LEMMA FailureInvariant ==
  ASSUME IInv, PrepareFails \/ FeedFails \/ ForwardFails \/ SampleFails
  PROVE  IInv'
<1>1. pc' = "idle" /\ UNCHANGED <<incremental, prefix, out, result, granted>>
  BY DEF PrepareFails, FeedFails, ForwardFails, SampleFails, Return, caller, scratch
<1>2. text' = text \/ text' = Broken \/ text' = <<>>
  BY DEF PrepareFails, FeedFails, ForwardFails, SampleFails, context, Context!Break,
         Context!Restart
<1>3. TypeOK'
  <2>1. <<>> \in Seq(Tokens) /\ Len(<<>>) <= Capacity
    BY EmptySeq, GenerateAssumption
  <2>2. text' # Broken => text' \in Seq(Tokens) /\ Len(text') <= Capacity
    BY <1>2, <2>1 DEF IInv, TypeOK
  <2> QED
    BY <1>1, <2>2 DEF IInv, TypeOK
<1>4. OutputIsReference'
  BY <1>1 DEF IInv, OutputIsReference
<1> QED
  BY <1>1, <1>3, <1>4, IdleInvariant

\* The caller's own use of the context.
LEMMA OtherUseInvariant ==
  ASSUME IInv, OtherUse
  PROVE  IInv'
<1>1. pc' = "idle" /\ UNCHANGED <<incremental, prefix, out, result, granted>>
  BY DEF OtherUse, caller, scratch
<1>2. text' # Broken => text' \in Seq(Tokens) /\ Len(text') <= Capacity
  <2>1. CASE Context!Restart \/ Context!Break
    <3>1. <<>> \in Seq(Tokens) /\ Len(<<>>) <= Capacity
      BY EmptySeq, GenerateAssumption
    <3>2. text' = <<>> \/ text' = Broken
      BY <2>1 DEF Context!Restart, Context!Break
    <3> QED
      BY <3>1, <3>2
  <2>2. ASSUME NEW id \in Tokens, Context!Consume(id)
        PROVE  text' \in Seq(Tokens) /\ Len(text') <= Capacity
    <3>1. text \in Seq(Tokens) /\ Len(text) < Capacity /\ text' = Append(text, id)
      BY <2>2 DEF IInv, TypeOK, Context!Consume
    <3>2. Append(text, id) \in Seq(Tokens) /\ Len(Append(text, id)) = Len(text) + 1
      BY <3>1, AppendProperties
    <3>3. Len(text) \in Nat
      BY <3>1, LenProperties
    <3> QED
      BY <3>1, <3>2, <3>3, GenerateAssumption
  <2> QED
    BY <2>1, <2>2 DEF OtherUse
<1>3. TypeOK'
  BY <1>1, <1>2 DEF IInv, TypeOK
<1>4. OutputIsReference'
  BY <1>1 DEF IInv, OutputIsReference
<1> QED
  BY <1>1, <1>3, <1>4, IdleInvariant

\* Nothing is a sequence of no tokens, and says why.
LEMMA NothingInvariant ==
  ASSUME IInv, NEW r \in Requests, Nothing(r)
  PROVE  IInv'
<1>1. pc' = "idle" /\ UNCHANGED <<incremental, text, prefix, out>>
  BY DEF Nothing, context, scratch
<1>2. TypeOK'
  BY <1>1 DEF IInv, TypeOK
<1>3. /\ Acceptable(r) /\ Required(r) = 0 /\ granted' = r
      /\ result' = [count |-> 0, stop |-> IF r.max = 0 THEN "length" ELSE "context"]
  BY DEF Nothing
<1>4. Len(<<>>) = 0
  BY EmptySeq
<1>5. Answers(r, <<>>, IF r.max = 0 THEN "length" ELSE "context")
  <2> DEFINE none == <<>>
             reason == IF r.max = 0 THEN "length" ELSE "context"
  <2>1. Len(none) = 0 /\ 1..Len(none) = {} /\ 1..Len(none) - 1 = {}
    BY <1>4
  <2>2. r.max = 0 => reason = "length"
    OBVIOUS
  <2>3. r.max # 0 => reason = "context" /\ Len(none) = Required(r)
    BY <1>3, <1>4
  <2> HIDE DEF none, reason
  <2> QED
    BY <1>3, <2>1, <2>2, <2>3 DEF Answers
<1>6. OutputIsReference'
  BY <1>3, <1>4, <1>5 DEF OutputIsReference
<1> QED
  BY <1>1, <1>2, <1>6, IdleInvariant

\* A call begins.
LEMMA BeginInvariant ==
  ASSUME IInv, NEW r \in Requests, Begin(r)
  PROVE  IInv'
<1>1. /\ pc' = "prepare" /\ req' = r /\ count' = 0 /\ Acceptable(r) /\ Required(r) > 0
      /\ UNCHANGED <<incremental, text, prefix, out, result, granted>>
  BY DEF Begin, context, scratch, caller
<1>2. TypeOK'
  BY <1>1 DEF IInv, TypeOK
<1>3. Counted' /\ Written' /\ Ends' /\ Follows'
  BY <1>1 DEF Counted, Written, Ends, Follows
<1>4. OutputIsReference'
  BY <1>1 DEF IInv, OutputIsReference
<1> QED
  BY <1>2, <1>3, <1>4 DEF IInv

\* The prompt is in the buffer, whatever else is, and the RNG is seeded.
LEMMA PrepareInvariant ==
  ASSUME IInv, Prepare
  PROVE  IInv'
<1>1. /\ pc = "prepare" /\ pc' = "evaluate" /\ rng' = <<req.seed, 0>>
      /\ prefix' = WithPrompt(IF prefix = <<>> THEN Fresh ELSE prefix)
      /\ UNCHANGED <<incremental, text, answer, req, count, stop, out, result, granted>>
  BY DEF Prepare, context, caller
<1>2. req \in Requests /\ Acceptable(req) /\ Required(req) > 0 /\ count = 0
  BY <1>1 DEF IInv, Counted
<1>3. /\ req.prompt \in Seq(Tokens) /\ Len(req.prompt) \in 1..Capacity
      /\ Required(req) \in 0..Capacity
  BY <1>2, Serving
<1> DEFINE buffer == IF prefix = <<>> THEN Fresh ELSE prefix
<1>4. buffer \in Buffers
  BY DEF IInv, TypeOK, Fresh, Buffers
<1>5. \A i \in 1..Len(req.prompt) : req.prompt[i] \in Tokens
  BY <1>3, ElementOfSeq
<1>6. prefix' \in Buffers /\ \A i \in 1..Len(req.prompt) : prefix'[i] = req.prompt[i]
  <2>1. prefix' =
          [i \in 1..Capacity |-> IF i <= Len(req.prompt) THEN req.prompt[i] ELSE buffer[i]]
    BY <1>1 DEF WithPrompt
  <2>2. \A i \in 1..Capacity : i <= Len(req.prompt) => i \in 1..Len(req.prompt)
    BY <1>3
  <2>3. Len(req.prompt) \in Nat /\ \A i \in 1..Len(req.prompt) : i \in 1..Capacity /\ i <= Len(req.prompt)
    BY <1>3, GenerateAssumption
  <2> HIDE DEF buffer
  <2> QED
    BY <1>4, <1>5, <2>1, <2>2, <2>3 DEF Buffers
<1>7. Holds(prefix', req, 0, 0)
  <2>1. 1..0 = {} /\ Len(req.prompt) + 0 = Len(req.prompt)
    BY <1>3
  <2> QED
    BY <1>5, <1>6, <2>1 DEF Holds
<1>8. TypeOK'
  BY <1>1, <1>6 DEF IInv, TypeOK
<1>9. Counted'
  BY <1>1, <1>2, <1>3 DEF Counted
<1>10. Written'
  BY <1>1, <1>2, <1>6, <1>7 DEF Written, Drew
<1>11. Ends' /\ Follows'
  BY <1>1, <1>2 DEF Ends, Follows
<1>12. OutputIsReference'
  BY <1>1 DEF IInv, OutputIsReference
<1> QED
  BY <1>8, <1>9, <1>10, <1>11, <1>12 DEF IInv

\* A prefill forgets what the context held; a decode finds what the loop left there.
LEMMA CallInvariant ==
  ASSUME IInv, Prefill \/ Decode
  PROVE  IInv'
<1>1. /\ pc = "evaluate" /\ pc' = "feed" /\ incremental
      /\ UNCHANGED <<incremental, prefix, rng, req, count, stop, out, result, granted>>
      /\ \/ count = 0 /\ text' = <<>>
         \/ count > 0 /\ text' = text
  BY DEF Prefill, Decode, scratch, caller, Context!Restart, Context!Ask
<1>2. /\ req \in Requests /\ Acceptable(req) /\ count \in Nat /\ count < Required(req)
      /\ Holds(prefix, req, count, count)
  BY <1>1 DEF IInv, Counted, Written
<1>3. Len(req.prompt) \in 1..Capacity /\ Len(req.prompt) + Required(req) <= Capacity
      /\ Required(req) \in 0..Capacity
  BY <1>2, Serving
<1>4. Length \in 1..Capacity /\ Length \in Nat \ {0} /\ \A i \in 1..Length : prefix[i] \in Tokens
  BY <1>2, <1>3, GenerateAssumption DEF Length, Holds
<1>5. /\ text' \in Seq(Tokens) /\ Len(text') < Length /\ text' = SubSeq(prefix, 1, Len(text'))
      /\ count > 0 => Len(text') = Length - 1
  <2>1. CASE count = 0 /\ text' = <<>>
    <3>1. <<>> \in Seq(Tokens) /\ Len(<<>>) = 0 /\ SubSeq(prefix, 1, 0) = <<>>
      BY EmptySeq, SubSeqEmpty
    <3> QED
      BY <1>4, <2>1, <3>1
  <2>2. CASE count > 0 /\ text' = text
    <3>1. text' = SubSeq(prefix, 1, Length - 1)
      BY <1>1, <2>2 DEF IInv, Follows
    <3> DEFINE m == Length - 1
    <3>2. m \in Nat /\ m < Length /\ \A i \in 1..m : prefix[i] \in Tokens
      BY <1>4
    <3> HIDE DEF m
    <3>3. SubSeq(prefix, 1, m) \in Seq(Tokens) /\ Len(SubSeq(prefix, 1, m)) = m
      BY <3>2, BufferFront
    <3> QED
      BY <3>1, <3>2, <3>3 DEF m
  <2> QED
    BY <1>1, <1>2, <2>1, <2>2
<1>6. text' # Broken /\ Len(text') <= Capacity
  <2>1. Len(text') \in Nat
    BY <1>5, LenProperties
  <2> QED
    BY <1>4, <1>5, <2>1, GenerateAssumption
<1>7. TypeOK'
  BY <1>1, <1>5, <1>6 DEF IInv, TypeOK
<1>8. Counted'
  BY <1>1 DEF IInv, Counted
<1>9. Written'
  BY <1>1 DEF IInv, Written
<1>10. Ends'
  BY <1>1 DEF Ends
<1>11. Follows'
  <2>1. Length' = Length
    BY <1>1 DEF Length
  <2> QED
    BY <1>1, <1>5, <1>6, <2>1 DEF Follows
<1>12. OutputIsReference'
  BY <1>1 DEF IInv, OutputIsReference
<1> QED
  BY <1>7, <1>8, <1>9, <1>10, <1>11, <1>12 DEF IInv

\* The context takes the next token of the sequence, and answers for all of it.
LEMMA FeedInvariant ==
  ASSUME IInv, Feed
  PROVE  IInv'
<1>1. /\ pc = "feed" /\ text # Broken /\ Len(text) < Capacity /\ text' = Append(text, NextFed)
      /\ answer' = IF FeedIsLast THEN text' ELSE NoAnswer
      /\ pc' = IF FeedIsLast THEN "sample" ELSE "feed"
      /\ UNCHANGED <<incremental, prefix, rng, req, count, stop, out, result, granted>>
  BY DEF Feed, scratch, caller, Context!Consume
<1>2. /\ req \in Requests /\ Acceptable(req) /\ count \in Nat /\ count < Required(req)
      /\ Holds(prefix, req, count, count) /\ incremental
      /\ Len(text) < Length /\ text = SubSeq(prefix, 1, Len(text))
      /\ count > 0 => Len(text) = Length - 1
  BY <1>1 DEF IInv, Counted, Written, Follows
<1> DEFINE m == Len(text)
<1>3. m \in Nat /\ text \in Seq(Tokens)
  BY <1>1, LenProperties DEF IInv, TypeOK
<1>4. Len(req.prompt) \in 1..Capacity /\ Len(req.prompt) + Required(req) <= Capacity
      /\ Required(req) \in 0..Capacity
  BY <1>2, Serving
<1>5. Length \in 1..Capacity /\ Length \in Nat \ {0} /\ \A i \in 1..Length : prefix[i] \in Tokens
  BY <1>2, <1>4, GenerateAssumption DEF Length, Holds
<1>6. NextFed = prefix[m + 1] /\ \A i \in 1..m + 1 : prefix[i] \in Tokens
  BY <1>2, <1>3, <1>5 DEF NextFed
<1>7. /\ text' = SubSeq(prefix, 1, m + 1)
      /\ text' \in Seq(Tokens) /\ Len(text') = m + 1
  <2>1. text = SubSeq(prefix, 1, m)
    BY <1>2
  <2> DEFINE k == m + 1
  <2>2. k \in Nat
    BY <1>3
  <2> HIDE DEF m
  <2>3. SubSeq(prefix, 1, m + 1) = Append(SubSeq(prefix, 1, m), prefix[m + 1])
    BY <1>3, <1>6, NextFront
  <2>4. text' = SubSeq(prefix, 1, k)
    BY <1>1, <1>6, <2>1, <2>3
  <2>5. \A i \in 1..k : prefix[i] \in Tokens
    BY <1>6
  <2> HIDE DEF k
  <2>6. text' \in Seq(Tokens) /\ Len(text') = k
    BY <2>2, <2>4, <2>5, BufferFront
  <2> QED
    BY <2>4, <2>6 DEF k
<1> HIDE DEF m
<1>8. m < Length /\ (count > 0 => m = Length - 1) /\ m + 1 <= Capacity
  BY <1>2, <1>3, <1>5, GenerateAssumption DEF m
<1>9. TypeOK'
  BY <1>1, <1>7, <1>8 DEF IInv, TypeOK
<1>10. Counted'
  BY <1>1 DEF IInv, Counted
<1>11. Written'
  BY <1>1 DEF IInv, Written
<1>12. Ends'
  BY <1>1 DEF Ends
<1>13. Length' = Length
  BY <1>1 DEF Length
<1>14. Follows'
  <2>1. CASE FeedIsLast
    <3>1. m + 1 = Length
      <4>1. Len(text') = Len(req.prompt) /\ count = 0 => m + 1 = Length
        BY <1>4, <1>7 DEF Length
      <4>2. count > 0 => m + 1 = Length
        BY <1>5, <1>8
      <4> QED
        BY <1>2, <2>1, <4>1, <4>2 DEF FeedIsLast
    <3>2. pc' = "sample" /\ answer' = text' /\ text' = SubSeq(prefix', 1, Length')
      BY <1>1, <1>7, <1>13, <2>1, <3>1
    <3> QED
      BY <3>2 DEF Follows
  <2>2. CASE ~FeedIsLast
    <3>1. count = 0 /\ m + 1 # Length
      BY <1>2, <1>4, <1>7, <2>2 DEF FeedIsLast, Length
    <3>2. pc' = "feed" /\ Len(text') < Length' /\ text' = SubSeq(prefix', 1, Len(text'))
      BY <1>1, <1>3, <1>5, <1>7, <1>8, <1>13, <2>2, <3>1
    <3>3. text' # Broken
      BY <1>7, GenerateAssumption
    <3>4. incremental' /\ count' = 0
      BY <1>1, <1>2, <3>1
    <3> QED
      BY <3>2, <3>3, <3>4 DEF Follows
  <2> QED
    BY <2>1, <2>2
<1>15. OutputIsReference'
  BY <1>1 DEF IInv, OutputIsReference
<1> QED
  BY <1>9, <1>10, <1>11, <1>12, <1>14, <1>15 DEF IInv

\* The complete prefix is the whole sequence so far.
LEMMA ForwardInvariant ==
  ASSUME IInv, ForwardLast
  PROVE  IInv'
<1>1. /\ pc = "evaluate" /\ pc' = "sample" /\ ~incremental
      /\ text' = <<>> /\ answer' = SubSeq(prefix, 1, Length)
      /\ UNCHANGED <<incremental, prefix, rng, req, count, stop, out, result, granted>>
  BY DEF ForwardLast, scratch, caller, Context!Recompute
<1>2. TypeOK'
  <2>1. <<>> \in Seq(Tokens) /\ Len(<<>>) = 0
    BY EmptySeq
  <2> QED
    BY <1>1, <2>1, GenerateAssumption DEF IInv, TypeOK
<1>3. Counted'
  BY <1>1 DEF IInv, Counted
<1>4. Written'
  BY <1>1 DEF IInv, Written
<1>5. Ends'
  BY <1>1 DEF Ends
<1>6. Follows'
  <2>1. Length' = Length
    BY <1>1 DEF Length
  <2> QED
    BY <1>1, <2>1 DEF Follows
<1>7. OutputIsReference'
  BY <1>1 DEF IInv, OutputIsReference
<1> QED
  BY <1>2, <1>3, <1>4, <1>5, <1>6, <1>7 DEF IInv

\* The token that is stored is the one called for; the loop ends when it should.
LEMMA SampleInvariant ==
  ASSUME IInv, SampleNext
  PROVE  IInv'
<1> DEFINE token == Drawn
           last == LastTurn(token, count + 1)
<1>1. /\ pc = "sample" /\ prefix' = [prefix EXCEPT ![Length + 1] = token]
      /\ stop' = StopAfter(token, count + 1)
      /\ pc' = IF last THEN "deliver" ELSE "evaluate"
      /\ rng' = Advanced /\ count' = count + 1
      /\ UNCHANGED <<incremental, text, answer, req, out, result, granted>>
  BY DEF SampleNext, context, caller
<1>2. /\ req \in Requests /\ Acceptable(req) /\ count \in Nat /\ count < Required(req)
      /\ Required(req) > 0 /\ prefix \in Buffers /\ Holds(prefix, req, count, count)
      /\ incremental => text = SubSeq(prefix, 1, Length)
  BY <1>1 DEF IInv, Counted, Written, Follows
<1>3. /\ token = Called(Logits(SubSeq(prefix, 1, Length)), Effective(req.options, Width),
                        Word(<<req.seed, count + 1>>))
      /\ token \in Tokens /\ Advanced = Drew(req, count + 1)
  BY <1>1, Drawing DEF IInv
<1>4. Len(req.prompt) \in 1..Capacity /\ Required(req) \in 0..Capacity
  BY <1>2, Serving
<1>5. Length + 1 = Len(req.prompt) + count + 1 /\ Length = Len(req.prompt) + count
  BY DEF Length
<1> HIDE DEF token
<1>6. /\ prefix' \in Buffers /\ prefix'[Length + 1] = token
      /\ Holds(prefix', req, count + 1, count)
      /\ token # EOS => Holds(prefix', req, count + 1, count + 1)
      /\ SubSeq(prefix', 1, Length) = SubSeq(prefix, 1, Length)
  <2> DEFINE p == Len(req.prompt)
             g == [prefix EXCEPT ![p + count + 1] = token]
  <2>1. token = Called(Logits(SubSeq(prefix, 1, p + count)), Effective(req.options, Width),
                       Word(<<req.seed, count + 1>>))
    BY <1>3, <1>5
  <2>2. /\ g \in Buffers /\ g[p + count + 1] = token
        /\ Holds(g, req, count + 1, count)
        /\ token # EOS => Holds(g, req, count + 1, count + 1)
        /\ SubSeq(g, 1, p + count) = SubSeq(prefix, 1, p + count)
    BY <1>2, <1>3, <2>1, Extends
  <2>3. prefix' = g
    BY <1>1, <1>5
  <2> HIDE DEF g
  <2> QED
    BY <1>5, <2>2, <2>3
<1>7. Length' = Length + 1 /\ Length' - 1 = Length /\ count + 1 - 1 = count
  <2> DEFINE p == Len(req.prompt)
  <2>1. Length' = p + count' /\ Length = p + count
    BY <1>1 DEF Length
  <2>2. p \in Nat /\ count' = count + 1
    BY <1>1, <1>4, GenerateAssumption
  <2> HIDE DEF p
  <2> QED
    BY <1>2, <2>1, <2>2
<1>8. TypeOK'
  BY <1>1, <1>6 DEF IInv, TypeOK
<1>9. Counted'
  <2>1. count + 1 \in Nat /\ count + 1 > 0 /\ count + 1 <= Required(req)
    BY <1>2, <1>4
  <2>2. ~last => count + 1 < Required(req)
    BY <1>4, <2>1 DEF LastTurn
  <2> HIDE DEF last
  <2> QED
    BY <1>1, <1>2, <2>1, <2>2 DEF Counted
<1>10. Written'
  <2>1. ~last => token # EOS
    BY DEF LastTurn
  <2> HIDE DEF last
  <2>2. prefix' \in Buffers /\ rng' = Drew(req', count')
    BY <1>1, <1>3, <1>6
  <2>3. CASE last
    <3>0. count' - 1 = count
      BY <1>1, <1>2
    <3>1. pc' = "deliver" /\ count' - 1 = count
      BY <1>1, <2>3, <3>0
    <3>2. Holds(prefix', req', count', count' - 1)
      BY <1>1, <1>6, <3>1
    <3> QED
      BY <2>2, <3>1, <3>2 DEF Written
  <2>4. CASE ~last
    <3>1. pc' = "evaluate" /\ Holds(prefix', req', count', count')
      BY <1>1, <1>6, <2>1, <2>4
    <3> QED
      BY <2>2, <3>1 DEF Written
  <2> QED
    BY <2>3, <2>4
<1>11. Ends'
  <2>1. prefix'[Length'] = token /\ count' = count + 1
    BY <1>1, <1>6, <1>7
  <2> QED
    BY <1>1, <2>1 DEF Ends, LastTurn, StopAfter
<1>12. Follows'
  <2>1. incremental' => text' = SubSeq(prefix', 1, Length' - 1)
    BY <1>1, <1>2, <1>6, <1>7
  <2> QED
    BY <1>1, <2>1 DEF Follows
<1>13. OutputIsReference'
  BY <1>1 DEF IInv, OutputIsReference
<1> QED
  BY <1>8, <1>9, <1>10, <1>11, <1>12, <1>13 DEF IInv

\* What is about to be delivered: the tokens after the prompt are those the request
\* defines, and in incremental mode the context is one token short of them.
LEMMA Delivering ==
  ASSUME IInv, pc = "deliver"
  PROVE  LET ids == SubSeq(prefix, Len(req.prompt) + 1, Length) IN
         /\ count \in Nat \ {0} /\ Len(ids) = count /\ Answers(req, ids, stop)
         /\ incremental => text = req.prompt \o SubSeq(ids, 1, count - 1)
<1> DEFINE p == Len(req.prompt)
           ids == SubSeq(prefix, p + 1, p + count)
<1>1. /\ req \in Requests /\ Acceptable(req) /\ count \in Nat \ {0} /\ count <= Required(req)
      /\ Holds(prefix, req, count, count - 1)
      /\ LastTurn(prefix[Length], count) /\ stop = StopAfter(prefix[Length], count)
      /\ incremental => text = SubSeq(prefix, 1, Length - 1)
  BY DEF IInv, Counted, Written, Ends, Follows
<1>2. req.prompt \in Seq(Tokens) /\ p \in Nat /\ req.max \in Nat /\ Required(req) \in Nat
  BY <1>1, Serving, GenerateAssumption
<1>3. Length = p + count
  BY DEF Length
<1>4. /\ Len(ids) = count
      /\ \A i \in 1..count : ids[i] = prefix[p + i]
      /\ \A i \in 1..count : req.prompt \o SubSeq(ids, 1, i - 1) = SubSeq(prefix, 1, p + i - 1)
  <2> DEFINE prompt == req.prompt
             tail == SubSeq(prefix, Len(prompt) + 1, Len(prompt) + count)
  <2>1. Continued(prefix, prompt, count) /\ count \in Nat /\ prompt \in Seq(Tokens)
    BY <1>1, <1>2 DEF Continued, Holds
  <2> HIDE DEF prompt
  <2>2. /\ Len(tail) = count
        /\ \A i \in 1..count : tail[i] = prefix[Len(prompt) + i]
        /\ \A i \in 1..count :
             prompt \o SubSeq(tail, 1, i - 1) = SubSeq(prefix, 1, Len(prompt) + i - 1)
    BY <2>1, TwoParts
  <2> QED
    BY <2>2 DEF prompt
<1> HIDE DEF ids, p
<1>5. \A i \in 1..count : ids[i] = Called(Logits(req.prompt \o SubSeq(ids, 1, i - 1)),
                                         Effective(req.options, Width), Word(<<req.seed, i>>))
  <2>1. \A i \in 1..count : Chosen(prefix, req, i)
    BY <1>1 DEF Holds
  <2> QED
    BY <1>4, <2>1 DEF Chosen, p
<1>6. \A i \in 1..count - 1 : ids[i] # EOS
  <2>1. \A i \in 1..count - 1 : prefix[p + i] # EOS /\ i \in 1..count
    BY <1>1 DEF Holds, p
  <2> QED
    BY <1>4, <2>1
<1>7. ids[count] = prefix[Length]
  BY <1>1, <1>3, <1>4
<1>8. (CASE count > 0 /\ ids[count] = EOS -> stop = "eos"
         [] count = req.max /\ (count > 0 => ids[count] # EOS) -> stop = "length"
         [] OTHER -> stop = "context" /\ count = Required(req))
  <2>1. CASE ids[count] = EOS
    <3>1. stop = "eos" /\ count > 0
      BY <1>1, <1>7, <2>1 DEF StopAfter
    <3> QED
      BY <2>1, <3>1
  <2>2. CASE ids[count] # EOS /\ count = req.max
    <3>1. stop = "length"
      BY <1>1, <1>7, <2>2 DEF StopAfter
    <3> QED
      BY <2>2, <3>1
  <2>3. CASE ids[count] # EOS /\ count # req.max
    <3>1. stop = "context" /\ count = Required(req)
      BY <1>1, <1>7, <2>3 DEF StopAfter, LastTurn
    <3> QED
      BY <2>3, <3>1
  <2> QED
    BY <2>1, <2>2, <2>3
<1>9. Answers(req, ids, stop)
  BY <1>1, <1>4, <1>5, <1>6, <1>8 DEF Answers
<1>10. incremental => text = req.prompt \o SubSeq(ids, 1, count - 1)
  <2>1. count \in 1..count /\ p + count - 1 = Length - 1
    BY <1>1, <1>2, <1>3
  <2> QED
    BY <1>1, <1>4, <2>1
<1> QED
  BY <1>1, <1>3, <1>4, <1>9, <1>10 DEF ids, p

\* Delivery writes both outputs, and writes what the request defines.
LEMMA DeliverInvariant ==
  ASSUME IInv, Deliver
  PROVE  IInv'
<1> DEFINE ids == SubSeq(prefix, Len(req.prompt) + 1, Length)
<1>1. /\ pc = "deliver" /\ pc' = "idle" /\ out' = ids /\ granted' = req
      /\ result' = [count |-> count, stop |-> stop]
      /\ UNCHANGED <<incremental, text, prefix>>
  BY DEF Deliver, Return, context, scratch
<1>2. count \in Nat \ {0} /\ Len(ids) = count /\ Answers(req, ids, stop)
  BY <1>1, Delivering
<1>3. TypeOK'
  BY <1>1 DEF IInv, TypeOK
<1>4. OutputIsReference'
  <2> HIDE DEF ids
  <2>1. result'.count = count /\ result'.stop = stop /\ count # 0
    BY <1>1, <1>2
  <2> QED
    BY <1>1, <1>2, <2>1 DEF OutputIsReference
<1> QED
  BY <1>1, <1>3, <1>4, IdleInvariant

\* A step that changes nothing.
LEMMA StutterInvariant ==
  ASSUME IInv, UNCHANGED vars
  PROVE  IInv'
BY DEF IInv, TypeOK, Counted, Written, Ends, Follows, OutputIsReference, vars, context, scratch,
       caller, Length, LastTurn, StopAfter

\* The invariant holds in every state.
THEOREM Invariance == Spec => []IInv
<1>1. ASSUME IInv, [Next]_vars PROVE IInv'
  <2>1. CASE OtherUse
    BY <1>1, <2>1, OtherUseInvariant
  <2>2. ASSUME NEW r \in Requests, Call(r) PROVE IInv'
    <3>1. CASE Refuse(r) \/ UNCHANGED vars
      BY <1>1, <3>1, StutterInvariant DEF Refuse
    <3>2. CASE Nothing(r)
      BY <1>1, <3>2, NothingInvariant
    <3>3. CASE Begin(r)
      BY <1>1, <3>3, BeginInvariant
    <3> QED
      BY <2>2, <3>1, <3>2, <3>3 DEF Call
  <2>3. CASE Prepare
    BY <1>1, <2>3, PrepareInvariant
  <2>4. CASE PrepareFails \/ FeedFails \/ ForwardFails \/ SampleFails
    BY <1>1, <2>4, FailureInvariant
  <2>5. CASE Prefill \/ Decode
    BY <1>1, <2>5, CallInvariant
  <2>6. CASE Feed
    BY <1>1, <2>6, FeedInvariant
  <2>7. CASE ForwardLast
    BY <1>1, <2>7, ForwardInvariant
  <2>8. CASE SampleNext
    BY <1>1, <2>8, SampleInvariant
  <2>9. CASE Deliver
    BY <1>1, <2>9, DeliverInvariant
  <2>10. CASE UNCHANGED vars
    BY <1>1, <2>10, StutterInvariant
  <2> QED
    BY <1>1, <2>1, <2>2, <2>3, <2>4, <2>5, <2>6, <2>7, <2>8, <2>9, <2>10 DEF Next, Step
<1> QED
  BY <1>1, InitInvariant, PTL DEF Spec

\* A generation that succeeds returns what its own request defines, whatever the
\* context, the buffer and the RNG were used for before, in both modes; and a later
\* failure leaves it alone.
THEOREM OutputOfRequestAlone == Spec => []OutputIsReference
<1>1. IInv => OutputIsReference
  BY DEF IInv
<1> QED
  BY <1>1, Invariance, PTL

\* The loop stays within the buffer and reads only what its own call has written.
THEOREM BufferSuffices == Spec => []BufferWithinBounds
<1>1. ASSUME IInv PROVE BufferWithinBounds
  <2> SUFFICES ASSUME pc \in {"evaluate", "feed", "sample"}
               PROVE  /\ Length < Capacity /\ count < Required(req)
                      /\ \A i \in 1..Length : prefix[i] \in Tokens
    BY DEF BufferWithinBounds
  <2>1. /\ req \in Requests /\ Acceptable(req) /\ count \in Nat /\ count < Required(req)
        /\ Holds(prefix, req, count, count)
    BY <1>1 DEF IInv, Counted, Written
  <2>2. Len(req.prompt) \in 1..Capacity /\ Len(req.prompt) + Required(req) <= Capacity
        /\ Required(req) \in 0..Capacity
    BY <2>1, Serving
  <2>3. Length < Capacity
    <3> DEFINE p == Len(req.prompt)
    <3>1. Length = p + count /\ p \in 1..Capacity /\ p + Required(req) <= Capacity
      BY <2>2 DEF Length
    <3> HIDE DEF p
    <3> QED
      BY <2>1, <2>2, <3>1, GenerateAssumption
  <2> QED
    BY <2>1, <2>3 DEF Holds, Length
<1> QED
  BY <1>1, Invariance, PTL

\* The context never refuses the loop, and answers for the whole sequence.
THEOREM ContextKeepsUp == Spec => []ContextFollows
<1>1. IInv => ContextFollows
  BY DEF IInv, Follows, ContextFollows
<1> QED
  BY <1>1, Invariance, PTL

\* No step that returns 1 touches the context, which an incremental generation leaves
\* one token short of its sequence.
THEOREM StopsWithoutForward == Spec => NoExtraForward
<1>1. ASSUME IInv, [Next]_vars
      PROVE  [granted' # granted =>
                /\ UNCHANGED text
                /\ incremental /\ pc = "deliver" =>
                     text = req.prompt \o SubSeq(out', 1, count - 1)]_vars
  <2> SUFFICES ASSUME Next, granted' # granted
               PROVE  /\ UNCHANGED text
                      /\ incremental /\ pc = "deliver" =>
                           text = req.prompt \o SubSeq(out', 1, count - 1)
    BY <1>1
  <2>1. (\E r \in Requests : Nothing(r)) \/ Deliver
    BY DEF Next, Call, Step, OtherUse, Refuse, Begin, Prepare, PrepareFails, Prefill, Decode,
           Feed, FeedFails, ForwardLast, ForwardFails, SampleNext, SampleFails, caller, vars
  <2>2. CASE \E r \in Requests : Nothing(r)
    BY <2>2 DEF Nothing, context
  <2>3. CASE Deliver
    <3>1. UNCHANGED text /\ pc = "deliver" /\ out' = SubSeq(prefix, Len(req.prompt) + 1, Length)
      BY <2>3 DEF Deliver, context
    <3>2. incremental => text = req.prompt \o SubSeq(out', 1, count - 1)
      BY <1>1, <3>1, Delivering
    <3> QED
      BY <3>1, <3>2
  <2> QED
    BY <2>1, <2>2, <2>3
<1> QED
  BY <1>1, Invariance, PTL DEF Spec, NoExtraForward
===============================================================================
