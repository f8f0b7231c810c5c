------------------------------ MODULE DataLemmas ------------------------------
(***************************************************************************)
(* Facts about data that the proofs of several modules rest on.            *)
(*                                                                         *)
(* They need induction, and are proved by a smallest counterexample: a     *)
(* nonempty set of naturals has a least element, and a nonempty set of     *)
(* subsets of a finite set has one that contains no other.  The second     *)
(* gives what there is to know of a sum over a finite set (MapThenSumSet   *)
(* of the community modules, with weights in Nat): it does not depend on   *)
(* the order in which it takes the elements.  The last lemmas are about    *)
(* sequences that are made of many, one behind the other.                  *)
(***************************************************************************)
EXTENDS Integers, SequencesExt, FiniteSetsExt, FiniteSetTheorems, WellFoundedInduction,
        SequenceTheorems, TLAPS

SumOver(W, S) == MapThenSumSet(LAMBDA c : W[c], S)

\* The element that the sum takes first, and the equation of the function by which
\* it is defined.
First(s) == CHOOSE c \in s : TRUE
Rest(s) == s \ {First(s)}
IsSum(g, W, S) ==
  g = [s \in SUBSET S |-> IF s = {} THEN 0 ELSE W[First(s)] + g[Rest(s)]]

\* A nonempty set of naturals has a least element.
LEMMA LeastNatural ==
  ASSUME NEW T \in SUBSET Nat, T # {}
  PROVE  \E m \in T : \A t \in T : m <= t
<1>1. PICK m \in T : \A t \in T : ~(<<t, m>> \in OpToRel(<, Nat))
  BY NatLessThanWellFounded, WFMin
<1>2. \A t \in T : ~(t < m)
  BY <1>1 DEF OpToRel
<1> QED
  BY <1>2

\* It is what Min picks.
LEMMA LeastIs ==
  ASSUME NEW S \in SUBSET Nat, S # {}
  PROVE  Min(S) \in S /\ \A x \in S : Min(S) <= x
<1>1. \E m \in S : \A t \in S : m <= t
  BY LeastNatural
<1> QED
  BY <1>1 DEF Min

\* A nonempty set of subsets of a finite set has one that contains no other.
LEMMA Smallest ==
  ASSUME NEW S, IsFiniteSet(S), NEW T \in SUBSET SUBSET S, T # {}
  PROVE  \E m \in T : \A t \in T : t \subseteq m => t = m
<1>1. IsWellFoundedOn(StrictSubsetOrdering(S), FiniteSubsetsOf(S))
  BY FS_StrictSubsetOrderingWellFounded
<1>2. FiniteSubsetsOf(S) = SUBSET S
  BY FS_FiniteSubsetsOfFinite
<1>3. PICK m \in T : \A t \in T : <<t, m>> \notin StrictSubsetOrdering(S)
  BY <1>1, <1>2, WFMin
<1>4. \A t \in T : t \subseteq m => t = m
  BY <1>3 DEF StrictSubsetOrdering
<1>5. QED
  BY <1>4

\* Taking the first element away leaves a smaller set.
LEMMA FirstOf == ASSUME NEW s, s # {} PROVE First(s) \in s /\ Rest(s) \subseteq s /\ Rest(s) # s
BY DEF First, Rest

\* The equation has at most one solution on each set.
LEMMA SumUnique ==
  ASSUME NEW W, NEW S, NEW T, NEW g, NEW h, IsSum(g, W, S), IsSum(h, W, T),
         NEW s \in SUBSET S, s \in SUBSET T, IsFiniteSet(s)
  PROVE  g[s] = h[s]
<1> DEFINE Bad == {r \in SUBSET s : g[r] # h[r]}
<1> SUFFICES ASSUME Bad # {} PROVE FALSE
  OBVIOUS
<1>1. PICK m \in Bad : \A r \in Bad : r \subseteq m => r = m
  <2>1. Bad \in SUBSET SUBSET s
    OBVIOUS
  <2> HIDE DEF Bad
  <2>2. QED
    BY <2>1, Smallest
<1>2. /\ g[m] = IF m = {} THEN 0 ELSE W[First(m)] + g[Rest(m)]
      /\ h[m] = IF m = {} THEN 0 ELSE W[First(m)] + h[Rest(m)]
  <2>1. m \in SUBSET S /\ m \in SUBSET T
    OBVIOUS
  <2>2. QED
    BY <2>1 DEF IsSum
<1>3. m # {}
  BY <1>2
<1>4. Rest(m) \in SUBSET s /\ Rest(m) \notin Bad
  BY <1>1, <1>3, FirstOf
<1>5. QED
  BY <1>2, <1>4

\* And it has one, on each finite set.
LEMMA SumExists ==
  ASSUME NEW W, NEW S, IsFiniteSet(S)
  PROVE  \E g : IsSum(g, W, S)
<1> DEFINE Bad == {T \in SUBSET S : ~ \E g : IsSum(g, W, T)}
<1> SUFFICES ASSUME Bad # {} PROVE FALSE
  OBVIOUS
<1>1. PICK T \in Bad : \A r \in Bad : r \subseteq T => r = T
  <2>1. Bad \in SUBSET SUBSET S
    OBVIOUS
  <2> HIDE DEF Bad
  <2>2. QED
    BY <2>1, Smallest
<1> DEFINE G(s) == CHOOSE g : IsSum(g, W, s)
           h == [s \in SUBSET T |-> IF s = {} THEN 0 ELSE W[First(s)] + G(Rest(s))[Rest(s)]]
<1>2. ASSUME NEW s \in SUBSET T, s # T PROVE IsSum(G(s), W, s) /\ IsFiniteSet(s)
  <2>1. s \in SUBSET S /\ s \notin Bad
    BY <1>1, <1>2
  <2>2. \E g : IsSum(g, W, s)
    BY <2>1
  <2>3. QED
    BY <2>1, <2>2, FS_Subset
<1>3. ASSUME NEW s \in SUBSET T, s # {} PROVE G(Rest(s))[Rest(s)] = h[Rest(s)]
  <2> DEFINE r == Rest(s)
  <2>1. r \in SUBSET T /\ r # T
    BY <1>3, FirstOf
  <2>2. IsSum(G(r), W, r) /\ r \in SUBSET r /\ IsFiniteSet(r)
    BY <1>2, <2>1
  <2>3. G(r)[r] = IF r = {} THEN 0 ELSE W[First(r)] + G(r)[Rest(r)]
    BY <2>2 DEF IsSum
  <2>4. h[r] = IF r = {} THEN 0 ELSE W[First(r)] + G(Rest(r))[Rest(r)]
    BY <2>1
  <2>5. ASSUME r # {} PROVE G(r)[Rest(r)] = G(Rest(r))[Rest(r)]
    <3>1. Rest(r) \in SUBSET r /\ Rest(r) \in SUBSET T /\ Rest(r) # T
      BY <2>1, <2>5, FirstOf
    <3>2. IsSum(G(Rest(r)), W, Rest(r)) /\ IsFiniteSet(Rest(r)) /\ Rest(r) \in SUBSET Rest(r)
      BY <1>2, <3>1
    <3> HIDE DEF G, r
    <3>3. QED
      BY <2>2, <3>1, <3>2, SumUnique
  <2>6. QED
    BY <2>3, <2>4, <2>5
<1>4. h = [s \in SUBSET T |-> IF s = {} THEN 0 ELSE W[First(s)] + h[Rest(s)]]
  <2> DEFINE k == [s \in SUBSET T |-> IF s = {} THEN 0 ELSE W[First(s)] + h[Rest(s)]]
  <2>1. ASSUME NEW s \in SUBSET T PROVE h[s] = k[s]
    <3>1. h[s] = IF s = {} THEN 0 ELSE W[First(s)] + G(Rest(s))[Rest(s)]
      OBVIOUS
    <3>2. k[s] = IF s = {} THEN 0 ELSE W[First(s)] + h[Rest(s)]
      OBVIOUS
    <3> HIDE DEF h, k, G
    <3>3. QED
      BY <1>3, <3>1, <3>2
  <2>2. QED
    BY <2>1
<1>5. IsSum(h, W, T)
  BY <1>4 DEF IsSum
<1>6. QED
  BY <1>5

\* The sum is the value of the solution.
LEMMA SumIs ==
  ASSUME NEW W, NEW S, NEW g, IsFiniteSet(S), IsSum(g, W, S)
  PROVE  SumOver(W, S) = g[S]
<1> DEFINE f == CHOOSE f : IsSum(f, W, S)
<1>1. SumOver(W, S) = f[S]
  BY DEF SumOver, MapThenSumSet, MapThenFoldSet, IsSum, First, Rest
<1>2. IsSum(f, W, S)
  OBVIOUS
<1> HIDE DEF f
<1>3. QED
  BY <1>1, <1>2, SumUnique

\* The sum over nothing is 0.
LEMMA SumOfNothing == ASSUME NEW W PROVE SumOver(W, {}) = 0
<1>1. PICK g : IsSum(g, W, {})
  BY SumExists, FS_EmptySet
<1>2. g[{}] = 0
  BY <1>1 DEF IsSum
<1>3. QED
  BY <1>1, <1>2, SumIs, FS_EmptySet

\* Otherwise the first element is added to the rest.
LEMMA SumOfFirst ==
  ASSUME NEW W, NEW S, IsFiniteSet(S), S # {}
  PROVE  SumOver(W, S) = W[First(S)] + SumOver(W, Rest(S))
<1>1. PICK g : IsSum(g, W, S)
  BY SumExists
<1>2. Rest(S) \in SUBSET S /\ IsFiniteSet(Rest(S))
  BY FirstOf, FS_Subset
<1>3. PICK h : IsSum(h, W, Rest(S))
  BY <1>2, SumExists
<1>4. g[S] = W[First(S)] + g[Rest(S)]
  BY <1>1 DEF IsSum
<1>5. g[Rest(S)] = h[Rest(S)]
  BY <1>1, <1>2, <1>3, SumUnique
<1>6. SumOver(W, S) = g[S] /\ SumOver(W, Rest(S)) = h[Rest(S)]
  BY <1>1, <1>2, <1>3, SumIs
<1>7. QED
  BY <1>4, <1>5, <1>6

\* A sum of natural numbers is one.
LEMMA SumType ==
  ASSUME NEW S, IsFiniteSet(S), NEW W, \A c \in S : W[c] \in Nat
  PROVE  SumOver(W, S) \in Nat
<1> DEFINE Bad == {s \in SUBSET S : SumOver(W, s) \notin Nat}
<1> SUFFICES ASSUME Bad # {} PROVE FALSE
  OBVIOUS
<1>1. PICK m \in Bad : \A r \in Bad : r \subseteq m => r = m
  <2>1. Bad \in SUBSET SUBSET S
    OBVIOUS
  <2> HIDE DEF Bad
  <2>2. QED
    BY <2>1, Smallest
<1>2. m # {}
  BY SumOfNothing
<1>3. First(m) \in S /\ Rest(m) \in SUBSET S /\ Rest(m) \notin Bad /\ IsFiniteSet(m)
  BY <1>1, <1>2, FirstOf, FS_Subset
<1>4. SumOver(W, m) = W[First(m)] + SumOver(W, Rest(m))
  BY <1>2, <1>3, SumOfFirst
<1>5. QED
  BY <1>3, <1>4

\* Any element may be taken first.
LEMMA SumOfAny ==
  ASSUME NEW S, IsFiniteSet(S), NEW W, \A c \in S : W[c] \in Nat, NEW x \in S
  PROVE  SumOver(W, S) = W[x] + SumOver(W, S \ {x})
<1> DEFINE Bad == {s \in SUBSET S : \E c \in s : SumOver(W, s) # W[c] + SumOver(W, s \ {c})}
<1> SUFFICES ASSUME Bad # {} PROVE FALSE
  OBVIOUS
<1>1. PICK m \in Bad : \A r \in Bad : r \subseteq m => r = m
  <2>1. Bad \in SUBSET SUBSET S
    OBVIOUS
  <2> HIDE DEF Bad
  <2>2. QED
    BY <2>1, Smallest
<1>2. PICK c \in m : SumOver(W, m) # W[c] + SumOver(W, m \ {c})
  OBVIOUS
<1> DEFINE d == First(m)
           mc == m \ {c}
           md == m \ {d}
           rest == m \ {c, d}
<1>3. /\ m \in SUBSET S /\ m # {} /\ d \in m /\ IsFiniteSet(m)
  BY <1>2, FirstOf, FS_Subset
<1>4. SumOver(W, m) = W[d] + SumOver(W, md)
  BY <1>3, SumOfFirst DEF Rest
<1>5. c # d
  BY <1>2, <1>4
<1>6. /\ mc \in SUBSET S /\ md \in SUBSET S /\ rest \in SUBSET S
      /\ mc \notin Bad /\ md \notin Bad /\ c \in md /\ d \in mc
      /\ rest = mc \ {d} /\ rest = md \ {c}
  BY <1>1, <1>3, <1>5
<1>7. SumOver(W, md) = W[c] + SumOver(W, rest) /\ SumOver(W, mc) = W[d] + SumOver(W, rest)
  BY <1>6
<1>8. SumOver(W, rest) \in Nat /\ W[c] \in Nat /\ W[d] \in Nat
  BY <1>3, <1>6, SumType, FS_Subset
<1> HIDE DEF d, mc, md, rest
<1>9. W[d] + SumOver(W, md) = W[c] + SumOver(W, mc)
  BY <1>7, <1>8
<1>10. QED
  BY <1>2, <1>4, <1>9 DEF mc

\* A new element adds its weight.
THEOREM SumGrows ==
  ASSUME NEW S, IsFiniteSet(S), NEW W, NEW x, x \notin S, \A c \in S \cup {x} : W[c] \in Nat
  PROVE  SumOver(W, S \cup {x}) = SumOver(W, S) + W[x]
<1> DEFINE T == S \cup {x}
<1>1. IsFiniteSet(T) /\ x \in T /\ T \ {x} = S
  BY FS_AddElement
<1>2. SumOver(W, T) = W[x] + SumOver(W, T \ {x})
  BY <1>1, SumOfAny
<1>3. SumOver(W, S) \in Nat /\ W[x] \in Nat
  BY SumType
<1>4. QED
  BY <1>1, <1>2, <1>3

-------------------------------------------------------------------------------
\* Sums over the first m numbers.
LEMMA SumOfNext ==
  ASSUME NEW W, NEW m \in Nat, \A i \in 1..(m + 1) : W[i] \in Nat
  PROVE  SumOver(W, 1..(m + 1)) = SumOver(W, 1..m) + W[m + 1]
<1> DEFINE S == 1..m
           x == m + 1
<1>1. IsFiniteSet(S)
  BY FS_Interval
<1>2. x \notin S /\ 1..(m + 1) = S \cup {x} /\ \A c \in S \cup {x} : W[c] \in Nat
  OBVIOUS
<1>3. ASSUME x \notin S, \A c \in S \cup {x} : W[c] \in Nat
      PROVE  SumOver(W, S \cup {x}) = SumOver(W, S) + W[x]
  <2> HIDE DEF S, x
  <2> QED
    BY <1>1, <1>3, SumGrows
<1> QED
  BY <1>2, <1>3

\* They are natural numbers and grow with m.
LEMMA SumsType ==
  ASSUME NEW W, NEW n \in Nat, \A i \in 1..n : W[i] \in Nat, NEW m \in 0..n
  PROVE  SumOver(W, 1..m) \in Nat
<1> DEFINE S == 1..m
<1>1. IsFiniteSet(S)
  BY FS_Interval
<1>2. \A c \in S : W[c] \in Nat
  OBVIOUS
<1> HIDE DEF S
<1>3. SumOver(W, S) \in Nat
  BY <1>1, <1>2, SumType
<1> QED
  BY <1>3 DEF S

\* A sum over more places is no smaller.
LEMMA SumsGrow ==
  ASSUME NEW W, NEW n \in Nat, \A i \in 1..n : W[i] \in Nat, NEW i \in 0..n, NEW j \in i..n
  PROVE  SumOver(W, 1..i) <= SumOver(W, 1..j)
<1> DEFINE Bad == {m \in i..n : ~(SumOver(W, 1..i) <= SumOver(W, 1..m))}
<1> SUFFICES ASSUME Bad # {} PROVE FALSE
  OBVIOUS
<1>1. PICK m \in Bad : \A h \in Bad : m <= h
  <2>1. Bad \in SUBSET Nat
    OBVIOUS
  <2> HIDE DEF Bad
  <2> QED
    BY <2>1, LeastNatural
<1>2. /\ m \in i..n /\ ~(SumOver(W, 1..i) <= SumOver(W, 1..m))
      /\ \A h \in i..n : h < m => SumOver(W, 1..i) <= SumOver(W, 1..h)
  BY <1>1
<1> HIDE DEF Bad
<1>3. SumOver(W, 1..i) \in Nat /\ m # i
  BY <1>2, SumsType
<1> DEFINE h == m - 1
<1>4. h \in i..n /\ h \in Nat /\ h \in 0..n /\ h < m /\ m = h + 1 /\ \A c \in 1..(h + 1) : W[c] \in Nat
  BY <1>2, <1>3
<1> HIDE DEF h
<1>5. SumOver(W, 1..h) \in Nat
  BY <1>4, SumsType
<1>6. SumOver(W, 1..(h + 1)) = SumOver(W, 1..h) + W[h + 1]
  BY <1>4, SumOfNext
<1>7. SumOver(W, 1..i) <= SumOver(W, 1..h) /\ W[h + 1] \in Nat
  BY <1>2, <1>4
<1> QED
  BY <1>2, <1>3, <1>4, <1>5, <1>6, <1>7

\* What a listing has at its first m places.
Listed(order, m) == {order[i] : i \in 1..m}

\* Up to n, the listing repeats nothing and W has at a place what V has of its element.
Carries(order, n, V, W) ==
  /\ \A i, j \in 1..n : order[i] = order[j] => i = j
  /\ \A i \in 1..n : V[order[i]] = W[i] /\ W[i] \in Nat

\* The places of a listing without repetitions weigh what the listed elements weigh.
LEMMA SumMoved ==
  ASSUME NEW n \in Nat, NEW order, NEW V, NEW W, Carries(order, n, V, W), NEW m \in 0..n
  PROVE  SumOver(V, Listed(order, m)) = SumOver(W, 1..m)
<1>0. /\ \A i, j \in 1..n : order[i] = order[j] => i = j
      /\ \A i \in 1..n : V[order[i]] = W[i] /\ W[i] \in Nat
  BY DEF Carries
<1> DEFINE L(h) == Listed(order, h)
           Bad == {h \in 0..n : ~(IsFiniteSet(L(h)) /\ SumOver(V, L(h)) = SumOver(W, 1..h))}
<1> SUFFICES ASSUME Bad # {} PROVE FALSE
  OBVIOUS
<1>1. PICK k \in Bad : \A h \in Bad : k <= h
  <2>1. Bad \in SUBSET Nat
    OBVIOUS
  <2> HIDE DEF Bad
  <2> QED
    BY <2>1, LeastNatural
<1>2. k \in 0..n /\ \A h \in 0..n : h < k => h \notin Bad
  <2>1. k \in 0..n
    OBVIOUS
  <2> HIDE DEF Bad
  <2> QED
    BY <1>1, <2>1
<1>3. k # 0
  <2>1. L(0) = {} /\ 1..0 = {}
    BY DEF Listed
  <2> HIDE DEF L
  <2> QED
    BY <2>1, <1>1, SumOfNothing, FS_EmptySet
<1> DEFINE h == k - 1
<1>4. h \in 0..n /\ h \in Nat /\ h < k /\ k = h + 1 /\ k \in 1..n
  BY <1>2, <1>3
<1> HIDE DEF h
<1>5. IsFiniteSet(L(h)) /\ SumOver(V, L(h)) = SumOver(W, 1..h)
  <2>1. h \notin Bad
    BY <1>2, <1>4
  <2> HIDE DEF L
  <2> QED
    BY <1>4, <2>1
<1>6. L(k) = L(h) \cup {order[k]} /\ order[k] \notin L(h)
  BY <1>0, <1>4 DEF Listed
<1>7. \A c \in L(h) \cup {order[k]} : V[c] \in Nat
  BY <1>0, <1>4 DEF Listed
<1>8. V[order[k]] = W[k] /\ \A i \in 1..(h + 1) : W[i] \in Nat
  BY <1>0, <1>4
<1> HIDE DEF L
<1>9. SumOver(V, L(k)) = SumOver(V, L(h)) + V[order[k]]
  <2> DEFINE S == L(h)
             x == order[k]
  <2>1. IsFiniteSet(S)
    BY <1>5
  <2>3. x \notin S
    BY <1>6
  <2>4. \A c \in S \cup {x} : V[c] \in Nat
    BY <1>7
  <2> HIDE DEF S, x, Bad
  <2>2. SumOver(V, S \cup {x}) = SumOver(V, S) + V[x]
    BY <2>1, <2>3, <2>4, SumGrows
  <2> QED
    BY <1>6, <2>2 DEF S, x
<1>10. SumOver(W, 1..(h + 1)) = SumOver(W, 1..h) + W[h + 1]
  BY <1>4, <1>8, SumOfNext
<1>11. IsFiniteSet(L(k))
  BY <1>5, <1>6, FS_AddElement
<1> QED
  BY <1>1, <1>4, <1>5, <1>8, <1>9, <1>10, <1>11

-------------------------------------------------------------------------------
\* A relation that ranks the elements of a set.
Ranks(R, S) ==
  /\ \A x \in S : <<x, x>> \notin R
  /\ \A x, y, z \in S : <<x, y>> \in R /\ <<y, z>> \in R => <<x, z>> \in R
  /\ \A x, y \in S : x = y \/ <<x, y>> \in R \/ <<y, x>> \in R

\* A listing of 1..n in which each element ranks before the later ones.
InOrder(order, R, n) ==
  /\ order \in [1..n -> 1..n]
  /\ \A i, j \in 1..n : i < j => <<order[i], order[j]>> \in R

\* The numbers that rank before x.
RankedBefore(R, n, x) == {t \in 1..n : <<t, x>> \in R}

\* Some element of a nonempty set ranks before all others.
LEMMA FirstInOrder ==
  ASSUME NEW S, IsFiniteSet(S), NEW R, Ranks(R, S), NEW T \in SUBSET S, T # {}
  PROVE  \E m \in T : \A t \in T \ {m} : <<m, t>> \in R
<1> DEFINE Before(x) == {y \in T : <<y, x>> \in R}
           Sets == {Before(x) : x \in T}
<1>1. PICK B \in Sets : \A C \in Sets : C \subseteq B => C = B
  <2>1. Sets \in SUBSET SUBSET S /\ Sets # {}
    OBVIOUS
  <2> HIDE DEF Sets
  <2> QED
    BY <2>1, Smallest
<1>2. PICK m \in T : B = Before(m)
  BY <1>1
<1>3. ASSUME NEW t \in T, <<t, m>> \in R PROVE FALSE
  <2>1. Before(t) \subseteq Before(m)
    BY <1>3 DEF Ranks
  <2>2. t \in Before(m) /\ t \notin Before(t)
    BY <1>3 DEF Ranks
  <2> QED
    BY <1>1, <1>2, <2>1, <2>2
<1> QED
  BY <1>3 DEF Ranks

\* A ranked set of numbers can be listed in order.
LEMMA Arrangement ==
  ASSUME NEW n \in Nat, NEW R, Ranks(R, 1..n)
  PROVE  \E order : InOrder(order, R, n)
<1> DEFINE Lists(o, m) ==
             /\ o \in [1..m -> 1..n]
             /\ \A i, j \in 1..m : i < j => <<o[i], o[j]>> \in R
             /\ \A t \in 1..n : (\A i \in 1..m : o[i] # t) => \A i \in 1..m : <<o[i], t>> \in R
           Bad == {m \in 0..n : ~ \E o : Lists(o, m)}
<1>1. Bad = {}
  <2> SUFFICES ASSUME Bad # {} PROVE FALSE
    OBVIOUS
  <2>1. PICK k \in Bad : \A h \in Bad : k <= h
    <3>1. Bad \in SUBSET Nat
      OBVIOUS
    <3> HIDE DEF Bad
    <3> QED
      BY <3>1, LeastNatural
  <2>2. k \in 0..n /\ (\A h \in 0..n : h < k => h \notin Bad) /\ ~ \E o : Lists(o, k)
    <3>1. k \in 0..n /\ ~ \E o : Lists(o, k)
      OBVIOUS
    <3> HIDE DEF Bad, Lists
    <3> QED
      BY <2>1, <3>1
  <2>3. k # 0
    <3>1. Lists([i \in 1..0 |-> 1], 0)
      OBVIOUS
    <3> QED
      BY <2>2, <3>1
  <2> DEFINE h == k - 1
  <2>4. h \in 0..n /\ h \in Nat /\ h < k /\ k = h + 1 /\ k \in 1..n
    BY <2>2, <2>3
  <2> HIDE DEF h
  <2>5. PICK o : Lists(o, h)
    BY <2>2, <2>4
  <2> DEFINE U == {t \in 1..n : \A i \in 1..h : o[i] # t}
  <2>6. U # {}
    <3> SUFFICES ASSUME U = {} PROVE FALSE
      OBVIOUS
    <3>1. o \in Surjection(1..h, 1..n)
      BY <2>5 DEF Surjection
    <3>2. Cardinality(1..n) <= Cardinality(1..h)
      BY <3>1, FS_Surjection, FS_Interval, <2>4
    <3>3. \A b \in Nat : Cardinality(1..b) = b
      BY FS_Interval
    <3> QED
      BY <2>4, <3>2, <3>3
  <2>7. PICK u \in U : \A t \in U \ {u} : <<u, t>> \in R
    <3> DEFINE S == 1..n
    <3>1. U \in SUBSET S /\ IsFiniteSet(S) /\ Ranks(R, S)
      BY FS_Interval
    <3> HIDE DEF U, S
    <3> QED
      BY <2>6, <3>1, FirstInOrder
  <2> DEFINE q == [i \in 1..k |-> IF i = k THEN u ELSE o[i]]
  <2>8. /\ q \in [1..k -> 1..n] /\ q[k] = u
        /\ \A i \in 1..h : q[i] = o[i]
        /\ \A i \in 1..k : i = k \/ i \in 1..h
    BY <2>4, <2>5
  <2> HIDE DEF q
  <2>9. \A i, j \in 1..k : i < j => <<q[i], q[j]>> \in R
    <3> SUFFICES ASSUME NEW i \in 1..k, NEW j \in 1..k, i < j PROVE <<q[i], q[j]>> \in R
      OBVIOUS
    <3>1. i \in 1..h
      BY <2>4
    <3>2. CASE j = k
      BY <2>5, <2>7, <2>8, <3>1, <3>2
    <3>3. CASE j \in 1..h
      BY <2>5, <2>8, <3>1, <3>3
    <3> QED
      BY <2>8, <3>2, <3>3
  <2>10. ASSUME NEW t \in 1..n, \A i \in 1..k : q[i] # t, NEW i \in 1..k
         PROVE  <<q[i], t>> \in R
    <3>1. t \in U \ {u}
      BY <2>4, <2>8, <2>10
    <3>2. CASE i = k
      BY <2>7, <2>8, <3>1, <3>2
    <3>3. CASE i \in 1..h
      BY <2>5, <2>8, <3>1, <3>3
    <3> QED
      BY <2>8, <3>2, <3>3
  <2>11. Lists(q, k)
    BY <2>8, <2>9, <2>10
  <2> QED
    BY <2>2, <2>11
<1>2. n \in 0..n
  OBVIOUS
<1>3. PICK o : Lists(o, n)
  BY <1>1, <1>2
<1> QED
  BY <1>3 DEF InOrder

\* Such a listing has each number once ...
LEMMA ListsEach ==
  ASSUME NEW n \in Nat, NEW R, Ranks(R, 1..n), NEW order, InOrder(order, R, n)
  PROVE  /\ \A i, j \in 1..n : order[i] = order[j] => i = j
         /\ \A t \in 1..n : \E i \in 1..n : order[i] = t
         /\ \A i, j \in 1..n : <<order[i], order[j]>> \in R <=> i < j
<1>1. \A i, j \in 1..n : i < j => order[i] # order[j] /\ <<order[j], order[i]>> \notin R
  BY DEF Ranks, InOrder
<1>2. \A i, j \in 1..n : order[i] = order[j] => i = j
  <2> SUFFICES ASSUME NEW i \in 1..n, NEW j \in 1..n, order[i] = order[j] PROVE i = j
    OBVIOUS
  <2>1. i = j \/ i < j \/ j < i
    OBVIOUS
  <2> QED
    BY <1>1, <2>1
<1>3. order \in Injection(1..n, 1..n)
  BY <1>2 DEF InOrder, Injection, IsInjective
<1>4. order \in Surjection(1..n, 1..n)
  BY <1>3, FS_Injection, FS_Interval
<1>5. ASSUME NEW i \in 1..n, NEW j \in 1..n PROVE <<order[i], order[j]>> \in R <=> i < j
  <2>1. i = j \/ i < j \/ j < i
    OBVIOUS
  <2>2. order[i] \in 1..n
    BY DEF InOrder
  <2> QED
    BY <1>1, <2>1, <2>2 DEF InOrder, Ranks
<1> QED
  BY <1>2, <1>4, <1>5 DEF Surjection

\* ... and the number at place i has i - 1 numbers before it.
LEMMA PlaceInOrder ==
  ASSUME NEW n \in Nat, NEW R, Ranks(R, 1..n), NEW order, InOrder(order, R, n), NEW i \in 1..n
  PROVE  /\ RankedBefore(R, n, order[i]) = Listed(order, i - 1)
         /\ Cardinality(RankedBefore(R, n, order[i])) = i - 1
<1> USE DEF RankedBefore, Listed
<1> DEFINE Before == RankedBefore(R, n, order[i])
           f == [j \in 1..(i - 1) |-> order[j]]
<1>1. Before = {order[j] : j \in 1..(i - 1)}
  <2>1. ASSUME NEW t \in Before PROVE \E j \in 1..(i - 1) : t = order[j]
    <3>1. PICK j \in 1..n : order[j] = t
      BY ListsEach
    <3>2. j < i
      BY <3>1, ListsEach
    <3> QED
      BY <3>1, <3>2
  <2>2. ASSUME NEW j \in 1..(i - 1) PROVE order[j] \in Before
    <3>1. j \in 1..n /\ j < i
      OBVIOUS
    <3> QED
      BY <3>1, ListsEach DEF InOrder
  <2> QED
    BY <2>1, <2>2
<1>2. f \in Bijection(1..(i - 1), Before)
  <2>1. \A j \in 1..(i - 1) : j \in 1..n
    OBVIOUS
  <2>2. f \in [1..(i - 1) -> Before]
    BY <1>1
  <2>4. IsInjective(f)
    <3>1. \A j, k \in 1..n : order[j] = order[k] => j = k
      BY ListsEach
    <3> QED
      BY <2>1, <3>1 DEF IsInjective
  <2>3. \A t \in Before : \E j \in 1..(i - 1) : f[j] = t
    BY <1>1
  <2> QED
    BY <2>2, <2>3, <2>4 DEF Bijection, Injection, Surjection
<1>3. Cardinality(Before) = i - 1
  <2> HIDE DEF Before, f, RankedBefore, Listed
  <2>1. ExistsBijection(1..(i - 1), Before)
    BY <1>2 DEF ExistsBijection
  <2>2. i - 1 \in Nat
    OBVIOUS
  <2> QED
    BY <2>1, <2>2, FS_CountingElements
<1> QED
  BY <1>1, <1>3

-------------------------------------------------------------------------------
\* The sequences that FlattenSeq goes through.
Flattens(f, parts, n) ==
  /\ f[1] = parts[1] /\ \A i \in 2..n : f[i] = f[i - 1] \o parts[i]
  /\ FlattenSeq(parts) = f[n]

\* FlattenSeq goes through the sequences one by one.
LEMMA FlattenIs ==
  ASSUME NEW S, NEW n \in Nat \ {0}, NEW parts \in [1..n -> Seq(S)]
  PROVE  \E f \in [1..n -> Seq(S)] : Flattens(f, parts, n)
<1> DEFINE Solves(f, m) ==
             f = [i \in 1..m |-> IF i = 1 THEN parts[i] ELSE f[i - 1] \o parts[i]]
           Bad == {m \in 1..n : ~ \E f \in [1..m -> Seq(S)] : Solves(f, m)}
<1>1. \A i \in 1..n : parts[i] \in Seq(S)
  OBVIOUS
<1>2. Bad = {}
  <2> SUFFICES ASSUME Bad # {} PROVE FALSE
    OBVIOUS
  <2>1. PICK m \in Bad : \A k \in Bad : m <= k
    <3>1. Bad \in SUBSET Nat
      <4> HIDE DEF Solves
      <4> QED
        OBVIOUS
    <3> HIDE DEF Bad
    <3> QED
      BY <3>1, LeastNatural
  <2>2. m \in 1..n /\ ~ \E f \in [1..m -> Seq(S)] : Solves(f, m)
    OBVIOUS
  <2>3. CASE m = 1
    <3> DEFINE f == [i \in 1..1 |-> parts[1]]
    <3>1. f \in [1..1 -> Seq(S)] /\ Solves(f, 1)
      BY <1>1
    <3> QED
      BY <2>2, <2>3, <3>1
  <2>4. CASE m # 1
    <3> DEFINE h == m - 1
    <3>1. h \in 1..n /\ h \notin Bad /\ h < m /\ \A i \in 1..m : i # m => i \in 1..h
      <4>1. h \in 1..n /\ h < m /\ \A i \in 1..m : i # m => i \in 1..h
        BY <2>2, <2>4
      <4> HIDE DEF Bad, h
      <4>2. h \notin Bad
        <5>1. h \in Bad => m <= h
          BY <2>1
        <5> QED
          BY <2>2, <4>1, <5>1
      <4> QED
        BY <4>1, <4>2
    <3>2. PICK f \in [1..h -> Seq(S)] : Solves(f, h)
      BY <3>1
    <3> DEFINE g == [i \in 1..m |-> IF i = m THEN f[h] \o parts[m] ELSE f[i]]
    <3>3. f[h] \o parts[m] \in Seq(S)
      <4>1. f[h] \in Seq(S) /\ parts[m] \in Seq(S)
        BY <1>1, <2>2, <3>1
      <4> QED
        BY <4>1, ConcatProperties
    <3>4. g \in [1..m -> Seq(S)]
      BY <3>1, <3>3
    <3>5. ASSUME NEW i \in 1..m
          PROVE  g[i] = IF i = 1 THEN parts[i] ELSE g[i - 1] \o parts[i]
      <4>1. CASE i = m
        <5>1. m - 1 \in 1..m /\ m - 1 # m /\ m - 1 = h
          BY <2>2, <2>4
        <5>2. g[m - 1] = f[h] /\ g[m] = f[h] \o parts[m]
          BY <2>2, <5>1
        <5> HIDE DEF g
        <5> QED
          BY <2>4, <4>1, <5>2
      <4>2. CASE i # m
        <5>1. i \in 1..h /\ (i # 1 => i - 1 \in 1..m /\ i - 1 # m)
          BY <2>2, <3>1, <4>2
        <5>2. f[i] = IF i = 1 THEN parts[i] ELSE f[i - 1] \o parts[i]
          BY <3>2, <5>1
        <5>3. g[i] = f[i] /\ (i # 1 => g[i - 1] = f[i - 1])
          BY <4>2, <5>1
        <5> QED
          BY <5>2, <5>3
      <4> QED
        BY <4>1, <4>2
    <3>6. Solves(g, m)
      <4>1. g = [i \in 1..m |-> g[i]]
        BY <3>4
      <4> HIDE DEF g
      <4> QED
        BY <3>5, <4>1
    <3> QED
      BY <2>2, <3>4, <3>6
  <2> QED
    BY <2>3, <2>4
<1>3. \E f \in [1..n -> Seq(S)] : Solves(f, n)
  <2>1. n \in 1..n
    OBVIOUS
  <2> QED
    BY <1>2, <2>1
<1> DEFINE F == CHOOSE f : Solves(f, n)
<1>4. Solves(F, n)
  <2> HIDE DEF Solves
  <2> QED
    BY <1>3
<1>5. FlattenSeq(parts) = F[n]
  <2>1. Len(parts) = n /\ n # 0
    <3>1. parts \in Seq(Seq(S))
      OBVIOUS
    <3> QED
      BY LenProperties
  <2> QED
    BY <2>1 DEF FlattenSeq
<1> HIDE DEF F
<1>6. /\ F = [i \in 1..n |-> F[i]] /\ F[1] = parts[1]
      /\ \A i \in 2..n : F[i] = F[i - 1] \o parts[i]
  <2>1. \A i \in 1..n : F[i] = IF i = 1 THEN parts[i] ELSE F[i - 1] \o parts[i]
    BY <1>4
  <2>2. F = [i \in 1..n |-> F[i]]
    BY <1>4
  <2>3. 1 \in 1..n /\ \A i \in 2..n : i \in 1..n /\ i # 1
    OBVIOUS
  <2> QED
    BY <2>1, <2>2, <2>3
<1> DEFINE Odd == {m \in 1..n : F[m] \notin Seq(S)}
<1>7. Odd = {}
  <2> SUFFICES ASSUME Odd # {} PROVE FALSE
    OBVIOUS
  <2>1. PICK m \in Odd : \A k \in Odd : m <= k
    <3>1. Odd \in SUBSET Nat
      OBVIOUS
    <3> HIDE DEF Odd
    <3> QED
      BY <3>1, LeastNatural
  <2>2. m \in 1..n /\ F[m] \notin Seq(S)
    OBVIOUS
  <2>3. m # 1
    BY <1>1, <1>6, <2>2
  <2>4. m - 1 \in 1..n /\ m - 1 \notin Odd
    BY <2>1, <2>2, <2>3
  <2>5. F[m - 1] \in Seq(S) /\ parts[m] \in Seq(S) /\ F[m] = F[m - 1] \o parts[m]
    <3>1. m \in 2..n
      BY <2>2, <2>3
    <3>2. F[m] = F[m - 1] \o parts[m]
      BY <1>6, <3>1
    <3>3. F[m - 1] \in Seq(S)
      BY <2>4
    <3> QED
      BY <1>1, <2>2, <3>2, <3>3
  <2> QED
    BY <2>2, <2>5, ConcatProperties
<1>8. F \in [1..n -> Seq(S)]
  <2> HIDE DEF Solves
  <2>1. \A m \in 1..n : F[m] \in Seq(S)
    BY <1>7
  <2> QED
    BY <1>6, <2>1
<1>9. Flattens(F, parts, n)
  BY <1>5, <1>6 DEF Flattens
<1> QED
  BY <1>8, <1>9

\* The part is in the whole, behind d other elements.
Located(whole, d, part) ==
  /\ d \in Nat /\ d + Len(part) <= Len(whole)
  /\ \A w \in 1..Len(part) : whole[d + w] = part[w]

\* A part of a flattened sequence is behind the lengths of those before it.
LEMMA FlattenedAt ==
  ASSUME NEW S, NEW n \in Nat \ {0}, NEW parts \in [1..n -> Seq(S)], NEW W,
         \A i \in 1..n : W[i] = Len(parts[i]), NEW p \in 1..n
  PROVE  /\ FlattenSeq(parts) \in Seq(S)
         /\ Located(FlattenSeq(parts), SumOver(W, 1..(p - 1)), parts[p])
<1>0. PICK f \in [1..n -> Seq(S)] : Flattens(f, parts, n)
  BY FlattenIs
<1>1. /\ f[1] = parts[1] /\ \A i \in 2..n : f[i] = f[i - 1] \o parts[i]
      /\ FlattenSeq(parts) = f[n]
  BY <1>0 DEF Flattens
<1>2. \A i \in 1..n :
        parts[i] \in Seq(S) /\ W[i] \in Nat /\ f[i] \in Seq(S) /\ Len(f[i]) \in Nat
  <2> SUFFICES ASSUME NEW i \in 1..n
               PROVE  parts[i] \in Seq(S) /\ W[i] \in Nat /\ f[i] \in Seq(S) /\ Len(f[i]) \in Nat
    OBVIOUS
  <2>1. parts[i] \in Seq(S) /\ f[i] \in Seq(S)
    OBVIOUS
  <2> QED
    BY <2>1, LenProperties
<1> DEFINE T(i) == SumOver(W, 1..i)
<1>3. \A i \in 0..n : T(i) \in Nat
  BY <1>2, SumsType
<1>4. T(0) = 0
  <2>1. 1..0 = {}
    OBVIOUS
  <2> QED
    BY <2>1, SumOfNothing
<1>5. ASSUME NEW i \in 1..n PROVE T(i) = T(i - 1) + W[i]
  <2> DEFINE h == i - 1
  <2>1. h \in Nat /\ h + 1 = i /\ \A c \in 1..(h + 1) : W[c] \in Nat
    BY <1>2
  <2> HIDE DEF h
  <2>2. SumOver(W, 1..(h + 1)) = SumOver(W, 1..h) + W[h + 1]
    BY <2>1, SumOfNext
  <2>3. T(i) = SumOver(W, 1..h) + W[i]
    BY <2>1, <2>2
  <2> QED
    BY <2>3 DEF h
<1> HIDE DEF T
<1> DEFINE Good(m) ==
             /\ Len(f[m]) = T(m)
             /\ \A q \in 1..m : \A w \in 1..W[q] :
                  T(q - 1) + w \in 1..T(m) /\ f[m][T(q - 1) + w] = parts[q][w]
           Bad == {m \in 1..n : ~Good(m)}
<1>6. Good(1)
  <2>1. T(1) = W[1] /\ T(1 - 1) = 0
    <3>1. T(1) = T(1 - 1) + W[1] /\ 1 - 1 = 0 /\ W[1] \in Nat
      BY <1>2, <1>5
    <3> QED
      BY <1>4, <3>1
  <2>2. ASSUME NEW q \in 1..1, NEW w \in 1..W[q]
        PROVE  T(q - 1) + w \in 1..T(1) /\ f[1][T(q - 1) + w] = parts[q][w]
    <3>1. q = 1 /\ T(q - 1) + w = w
      BY <2>1
    <3> QED
      BY <1>1, <2>1, <3>1
  <2>3. Len(f[1]) = T(1)
    BY <1>1, <2>1
  <2> QED
    BY <2>2, <2>3
<1>7. ASSUME NEW m \in 2..n, Good(m - 1) PROVE Good(m)
  <2> DEFINE h == m - 1
  <2>1. h \in 1..n /\ m \in 1..n /\ f[m] = f[h] \o parts[m] /\ T(m) = T(h) + W[m]
        /\ (\A q \in 1..m : q = m \/ q \in 1..h) /\ m - 1 = h
    <3>1. h \in 1..n /\ m \in 1..n /\ \A q \in 1..m : q = m \/ q \in 1..h
      OBVIOUS
    <3>2. f[m] = f[h] \o parts[m]
      BY <1>1
    <3>3. T(m) = T(h) + W[m]
      BY <1>5, <3>1
    <3> QED
      BY <3>1, <3>2, <3>3
  <2>2. Good(h)
    BY <1>7
  <2> HIDE DEF h
  <2>3. f[h] \in Seq(S) /\ parts[m] \in Seq(S) /\ Len(f[h]) = T(h) /\ Len(parts[m]) = W[m]
        /\ T(h) \in Nat /\ W[m] \in Nat
    BY <1>2, <1>3, <2>1, <2>2
  <2>4. /\ Len(f[m]) = T(m)
        /\ \A x \in 1..T(m) : f[m][x] = IF x <= T(h) THEN f[h][x] ELSE parts[m][x - T(h)]
    <3> DEFINE a == f[h]
               b == parts[m]
               t == T(h)
               w == W[m]
    <3>1. a \in Seq(S) /\ b \in Seq(S) /\ Len(a) = t /\ Len(b) = w /\ t \in Nat /\ w \in Nat
          /\ f[m] = a \o b /\ T(m) = t + w
      BY <2>1, <2>3
    <3> HIDE DEF a, b, t, w
    <3>2. Len(a \o b) = t + w
          /\ \A x \in 1..(t + w) : (a \o b)[x] = IF x <= t THEN a[x] ELSE b[x - t]
      BY <3>1, ConcatProperties
    <3>3. /\ Len(f[m]) = T(m)
          /\ \A x \in 1..T(m) : f[m][x] = IF x <= t THEN a[x] ELSE b[x - t]
      BY <3>1, <3>2
    <3> QED
      BY <3>3 DEF a, b, t
  <2>5. ASSUME NEW q \in 1..m, NEW w \in 1..W[q]
        PROVE  T(q - 1) + w \in 1..T(m) /\ f[m][T(q - 1) + w] = parts[q][w]
    <3>1. CASE q = m
      <4> DEFINE t == T(h)
      <4>1. t \in Nat /\ T(m) = t + W[m] /\ W[m] \in Nat /\ w \in 1..W[m]
        BY <2>1, <2>3, <3>1
      <4> HIDE DEF t
      <4>2. t + w \in 1..T(m) /\ ~(t + w <= t) /\ (t + w) - t = w
        BY <4>1
      <4>3. f[m][t + w] = parts[m][w]
        <5>1. \A x \in 1..T(m) : f[m][x] = IF x <= t THEN f[h][x] ELSE parts[m][x - t]
          BY <2>4 DEF t
        <5> DEFINE x == t + w
        <5>2. x \in 1..T(m) /\ ~(x <= t) /\ x - t = w
          BY <4>2
        <5> HIDE DEF x
        <5>3. f[m][x] = parts[m][w]
          BY <5>1, <5>2
        <5> QED
          BY <5>3 DEF x
      <4>4. T(q - 1) = t
        BY <2>1, <3>1 DEF t
      <4> QED
        BY <3>1, <4>2, <4>3, <4>4
    <3>2. CASE q # m
      <4>1. q \in 1..h
        BY <2>1, <3>2
      <4>2. T(q - 1) + w \in 1..T(h) /\ f[h][T(q - 1) + w] = parts[q][w]
        BY <2>2, <4>1
      <4> DEFINE x == T(q - 1) + w
      <4>3. x \in 1..T(h) /\ f[h][x] = parts[q][w]
        BY <4>2
      <4> HIDE DEF x
      <4>4. x \in 1..T(m) /\ x <= T(h)
        <5>1. T(h) \in Nat /\ W[m] \in Nat /\ T(m) = T(h) + W[m]
          BY <2>1, <2>3
        <5> QED
          BY <4>3, <5>1
      <4>5. f[m][x] = parts[q][w]
        BY <2>4, <4>3, <4>4
      <4> QED
        BY <4>4, <4>5 DEF x
    <3> QED
      BY <3>1, <3>2
  <2> QED
    BY <2>4, <2>5
<1>8. Bad = {}
  <2> SUFFICES ASSUME Bad # {} PROVE FALSE
    OBVIOUS
  <2>1. PICK m \in Bad : \A k \in Bad : m <= k
    <3>1. Bad \in SUBSET Nat
      OBVIOUS
    <3> HIDE DEF Bad
    <3> QED
      BY <3>1, LeastNatural
  <2>2. m \in 1..n /\ ~Good(m)
    OBVIOUS
  <2> HIDE DEF Good
  <2>3. m # 1
    BY <1>6, <2>2
  <2>4. m \in 2..n /\ m - 1 \in 1..n /\ m - 1 \notin Bad
    BY <2>1, <2>2, <2>3
  <2>5. Good(m - 1)
    BY <2>4
  <2> QED
    BY <1>7, <2>2, <2>4, <2>5
<1>9. Good(n)
  <2>1. n \in 1..n
    OBVIOUS
  <2> HIDE DEF Good
  <2> QED
    BY <1>8, <2>1
<1>10. SumOver(W, 1..(p - 1)) = T(p - 1) /\ T(p - 1) \in Nat
  <2>1. p - 1 \in 0..n
    OBVIOUS
  <2> QED
    BY <1>3, <2>1 DEF T
<1>11. T(p - 1) + W[p] <= T(n)
  <2>1. CASE W[p] = 0
    <3>1. SumOver(W, 1..(p - 1)) <= SumOver(W, 1..n)
      <4> DEFINE h == p - 1
      <4>1. h \in 0..n /\ n \in h..n
        OBVIOUS
      <4> HIDE DEF h
      <4>2. SumOver(W, 1..h) <= SumOver(W, 1..n)
        BY <1>2, <4>1, SumsGrow
      <4> QED
        BY <4>2 DEF h
    <3> QED
      BY <1>10, <2>1, <3>1 DEF T
  <2>2. CASE W[p] # 0
    <3>1. W[p] \in 1..W[p]
      BY <1>2, <2>2
    <3>2. T(p - 1) + W[p] \in 1..T(n)
      BY <1>9, <3>1
    <3> QED
      BY <3>2
  <2> QED
    BY <2>1, <2>2
<1>12. f[n] \in Seq(S) /\ FlattenSeq(parts) = f[n] /\ Len(f[n]) = T(n)
  <2>1. n \in 1..n
    OBVIOUS
  <2> QED
    BY <1>1, <1>2, <1>9, <2>1
<1> HIDE DEF Bad
<1>13. W[p] = Len(parts[p]) /\ \A w \in 1..W[p] : f[n][T(p - 1) + w] = parts[p][w]
  BY <1>9
<1> QED
  BY <1>10, <1>11, <1>12, <1>13 DEF Located

\* A sequence of sequences is flattened to a sequence of their elements.
LEMMA FlattenType ==
  ASSUME NEW S, NEW n \in Nat, NEW parts \in [1..n -> Seq(S)]
  PROVE  FlattenSeq(parts) \in Seq(S)
<1>1. CASE n = 0
  <2>1. parts = <<>>
    <3>1. parts \in Seq(Seq(S)) /\ Len(parts) = 0
      <4>1. parts \in Seq(Seq(S)) /\ DOMAIN parts = 1..n
        OBVIOUS
      <4> QED
        BY <1>1, <4>1, LenProperties
    <3> QED
      BY <3>1, EmptySeq
  <2>2. FlattenSeq(parts) = <<>>
    <3>1. Len(parts) = 0
      BY <2>1
    <3> QED
      BY <3>1 DEF FlattenSeq
  <2> QED
    BY <2>2, EmptySeq
<1>2. CASE n # 0
  <2>1. PICK f \in [1..n -> Seq(S)] : Flattens(f, parts, n)
    BY <1>2, FlattenIs
  <2>2. FlattenSeq(parts) = f[n] /\ n \in 1..n
    BY <1>2, <2>1 DEF Flattens
  <2> QED
    BY <2>2
<1> QED
  BY <1>1, <1>2
===============================================================================
