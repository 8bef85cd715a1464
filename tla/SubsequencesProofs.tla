------------------------- MODULE SubsequencesProofs -------------------------
(* Lemmas about the parts of a list: what is kept of it at some of its      *)
(* indices is just what stood there, and two parts that are carried to each *)
(* other are one list.                                                      *)
EXTENDS Subsequences, FiniteSetTheorems, TLAPS

\* Ranks are in the order of the indices, and every one is taken.
LEMMA RanksRise ==
  ASSUME NEW n \in Nat, NEW S \in SUBSET (1..n)
  PROVE  /\ IsFiniteSet(S) /\ Cardinality(S) \in Nat
         /\ \A j \in S : Rank(S, j) \in 1..Cardinality(S)
         /\ \A i, j \in S : i < j => Rank(S, i) < Rank(S, j)
  <1>1. IsFiniteSet(S)
    <2>1. IsFiniteSet(1..n) BY FS_Interval
    <2> QED BY <2>1, FS_Subset
  <1>2. Cardinality(S) \in Nat BY <1>1, FS_CardinalityType
  <1>3. ASSUME NEW j \in S PROVE Rank(S, j) \in 1..Cardinality(S)
    <2> DEFINE T == {x \in S : x <= j}
    <2>1. IsFiniteSet(T) /\ Cardinality(T) <= Cardinality(S) BY <1>1, FS_Subset
    <2>2. Cardinality(T) \in Nat BY <2>1, FS_CardinalityType
    <2>3. j \in T BY <1>3
    <2>4. Cardinality(T) # 0 BY <2>1, <2>3, FS_EmptySet
    <2> QED BY <2>1, <2>2, <2>4, <1>2 DEF Rank
  <1>4. ASSUME NEW i \in S, NEW j \in S, i < j PROVE Rank(S, i) < Rank(S, j)
    <2> DEFINE T == {x \in S : x <= i}
               U == {x \in S : x <= j}
    <2>0. i \in Int /\ j \in Int /\ \A x \in S : x \in Int OBVIOUS
    <2>5. \A x \in S : x <= i => x <= j BY <1>4, <2>0
    <2>6. j \in U BY <2>0
    <2>7. ~(j <= i) BY <1>4, <2>0
    <2>1. T \subseteq U /\ j \in U /\ j \notin T BY <2>5, <2>6, <2>7
    <2>2. IsFiniteSet(U) BY <1>1, FS_Subset
    <2>3. Cardinality(T) <= Cardinality(U) /\ IsFiniteSet(T) /\ Cardinality(U) # Cardinality(T) BY <2>1, <2>2, FS_Subset
    <2>4. Cardinality(T) \in Nat /\ Cardinality(U) \in Nat BY <2>2, <2>3, FS_CardinalityType
    <2> QED BY <2>3, <2>4 DEF Rank
  <1> QED BY <1>1, <1>2, <1>3, <1>4

LEMMA RanksTaken ==
  ASSUME NEW n \in Nat, NEW S \in SUBSET (1..n), NEW m \in 1..Cardinality(S)
  PROVE  \E j \in S : Rank(S, j) = m
  <1> DEFINE T == 1..Cardinality(S)
             f == [j \in S |-> Rank(S, j)]
  <1>1. Cardinality(S) \in Nat BY RanksRise
  <1>2. IsFiniteSet(T) /\ Cardinality(T) = Cardinality(S) BY <1>1, FS_Interval
  <1>3. \A i, j \in S : Rank(S, i) = Rank(S, j) => i = j
    <2> TAKE i, j \in S
    <2>1. i \in Nat /\ j \in Nat OBVIOUS
    <2>2. Rank(S, i) \in Nat /\ Rank(S, j) \in Nat /\ (i < j => Rank(S, i) < Rank(S, j)) /\ (j < i => Rank(S, j) < Rank(S, i))
      BY RanksRise, <1>1
    <2> QED BY <2>1, <2>2
  <1>4. f \in [S -> T] BY RanksRise
  <1>5. f \in Injection(S, T) BY <1>3, <1>4 DEF Injection, IsInjective
  <1>6. f \in Surjection(S, T) BY <1>2, <1>5, FS_Injection
  <1> QED BY <1>6 DEF Surjection

\* What is kept is exactly what stood at those indices.
KeepsOf(k, s, S) ==
  /\ DOMAIN k = 1..Cardinality(S) /\ Cardinality(S) \in Nat /\ Len(k) = Cardinality(S)
  /\ \A i \in 1..Cardinality(S) : \E j \in S : Rank(S, j) = i /\ k[i] = s[j]
  /\ \A j \in S : Rank(S, j) \in 1..Cardinality(S) /\ k[Rank(S, j)] = s[j]

\* And so for the list that is kept.
LEMMA KeptIs ==
  ASSUME NEW n \in Nat, NEW S \in SUBSET (1..n), NEW s
  PROVE  KeepsOf(Kept(s, S), s, S)
  <1> DEFINE IndexAt(i) == CHOOSE j \in S : Rank(S, j) = i
  <1>1. \A i \in 1..Cardinality(S) : IndexAt(i) \in S /\ Rank(S, IndexAt(i)) = i BY RanksTaken
  <1>2. Cardinality(S) \in Nat BY RanksRise
  <1>3. \A i \in 1..Cardinality(S) : Kept(s, S)[i] = s[IndexAt(i)] BY DEF Kept
  <1>4. ASSUME NEW j \in S PROVE Rank(S, j) \in 1..Cardinality(S) /\ IndexAt(Rank(S, j)) = j
    <2>1. Rank(S, j) \in 1..Cardinality(S) BY RanksRise
    <2> DEFINE k == IndexAt(Rank(S, j))
    <2>2. k \in S /\ Rank(S, k) = Rank(S, j) BY <2>1, <1>1
    <2> HIDE DEF k
    <2>0. \A i \in S, l \in S : i < l => Rank(S, i) < Rank(S, l) BY RanksRise
    <2>7. Rank(S, j) \in Int BY <2>1
    <2>3. ~(k < j) /\ ~(j < k)
      <3>1. ~(Rank(S, j) < Rank(S, j)) BY <2>7
      <3> QED BY <2>0, <2>2, <3>1
    <2>4. k \in Nat /\ j \in Nat BY <2>2
    <2>5. k = j BY <2>3, <2>4
    <2> QED BY <2>1, <2>5 DEF k
  <1> HIDE DEF IndexAt
  <1>5. DOMAIN Kept(s, S) = 1..Cardinality(S) BY DEF Kept
  <1>6. Len(Kept(s, S)) = Cardinality(S) BY <1>2 DEF Kept
  <1> QED BY <1>1, <1>2, <1>3, <1>4, <1>5, <1>6 DEF KeepsOf

\* A list and its part at some indices, seen from another list: f carries the
\* indices of the one to those of the other, in order and onto.
Carries(f, S, T) ==
  /\ f \in [S -> T]
  /\ \A i, j \in S : i < j => f[i] < f[j]
  /\ \A m \in T : \E i \in S : f[i] = m

\* As many indices on the one side as on the other.
LEMMA SameNumber ==
  ASSUME NEW n \in Nat, NEW S \in SUBSET (1..n), NEW T \in SUBSET Nat, NEW f, Carries(f, S, T)
  PROVE  Cardinality(S) = Cardinality(T)
  <1>1. IsFiniteSet(S) BY RanksRise
  <1>2. f \in [S -> T] /\ \A m \in T : \E i \in S : f[i] = m BY DEF Carries
  <1>3. \A i, j \in S : f[i] = f[j] => i = j
    <2> TAKE i, j \in S
    <2>1. i \in Nat /\ j \in Nat OBVIOUS
    <2>2. (i < j => f[i] < f[j]) /\ (j < i => f[j] < f[i]) BY DEF Carries
    <2>3. f[i] \in Nat /\ f[j] \in Nat
      <3>1. f[i] \in T /\ f[j] \in T BY DEF Carries
      <3> QED BY <3>1
    <2> HAVE f[i] = f[j]
    <2> QED BY <2>1, <2>2, <2>3
  <1>4. f \in Bijection(S, T) BY <1>2, <1>3 DEF Bijection, Injection, Surjection, IsInjective
  <1> QED BY <1>1, <1>4, FS_Bijection DEF ExistsBijection

\* Each has the rank on its side that its partner has on the other.
LEMMA SameRank ==
  ASSUME NEW n \in Nat, NEW S \in SUBSET (1..n), NEW T \in SUBSET Nat, NEW f, Carries(f, S, T), NEW i \in S
  PROVE  Rank(S, i) = Rank(T, f[i])
  <1> DEFINE SI == {x \in S : x <= i}
             TI == {x \in T : x <= f[i]}
             g == [x \in SI |-> f[x]]
  <1>1. f \in [S -> T] /\ \A x \in S : x \in Nat BY DEF Carries
  <1>2. \A x \in S : x <= i <=> f[x] <= f[i]
    <2> TAKE x \in S
    <2>1. (x < i => f[x] < f[i]) /\ (i < x => f[i] < f[x]) BY DEF Carries
    <2>2. x \in Nat /\ i \in Nat /\ f[x] \in Nat /\ f[i] \in Nat BY <1>1
    <2> QED BY <2>1, <2>2
  <1>3. g \in [SI -> TI] BY <1>1, <1>2
  <1>4. \A x, y \in SI : x < y => g[x] < g[y] BY DEF Carries
  <1>5. \A m \in TI : \E x \in SI : g[x] = m
    <2> TAKE m \in TI
    <2>1. PICK x \in S : f[x] = m BY DEF Carries
    <2>2. x \in SI BY <2>1, <1>2
    <2> QED BY <2>1, <2>2
  <1>6. SI \in SUBSET (1..n) /\ TI \in SUBSET Nat OBVIOUS
  <1> HIDE DEF SI, TI, g
  <1>7. Carries(g, SI, TI) BY <1>3, <1>4, <1>5 DEF Carries
  <1>8. Cardinality(SI) = Cardinality(TI) BY <1>6, <1>7, SameNumber
  <1> QED BY <1>8 DEF SI, TI, Rank

\* And the elements with it.
CarriesList(f, s, S, t, T) == Carries(f, S, T) /\ \A i \in S : s[i] = t[f[i]]
Indices(S) == \E n \in Nat : S \in SUBSET (1..n)

\* So the two parts are one list.
LEMMA KeptSame ==
  ASSUME NEW f, NEW s, NEW S, NEW t, NEW T, Indices(S), Indices(T), CarriesList(f, s, S, t, T)
  PROVE  Kept(s, S) = Kept(t, T)
  <1> DEFINE k == Kept(s, S)
             l == Kept(t, T)
             c == Cardinality(S)
  <1>5. PICK n \in Nat : S \in SUBSET (1..n) BY DEF Indices
  <1>6. PICK m \in Nat : T \in SUBSET (1..m) BY DEF Indices
  <1>0. S \in SUBSET (1..n) /\ T \in SUBSET (1..m) /\ T \in SUBSET Nat BY <1>5, <1>6
  <1>7. Carries(f, S, T) /\ \A i \in S : s[i] = t[f[i]] BY DEF CarriesList
  <1>1. c = Cardinality(T) BY <1>0, <1>7, SameNumber
  <1>2. k = [i \in 1..c |-> k[i]] /\ l = [i \in 1..c |-> l[i]] BY <1>1 DEF Kept
  <1>3. KeepsOf(k, s, S) /\ KeepsOf(l, t, T) BY <1>0, KeptIs
  <1> HIDE DEF k, l
  <1>4. ASSUME NEW i \in 1..c PROVE k[i] = l[i]
    <2>1. PICK j \in S : Rank(S, j) = i /\ k[i] = s[j] BY <1>3 DEF KeepsOf
    <2>2. Rank(T, f[j]) = i BY <2>1, <1>0, <1>7, SameRank
    <2>3. f[j] \in T BY <1>7 DEF Carries
    <2>4. l[Rank(T, f[j])] = t[f[j]] BY <1>3, <2>3 DEF KeepsOf
    <2> QED BY <1>7, <2>1, <2>2, <2>4
  <1> HIDE DEF c
  <1> QED BY <1>2, <1>4 DEF k, l
=============================================================================
