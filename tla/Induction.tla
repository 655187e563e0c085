------------------------------ MODULE Induction ------------------------------
(***************************************************************************)
(* Induction over the natural numbers and the subsets of a finite set,     *)
(* stated about sets, so that the provers can instantiate it: the          *)
(* library's induction theorems take a predicate as a parameter.  From it, *)
(* that the folds of the community modules obey their recursive equations, *)
(* and what a sum over a set is.                                           *)
(***************************************************************************)
EXTENDS Integers, FiniteSetsExt, FiniteSetTheorems, TLAPS

-----------------------------------------------------------------------------
(* Induction. *)

\* A family of finite sets that is not empty has a member with no other within it.
LEMMA MinimalMember ==
    ASSUME NEW S, IsFiniteSet(S), NEW F \in SUBSET SUBSET S, F # {}
    PROVE  \E T \in F : \A U \in F : U \subseteq T => U = T
<1>1. IsWellFoundedOn(StrictSubsetOrdering(S), FiniteSubsetsOf(S))
  BY FS_StrictSubsetOrderingWellFounded
<1>2. F \subseteq FiniteSubsetsOf(S)
  BY FS_FiniteSubsetsOfFinite
<1>3. PICK T \in F : \A U \in F : <<U, T>> \notin StrictSubsetOrdering(S)
  BY <1>1, <1>2, WFMin
<1>4. \A U \in F : U \subseteq T => U = T
  BY <1>3 DEF StrictSubsetOrdering
<1> QED BY <1>4

\* A set of natural numbers that is not empty has a least element.
LEMMA LeastElement ==
    ASSUME NEW T \in SUBSET Nat, T # {}
    PROVE  \E x \in T : \A y \in T : x <= y
<1>1. PICK t \in T : TRUE
  OBVIOUS
<1> DEFINE D == 0 .. t
           F == {0 .. n : n \in T \cap D}
<1>2. IsFiniteSet(D)
  BY FS_Interval
<1>3. F \in SUBSET SUBSET D /\ F # {}
  BY <1>1
<1>4. PICK m \in F : \A U \in F : U \subseteq m => U = m
  <2> HIDE DEF F, D
  <2> QED BY <1>2, <1>3, MinimalMember
<1>5. PICK x \in T \cap D : m = 0 .. x
  BY <1>4
<1>6. ASSUME NEW y \in T PROVE x <= y
  <2> SUFFICES ASSUME y < x PROVE FALSE
    OBVIOUS
  <2>1. 0 .. y \in F /\ 0 .. y \subseteq m
    BY <1>5
  <2>2. 0 .. y = 0 .. x
    BY <2>1, <1>4, <1>5
  <2>3. x \in 0 .. x /\ x \notin 0 .. y
    BY <1>5
  <2> QED BY <2>2, <2>3
<1> QED BY <1>5, <1>6

\* A set that holds 0, and with a number the next one, holds every number.
LEMMA NumberInduction ==
    ASSUME NEW S, 0 \in S, \A n \in Nat : n \in S => n + 1 \in S
    PROVE  \A n \in Nat : n \in S
<1> SUFFICES ASSUME Nat \ S # {} PROVE FALSE
  OBVIOUS
<1>1. PICK x \in Nat \ S : \A y \in Nat \ S : x <= y
  BY LeastElement
<1>2. x # 0 /\ x - 1 \in Nat
  BY <1>1
<1>3. x - 1 \in S
  BY <1>1, <1>2
<1>4. (x - 1) + 1 = x
  BY <1>1
<1> QED BY <1>1, <1>2, <1>3, <1>4

\* What the provers need to know of products.
LEMMA Product ==
    ASSUME NEW a \in Int, NEW b \in Int, NEW c \in Nat
    PROVE  /\ a * c \in Int /\ (a + b) * c = (a * c) + (b * c)
           /\ a <= b => a * c <= b * c
           /\ (a * b) * c = a * (b * c)
OBVIOUS

\* A set of numbers up to n that is not empty has a greatest element.
LEMMA MaxOfSet ==
    ASSUME NEW n \in Nat, NEW T \in SUBSET (1 .. n), T # {}
    PROVE  Max(T) \in T /\ \A y \in T : Max(T) >= y
<1> DEFINE D == {d \in 0 .. n : n - d \in T}
<1>1. D \in SUBSET Nat /\ D # {}
  <2>1. PICK y \in T : TRUE
    OBVIOUS
  <2>2. y \in Nat /\ n - y \in 0 .. n /\ n - (n - y) = y
    BY <2>1
  <2>3. n - y \in D
    BY <2>1, <2>2
  <2>4. D \in SUBSET Nat
    OBVIOUS
  <2> HIDE DEF D
  <2> QED BY <2>3, <2>4
<1>2. PICK d \in D : \A e \in D : d <= e
  <2> HIDE DEF D
  <2> QED BY <1>1, LeastElement
<1>3. \A y \in T : n - d >= y
  <2> TAKE y \in T
  <2>1. y \in Nat /\ n - y \in 0 .. n /\ n - (n - y) = y
    OBVIOUS
  <2>2. n - y \in D
    BY <2>1
  <2>3. d \in 0 .. n /\ d <= n - y
    BY <1>2, <2>2
  <2> QED BY <2>1, <2>3
<1>4. \E x \in T : \A y \in T : x >= y
  BY <1>2, <1>3
<1> QED BY <1>4 DEF Max

\* The greatest number up to j is j.
LEMMA MaxOfInterval ==
    ASSUME NEW j \in Nat \ {0}
    PROVE  Max(1 .. j) = j /\ (1 .. j) \ {j} = 1 .. j - 1
<1> DEFINE s == 1 .. j
<1>1. j \in s /\ s \in SUBSET (1 .. j)
  OBVIOUS
<1>2. Max(s) \in s /\ Max(s) >= j
  <2> HIDE DEF s
  <2> QED BY <1>1, MaxOfSet
<1>3. Max(s) = j
  BY <1>2
<1> QED BY <1>3

-----------------------------------------------------------------------------
(* Folds over finite sets. *)

\* fold[s] is what h makes of the elements of s, for every subset s of S with at
\* most n elements: m chooses the element h is applied to last.
FoldsUpTo(fold, h, m, base, S, n) ==
    fold = [s \in {s \in SUBSET S : Cardinality(s) <= n} |->
               IF s = {} THEN base ELSE h[<<m[s], fold[s \ {m[s]}]>>]]

LEMMA WithoutOne ==
    ASSUME NEW s, IsFiniteSet(s), NEW x
    PROVE  /\ Cardinality(s) \in Nat
           /\ Cardinality(s) = 0 <=> s = {}
           /\ x \in s => /\ IsFiniteSet(s \ {x})
                         /\ Cardinality(s \ {x}) = Cardinality(s) - 1
BY FS_CardinalityType, FS_EmptySet, FS_RemoveElement

LEMMA FoldsUpToExist ==
    ASSUME NEW S, IsFiniteSet(S), NEW h, NEW base,
           NEW m, \A s \in SUBSET S : s # {} => m[s] \in s
    PROVE  \A n \in Nat : \E fold : FoldsUpTo(fold, h, m, base, S, n)
<1> DEFINE P == {n \in Nat : \E fold : FoldsUpTo(fold, h, m, base, S, n)}
           D(n) == {s \in SUBSET S : Cardinality(s) <= n}
<1>1. 0 \in P
  <2> DEFINE fold == [s \in D(0) |-> base]
  <2>1. ASSUME NEW s \in D(0) PROVE s = {}
    <3>1. s \in SUBSET S /\ Cardinality(s) <= 0
      OBVIOUS
    <3>2. IsFiniteSet(s)
      BY <3>1, FS_Subset
    <3>3. Cardinality(s) \in Nat
      BY <3>2, WithoutOne
    <3>4. Cardinality(s) = 0
      BY <3>1, <3>3
    <3> QED BY <3>2, <3>4, WithoutOne
  <2>2. FoldsUpTo(fold, h, m, base, S, 0)
    BY <2>1 DEF FoldsUpTo
  <2> QED BY <2>2
<1>2. ASSUME NEW n \in Nat, n \in P PROVE n + 1 \in P
  <2>1. PICK fold : FoldsUpTo(fold, h, m, base, S, n)
    BY <1>2
  <2> DEFINE next == [s \in D(n + 1) |-> IF s = {} THEN base ELSE h[<<m[s], fold[s \ {m[s]}]>>]]
  <2>2. ASSUME NEW s \in D(n) PROVE s \in D(n + 1) /\ next[s] = fold[s]
    <3>1. s \in SUBSET S /\ Cardinality(s) <= n + 1
      <4>1. s \in SUBSET S /\ Cardinality(s) <= n
        OBVIOUS
      <4>2. Cardinality(s) \in Nat
        BY <4>1, FS_Subset, WithoutOne
      <4> QED BY <4>1, <4>2
    <3>2. s \in D(n + 1)
      BY <3>1
    <3> QED BY <2>1, <3>2 DEF FoldsUpTo
  <2>3. ASSUME NEW s \in D(n + 1), s # {} PROVE s \ {m[s]} \in D(n)
    <3>1. s \in SUBSET S /\ Cardinality(s) <= n + 1
      OBVIOUS
    <3>2. m[s] \in s
      BY <2>3, <3>1
    <3>3. Cardinality(s \ {m[s]}) = Cardinality(s) - 1 /\ Cardinality(s) \in Nat
      BY <3>1, <3>2, FS_Subset, WithoutOne
    <3>4. Cardinality(s \ {m[s]}) <= n
      BY <3>1, <3>3
    <3> QED BY <3>1, <3>4
  <2>4. \A s \in D(n + 1) : s # {} => next[s \ {m[s]}] = fold[s \ {m[s]}]
    BY <2>2, <2>3
  <2>5. next = [s \in D(n + 1) |-> IF s = {} THEN base ELSE h[<<m[s], next[s \ {m[s]}]>>]]
    BY <2>4
  <2>6. FoldsUpTo(next, h, m, base, S, n + 1)
    BY <2>5 DEF FoldsUpTo
  <2> QED BY <2>6
<1>3. \A n \in Nat : n \in P
  <2> HIDE DEF P
  <2> QED BY <1>1, <1>2, NumberInduction
<1> QED BY <1>3

\* What holds of the empty set, and of a set if it holds of it without the element
\* that m chooses, holds of every subset of S.
LEMMA FoldInduction ==
    ASSUME NEW S, IsFiniteSet(S), NEW F \in SUBSET SUBSET S, {} \in F,
           NEW m, \A s \in SUBSET S : s # {} => m[s] \in s,
           \A s \in SUBSET S : s # {} /\ s \ {m[s]} \in F => s \in F
    PROVE  \A s \in SUBSET S : s \in F
<1> SUFFICES ASSUME (SUBSET S) \ F # {} PROVE FALSE
  OBVIOUS
<1> DEFINE G == (SUBSET S) \ F
<1>1. PICK s \in G : \A t \in G : t \subseteq s => t = s
  <2>1. G \in SUBSET SUBSET S /\ G # {}
    OBVIOUS
  <2> HIDE DEF G
  <2> QED BY <2>1, MinimalMember
<1>2. s # {} /\ m[s] \in s
  BY <1>1
<1>3. s \ {m[s]} \in F
  BY <1>1, <1>2
<1> QED BY <1>1, <1>2, <1>3

IsFold(fold, h, m, base, S, V) ==
    /\ fold \in [SUBSET S -> V]
    /\ \A s \in SUBSET S : fold[s] = IF s = {} THEN base ELSE h[<<m[s], fold[s \ {m[s]}]>>]

\* The recursive equation of a fold over S has a solution, and of its type.
LEMMA FoldExists ==
    ASSUME NEW S, IsFiniteSet(S), NEW V, NEW base \in V, NEW h \in [S \X V -> V],
           NEW m, \A s \in SUBSET S : s # {} => m[s] \in s
    PROVE  \E fold : IsFold(fold, h, m, base, S, V)
<1>1. Cardinality(S) \in Nat /\ \A s \in SUBSET S : Cardinality(s) <= Cardinality(S)
  BY FS_CardinalityType, FS_Subset
<1>2. PICK fold : FoldsUpTo(fold, h, m, base, S, Cardinality(S))
  BY <1>1, FoldsUpToExist
<1>3. {s \in SUBSET S : Cardinality(s) <= Cardinality(S)} = SUBSET S
  BY <1>1
<1>4. fold = [s \in SUBSET S |-> IF s = {} THEN base ELSE h[<<m[s], fold[s \ {m[s]}]>>]]
  BY <1>2, <1>3 DEF FoldsUpTo
<1> DEFINE F == {s \in SUBSET S : fold[s] \in V}
<1>5. F \in SUBSET SUBSET S /\ {} \in F
  BY <1>4
<1>6. ASSUME NEW s \in SUBSET S, s # {}, s \ {m[s]} \in F PROVE s \in F
  <2>1. m[s] \in S /\ fold[s \ {m[s]}] \in V
    BY <1>6
  <2>2. fold[s] = h[<<m[s], fold[s \ {m[s]}]>>]
    BY <1>4, <1>6
  <2> QED BY <2>1, <2>2
<1>7. \A s \in SUBSET S : s \in F
  <2> HIDE DEF F
  <2> QED BY <1>5, <1>6, FoldInduction
<1> QED BY <1>4, <1>7 DEF IsFold

-----------------------------------------------------------------------------
(* Sums over finite sets. *)

Chosen(s) == CHOOSE x \in s : TRUE

\* The sum of the values of g over S.
SumOver(g, S) == MapThenSumSet(LAMBDA x : g[x], S)

\* sum[s] is the sum of g over s, for every subset s of S.
AreSums(sum, g, S) ==
    /\ SumOver(g, S) = sum[S]
    /\ sum[{}] = 0
    /\ \A s \in SUBSET S : s # {} => sum[s] = g[Chosen(s)] + sum[s \ {Chosen(s)}]

\* The recursive equation of the fold holds.
LEMMA SumEquation ==
    ASSUME NEW S, IsFiniteSet(S), NEW g \in [S -> Int]
    PROVE  \E sum : AreSums(sum, g, S)
<1> DEFINE Eq(sum) == sum = [s \in SUBSET S |->
                         IF s = {} THEN 0 ELSE g[Chosen(s)] + sum[s \ {Chosen(s)}]]
           h == [p \in S \X Int |-> g[p[1]] + p[2]]
           m == [s \in SUBSET S |-> Chosen(s)]
<1>1. \E sum : Eq(sum)
  <2>1. h \in [S \X Int -> Int]
    OBVIOUS
  <2>2. \A s \in SUBSET S : m[s] = Chosen(s) /\ (s # {} => m[s] \in s)
    BY DEF Chosen
  <2>3. PICK sum : IsFold(sum, h, m, 0, S, Int)
    <3> HIDE DEF h, m
    <3>1. 0 \in Int /\ \A s \in SUBSET S : s # {} => m[s] \in s
      BY <2>2
    <3> QED BY <2>1, <3>1, FoldExists
  <2>4. ASSUME NEW s \in SUBSET S, s # {}
        PROVE  sum[s] = g[Chosen(s)] + sum[s \ {Chosen(s)}]
    <3>1. m[s] = Chosen(s) /\ m[s] \in S /\ sum[s \ {m[s]}] \in Int
      BY <2>2, <2>3, <2>4 DEF IsFold
    <3>2. h[<<m[s], sum[s \ {m[s]}]>>] = g[m[s]] + sum[s \ {m[s]}]
      BY <3>1
    <3>3. sum[s] = h[<<m[s], sum[s \ {m[s]}]>>]
      BY <2>3, <2>4 DEF IsFold
    <3> QED BY <3>1, <3>2, <3>3
  <2>5. sum[{}] = 0
    BY <2>3 DEF IsFold
  <2>6. sum = [s \in SUBSET S |-> sum[s]]
    BY <2>3 DEF IsFold
  <2> QED BY <2>4, <2>5, <2>6
<1>2. SumOver(g, S) = (CHOOSE sum : Eq(sum))[S]
  BY DEF SumOver, MapThenSumSet, MapThenFoldSet, Chosen
<1>3. Eq(CHOOSE sum : Eq(sum))
  <2> HIDE DEF Eq
  <2> QED BY <1>1
<1> QED BY <1>2, <1>3 DEF AreSums

\* The same for sums.
LEMMA SumInduction ==
    ASSUME NEW S, IsFiniteSet(S), NEW F \in SUBSET SUBSET S, {} \in F,
           \A s \in SUBSET S : s # {} /\ s \ {Chosen(s)} \in F => s \in F
    PROVE  S \in F
<1> DEFINE m == [s \in SUBSET S |-> Chosen(s)]
<1>1. \A s \in SUBSET S : m[s] = Chosen(s) /\ (s # {} => m[s] \in s)
  BY DEF Chosen
<1>2. \A s \in SUBSET S : s \in F
  <2> HIDE DEF m
  <2> QED BY <1>1, FoldInduction
<1> QED BY <1>2

\* A sum of integers is an integer; of natural numbers, a natural number.
LEMMA SumType ==
    ASSUME NEW S, IsFiniteSet(S), NEW g \in [S -> Int]
    PROVE  /\ SumOver(g, S) \in Int
           /\ (\A x \in S : g[x] >= 0) => SumOver(g, S) >= 0
<1>1. PICK sum : AreSums(sum, g, S)
  BY SumEquation
<1> DEFINE F == {s \in SUBSET S : /\ sum[s] \in Int
                                  /\ (\A x \in S : g[x] >= 0) => sum[s] >= 0}
<1>2. F \in SUBSET SUBSET S /\ {} \in F
  BY <1>1 DEF AreSums
<1>3. ASSUME NEW s \in SUBSET S, s # {}, s \ {Chosen(s)} \in F PROVE s \in F
  <2>1. Chosen(s) \in S
    BY <1>3 DEF Chosen
  <2>2. sum[s] = g[Chosen(s)] + sum[s \ {Chosen(s)}]
    BY <1>1, <1>3 DEF AreSums
  <2>3. g[Chosen(s)] \in Int /\ sum[s \ {Chosen(s)}] \in Int
    BY <1>3, <2>1
  <2>4. ASSUME \A x \in S : g[x] >= 0 PROVE sum[s] >= 0
    <3>1. g[Chosen(s)] >= 0 /\ sum[s \ {Chosen(s)}] >= 0
      BY <2>4, <2>1, <1>3
    <3> QED BY <3>1, <2>2, <2>3
  <2> QED BY <2>2, <2>3, <2>4
<1>4. S \in F
  <2> HIDE DEF F
  <2> QED BY <1>2, <1>3, SumInduction
<1> QED BY <1>1, <1>4 DEF AreSums

\* The sum of zeros.
LEMMA SumOfZeros ==
    ASSUME NEW S, IsFiniteSet(S), NEW g \in [S -> Int], \A x \in S : g[x] = 0
    PROVE  SumOver(g, S) = 0
<1>1. PICK sum : AreSums(sum, g, S)
  BY SumEquation
<1> DEFINE F == {s \in SUBSET S : sum[s] = 0}
<1>2. F \in SUBSET SUBSET S /\ {} \in F
  BY <1>1 DEF AreSums
<1>3. ASSUME NEW s \in SUBSET S, s # {}, s \ {Chosen(s)} \in F PROVE s \in F
  <2>1. g[Chosen(s)] = 0
    BY <1>3 DEF Chosen
  <2>2. sum[s] = g[Chosen(s)] + sum[s \ {Chosen(s)}]
    BY <1>1, <1>3 DEF AreSums
  <2> QED BY <2>1, <2>2, <1>3
<1>4. S \in F
  <2> HIDE DEF F
  <2> QED BY <1>2, <1>3, SumInduction
<1> QED BY <1>1, <1>4 DEF AreSums

\* A function that differs at one element only has a sum that differs by as much.
LEMMA SumUpdate ==
    ASSUME NEW S, IsFiniteSet(S), NEW g \in [S -> Int], NEW f \in [S -> Int],
           NEW x \in S, \A y \in S \ {x} : f[y] = g[y]
    PROVE  SumOver(f, S) = SumOver(g, S) + (f[x] - g[x])
<1>1. PICK sum : AreSums(sum, g, S)
  BY SumEquation
<1>2. PICK new : AreSums(new, f, S)
  BY SumEquation
<1> DEFINE d == f[x] - g[x]
<1> DEFINE F == {s \in SUBSET S : /\ sum[s] \in Int
                                  /\ new[s] = sum[s] + IF x \in s THEN d ELSE 0}
<1>3. F \in SUBSET SUBSET S /\ {} \in F
  BY <1>1, <1>2 DEF AreSums
<1>4. ASSUME NEW s \in SUBSET S, s # {}, s \ {Chosen(s)} \in F PROVE s \in F
  <2>1. Chosen(s) \in s
    BY <1>4 DEF Chosen
  <2> DEFINE c == Chosen(s)
             r == s \ {c}
  <2>2. sum[s] = g[c] + sum[r] /\ new[s] = f[c] + new[r]
    BY <1>1, <1>2, <1>4 DEF AreSums
  <2>3. /\ g[c] \in Int /\ f[c] \in Int /\ sum[r] \in Int /\ d \in Int
        /\ new[r] = sum[r] + IF x \in r THEN d ELSE 0
    BY <1>4, <2>1
  <2>4. sum[s] \in Int
    BY <2>2, <2>3
  <2>5. CASE c = x
    <3>1. x \notin r /\ x \in s
      BY <2>1, <2>5
    <3>2. f[c] = g[c] + d
      BY <2>3, <2>5
    <3>3. new[s] = sum[s] + d
      <4> HIDE DEF c, d, r
      <4> QED BY <2>2, <2>3, <3>1, <3>2
    <3> QED BY <2>4, <3>1, <3>3
  <2>6. CASE c # x
    <3>1. x \in r <=> x \in s
      BY <2>6
    <3>2. f[c] = g[c]
      BY <2>1, <2>6
    <3>3. new[s] = sum[s] + IF x \in s THEN d ELSE 0
      <4> HIDE DEF c, d, r
      <4> QED BY <2>2, <2>3, <3>1, <3>2
    <3> QED BY <2>4, <3>3
  <2> QED BY <2>5, <2>6
<1>5. S \in F
  <2> HIDE DEF F
  <2> QED BY <1>3, <1>4, SumInduction
<1> QED BY <1>1, <1>2, <1>5 DEF AreSums
=============================================================================
