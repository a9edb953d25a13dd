------------------------------ MODULE Induction ------------------------------
(***************************************************************************)
(* Induction and recursion for the algorithms of this project, with sets   *)
(* for predicates: a property of numbers or of sets is the set of those    *)
(* that have it, and the step of a recursion is a function.                *)
(***************************************************************************)
EXTENDS Integers, FiniteSets, FiniteSetTheorems, WellFoundedInduction, TLAPS

\* P has T when it has every strict subset of T.
Hereditary(S, P) ==
  \A T \in SUBSET S : (\A U \in SUBSET T : U # T => U \in P) => T \in P

\* P has {}, and T when it has T without some element.
OneByOne(S, P) ==
  {} \in P /\ \A T \in SUBSET S : \A x \in T : T \ {x} \in P => T \in P

\* The step H of a recursion from X to V looks at lower ranks only, and the
\* ranks are bounded.
Descends(X, V, N, r, H) ==
  /\ V # {} /\ N \in Nat /\ r \in [X -> 0 .. N]
  /\ H \in [X -> [[X -> V] -> V]]
  /\ \A x \in X : \A g, h \in [X -> V] :
       (\A y \in X : r[y] < r[x] => g[y] = h[y]) => H[x][g] = H[x][h]

\* Induction over the naturals.
LEMMA NatInduct ==
  ASSUME NEW P, 0 \in P, \A n \in Nat : n \in P => n + 1 \in P
  PROVE  Nat \subseteq P
<1> SUFFICES ASSUME Nat \ P # {} PROVE FALSE
  OBVIOUS
<1>1. PICK x \in Nat \ P :
        \A y \in Nat \ P : ~(<<y, x>> \in OpToRel(<, Nat))
  BY NatLessThanWellFounded, WFMin
<1>2. x # 0 /\ x - 1 \in Nat
  OBVIOUS
<1>3. x - 1 \in P
  <2>1. <<x - 1, x>> \in Nat \X Nat /\ x - 1 < x
    BY <1>2
  <2>2. <<x - 1, x>> \in OpToRel(<, Nat)
    BY <2>1 DEF OpToRel
  <2> QED
    BY <1>1, <1>2, <2>2
<1> QED
  BY <1>2, <1>3

\* Strong induction over the subsets of a finite set.
LEMMA SubsetInduct ==
  ASSUME NEW S, IsFiniteSet(S), NEW P, Hereditary(S, P)
  PROVE  SUBSET S \subseteq P
<1> SUFFICES ASSUME (SUBSET S) \ P # {} PROVE FALSE
  OBVIOUS
<1> DEFINE Bad == (SUBSET S) \ P
<1>1. Bad \subseteq FiniteSubsetsOf(S)
  BY FS_Subset DEF FiniteSubsetsOf
<1>2. PICK T \in Bad : \A U \in Bad : ~(<<U, T>> \in StrictSubsetOrdering(S))
  <2>1. IsWellFoundedOn(StrictSubsetOrdering(S), FiniteSubsetsOf(S))
    BY FS_StrictSubsetOrderingWellFounded
  <2>2. Bad # {}
    OBVIOUS
  <2> HIDE DEF Bad
  <2> QED
    BY <1>1, <2>1, <2>2, WFMin
<1>3. \A U \in SUBSET T : U # T => U \in P
  BY <1>2 DEF StrictSubsetOrdering
<1> QED
  BY <1>2, <1>3 DEF Hereditary

\* Induction over the subsets of a finite set, an element at a time.
LEMMA FiniteInduct ==
  ASSUME NEW S, IsFiniteSet(S), NEW P, OneByOne(S, P)
  PROVE  \A T \in SUBSET S : T \in P
<1> USE DEF OneByOne
<1>1. Hereditary(S, P)
  <2> SUFFICES ASSUME NEW T \in SUBSET S, \A U \in SUBSET T : U # T => U \in P
               PROVE  T \in P
    BY DEF Hereditary
  <2>1. CASE T = {}
    BY <2>1
  <2>2. CASE T # {}
    <3>1. PICK x \in T : TRUE
      BY <2>2
    <3>2. T \ {x} \in SUBSET T /\ T \ {x} # T
      OBVIOUS
    <3> QED
      BY <3>2
  <2> QED
    BY <2>1, <2>2
<1> QED
  BY <1>1, SubsetInduct

\* A function whose value at x depends on its values at lower ranks exists.
LEMMA RankRecursion ==
  ASSUME NEW X, NEW V, NEW N, NEW r, NEW H, Descends(X, V, N, r, H)
  PROVE  \E f \in [X -> V] : \A x \in X : f[x] = H[x][f]
<1> USE DEF Descends
<1> DEFINE P == {n \in Nat : \E f \in [X -> V] :
                               \A x \in X : r[x] < n => f[x] = H[x][f]}
<1>1. 0 \in P
  <2>1. PICK v \in V : TRUE
    OBVIOUS
  <2>2. [x \in X |-> v] \in [X -> V]
    OBVIOUS
  <2>3. \A x \in X : ~(r[x] < 0)
    OBVIOUS
  <2> QED
    BY <2>2, <2>3
<1>2. ASSUME NEW n \in Nat, n \in P PROVE n + 1 \in P
  <2>1. PICK f \in [X -> V] : \A x \in X : r[x] < n => f[x] = H[x][f]
    BY <1>2
  <2> DEFINE g == [x \in X |-> H[x][f]]
  <2>2. g \in [X -> V]
    OBVIOUS
  <2>3. ASSUME NEW x \in X, r[x] < n + 1 PROVE g[x] = H[x][g]
    <3>1. \A y \in X : r[y] < r[x] => f[y] = g[y]
      BY <2>1, <2>3
    <3>2. H[x][f] = H[x][g]
      BY <2>2, <3>1
    <3> QED
      BY <3>2
  <2>4. \A x \in X : r[x] < n + 1 => g[x] = H[x][g]
    BY <2>3
  <2> HIDE DEF g
  <2> QED
    BY <2>2, <2>4
<1>3. N + 1 \in P
  <2> HIDE DEF P
  <2> QED
    BY <1>1, <1>2, NatInduct
<1>4. \A x \in X : r[x] < N + 1
  OBVIOUS
<1> QED
  BY <1>3, <1>4

-----------------------------------------------------------------------------
(* Products and quotients.                                                 *)

LEMMA Times ==
  ASSUME NEW x \in Nat, NEW y \in Nat, NEW z \in Nat
  PROVE  /\ x <= y => x * z <= y * z
         /\ x * z < y * z => x < y
         /\ z > 0 /\ x * z <= y * z => x <= y
         /\ x * y = y * x
         /\ x * (y + z) = x * y + x * z
         /\ x * y \in Nat
         /\ x * (y * z) = (x * y) * z
  OBVIOUS

LEMMA Division ==
  ASSUME NEW n \in Nat, NEW d \in Nat, d > 0
  PROVE  /\ n \div d \in Nat /\ n % d \in Nat /\ n % d < d
         /\ n = d * (n \div d) + (n % d)
  OBVIOUS

-----------------------------------------------------------------------------
(* Ranks in a finite ordered set.                                          *)

\* R orders A strictly and totally.
Orders(R, A) ==
  /\ \A x \in A : <<x, x>> \notin R
  /\ \A x, y, z \in A : <<x, y>> \in R /\ <<y, z>> \in R => <<x, z>> \in R
  /\ \A x, y \in A : x = y \/ <<x, y>> \in R \/ <<y, x>> \in R

Below(R, A, x) == {y \in A : <<y, x>> \in R}
Rank(R, A, x) == Cardinality(Below(R, A, x))

LEMMA RankFacts ==
  ASSUME NEW A, IsFiniteSet(A), NEW R, Orders(R, A)
  PROVE  /\ \A x \in A : Rank(R, A, x) \in 0 .. Cardinality(A) - 1
         /\ \A x, y \in A : <<x, y>> \in R => Rank(R, A, x) < Rank(R, A, y)
         /\ \A x, y \in A : Rank(R, A, x) = Rank(R, A, y) => x = y
<1>1. ASSUME NEW x \in A
      PROVE  Rank(R, A, x) \in 0 .. Cardinality(A) - 1
  <2>1. Below(R, A, x) \subseteq A \ {x}
    BY DEF Below, Orders
  <2>2. IsFiniteSet(A \ {x}) /\ Cardinality(A \ {x}) = Cardinality(A) - 1
    BY FS_RemoveElement
  <2>3. /\ IsFiniteSet(Below(R, A, x))
        /\ Cardinality(Below(R, A, x)) <= Cardinality(A \ {x})
    BY <2>1, <2>2, FS_Subset
  <2>4. Cardinality(A) \in Nat /\ Cardinality(Below(R, A, x)) \in Nat
    BY <2>3, FS_CardinalityType
  <2> QED
    BY <2>2, <2>3, <2>4 DEF Rank
<1>2. ASSUME NEW x \in A, NEW y \in A, <<x, y>> \in R
      PROVE  Rank(R, A, x) < Rank(R, A, y)
  <2> DEFINE B == Below(R, A, x)
             C == Below(R, A, y)
  <2>1. B \cup {x} \subseteq C /\ x \notin B
    BY <1>2 DEF Below, Orders
  <2>2. IsFiniteSet(B) /\ IsFiniteSet(C)
    BY FS_Subset DEF Below
  <2> HIDE DEF B, C
  <2>3. /\ Cardinality(B \cup {x}) = Cardinality(B) + 1
        /\ Cardinality(B \cup {x}) <= Cardinality(C)
    BY <2>1, <2>2, FS_AddElement, FS_Subset
  <2>4. Cardinality(B) \in Nat /\ Cardinality(C) \in Nat
    BY <2>2, FS_CardinalityType
  <2> QED
    BY <2>3, <2>4 DEF B, C, Rank
<1>3. ASSUME NEW x \in A, NEW y \in A, Rank(R, A, x) = Rank(R, A, y) PROVE x = y
  <2>1. Rank(R, A, x) \in Int /\ Rank(R, A, y) \in Int
    BY <1>1
  <2>2. <<x, y>> \notin R /\ <<y, x>> \notin R
    BY <1>2, <1>3, <2>1
  <2> QED
    BY <2>2 DEF Orders
<1> QED
  BY <1>1, <1>2, <1>3

\* Every rank is taken, so k elements have a rank below k.
LEMMA RanksAreTaken ==
  ASSUME NEW A, IsFiniteSet(A), NEW R, Orders(R, A)
  PROVE  \A k \in 0 .. Cardinality(A) - 1 : \E x \in A : Rank(R, A, x) = k
<1> DEFINE n == Cardinality(A)
           T == 0 .. n - 1
           r == [x \in A |-> Rank(R, A, x)]
<1>1. n \in Nat
  BY FS_CardinalityType
<1>2. r \in [A -> T] /\ \A x, y \in A : r[x] = r[y] => x = y
  BY RankFacts
<1>3. r \in Injection(A, T)
  <2> HIDE DEF r, T
  <2> QED
    BY <1>2 DEF Injection, IsInjective
<1>4. IsFiniteSet(T) /\ Cardinality(T) = n
  BY <1>1, FS_Interval
<1>5. r \in Surjection(A, T)
  <2> HIDE DEF r, T
  <2> QED
    BY <1>3, <1>4, FS_Injection
<1>6. \A k \in T : \E x \in A : r[x] = k
  <2> HIDE DEF r, T
  <2> QED
    BY <1>5 DEF Surjection
<1> QED
  BY <1>6

LEMMA RankCount ==
  ASSUME NEW A, IsFiniteSet(A), NEW R, Orders(R, A),
         NEW k \in 0 .. Cardinality(A)
  PROVE  Cardinality({x \in A : Rank(R, A, x) < k}) = k
<1> DEFINE G == {x \in A : Rank(R, A, x) < k}
           T == 0 .. k - 1
           r == [x \in G |-> Rank(R, A, x)]
<1>1. Cardinality(A) \in Nat /\ k \in Nat
  BY FS_CardinalityType
<1>2. r \in [G -> T] /\ \A x, y \in G : r[x] = r[y] => x = y
  BY <1>1, RankFacts
<1>3. \A j \in T : \E x \in G : r[x] = j
  BY <1>1, RanksAreTaken
<1>4. IsFiniteSet(T) /\ Cardinality(T) = k
  <2>1. 0 \in Int /\ k - 1 \in Int
    BY <1>1
  <2>2. /\ IsFiniteSet(T)
        /\ Cardinality(T) = IF 0 > k - 1 THEN 0 ELSE (k - 1) - 0 + 1
    BY <2>1, FS_Interval, Zenon
  <2> QED
    BY <1>1, <2>2
<1> HIDE DEF G, T, r
<1>5. r \in Injection(G, T) /\ r \in Surjection(G, T)
  BY <1>2, <1>3 DEF Injection, IsInjective, Surjection
<1>6. Cardinality(G) = Cardinality(T)
  BY <1>4, <1>5, FS_Injection
<1> QED
  BY <1>4, <1>6 DEF G
=============================================================================
