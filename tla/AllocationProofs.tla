-------------------------- MODULE AllocationProofs --------------------------
(***************************************************************************)
(* What the budget formula guarantees for every map, weight, budget, floor *)
(* and cap.                                                                *)
(***************************************************************************)
EXTENDS Allocation, Induction

-----------------------------------------------------------------------------
(* Sums.                                                                   *)

Pick(S) == CHOOSE x \in S : TRUE

LEMMA PickFacts == \A S : S # {} => Pick(S) \in S
BY DEF Pick

LEMMA FewerElements ==
  ASSUME NEW S, IsFiniteSet(S), NEW x \in S
  PROVE  /\ IsFiniteSet(S \ {x}) /\ Cardinality(S) \in Nat
         /\ Cardinality(S \ {x}) = Cardinality(S) - 1
         /\ Cardinality(S \ {x}) < Cardinality(S)
BY FS_RemoveElement, FS_CardinalityType

Numbers(S, of) == IsFiniteSet(S) /\ \A x \in S : of[x] \in Nat

\* sum has the sum of every subset, the chosen element first.
Sums(S, of, sum) ==
  /\ sum \in [SUBSET S -> Nat]
  /\ sum[{}] = 0
  /\ \A T \in SUBSET S : T # {} => sum[T] = of[Pick(T)] + sum[T \ {Pick(T)}]

\* What TLA+ says of a sum's recursive definition: the function it chooses
\* exists, and takes the chosen element first.
LEMMA SumUnfolds ==
  ASSUME NEW S, NEW of, Numbers(S, of)
  PROVE  \E sum : Sums(S, of, sum) /\ Total(of, S) = sum[S]
<1> USE DEF Numbers
<1> DEFINE X == SUBSET S
           N == Cardinality(S)
           r == [T \in X |-> Cardinality(T)]
           Step(T, g) == IF T = {} THEN 0 ELSE of[Pick(T)] + g[T \ {Pick(T)}]
           H == [T \in X |-> [g \in [X -> Nat] |-> Step(T, g)]]
           Is(f) == f = [T \in X |-> Step(T, f)]
<1>1. N \in Nat /\ r \in [X -> 0 .. N]
  BY FS_Subset, FS_CardinalityType
<1>2. \A T \in X : \A g \in [X -> Nat] : Step(T, g) \in Nat
  BY PickFacts
<1>3. H \in [X -> [[X -> Nat] -> Nat]]
  BY <1>2
<1>4. ASSUME NEW T \in X, NEW g \in [X -> Nat], NEW h \in [X -> Nat],
             \A U \in X : r[U] < r[T] => g[U] = h[U]
      PROVE  H[T][g] = H[T][h]
  <2>1. CASE T = {}
    BY <2>1
  <2>2. CASE T # {}
    <3>1. Pick(T) \in T /\ IsFiniteSet(T) /\ T \ {Pick(T)} \in X
      BY <2>2, PickFacts, FS_Subset
    <3>2. r[T \ {Pick(T)}] < r[T]
      BY <3>1, FewerElements
    <3>3. g[T \ {Pick(T)}] = h[T \ {Pick(T)}]
      BY <1>4, <3>1, <3>2
    <3> QED
      BY <3>3
  <2> QED
    BY <2>1, <2>2
<1>5. \E f \in [X -> Nat] : \A T \in X : f[T] = H[T][f]
  <2>1. Descends(X, Nat, N, r, H)
    <3>1. Nat # {}
      OBVIOUS
    <3> HIDE DEF X, N, r, H
    <3> QED
      BY <1>1, <1>3, <1>4, <3>1 DEF Descends
  <2> HIDE DEF X, N, r, H
  <2> QED
    BY <2>1, RankRecursion
<1>6. \E f : Is(f)
  <2>1. PICK f \in [X -> Nat] : \A T \in X : f[T] = H[T][f]
    BY <1>5
  <2>2. \A T \in X : f[T] = Step(T, f)
    BY <2>1
  <2>3. f = [T \in X |-> Step(T, f)]
    BY <2>2
  <2> QED
    BY <2>3
<1> DEFINE sum == CHOOSE f : Is(f)
<1>7. Is(sum)
  BY <1>6
<1>8. Total(of, S) = sum[S]
  BY DEF Total, MapThenSumSet, MapThenFoldSet, Pick
<1> HIDE DEF sum
<1>9. \A T \in X : sum[T] = Step(T, sum)
  BY <1>7
<1>10. SUBSET S \subseteq {T \in X : sum[T] \in Nat}
  <2> DEFINE P == {T \in X : sum[T] \in Nat}
  <2>1. ASSUME NEW T \in X, \A U \in SUBSET T : U # T => U \in P PROVE T \in P
    <3>1. CASE T = {}
      <4>1. sum[T] = 0
        BY <1>9, <3>1
      <4> QED
        BY <4>1
    <3>2. CASE T # {}
      <4>1. Pick(T) \in T
        BY <3>2, PickFacts
      <4>2. T \ {Pick(T)} \in P
        BY <2>1, <4>1
      <4>3. of[Pick(T)] \in Nat /\ sum[T \ {Pick(T)}] \in Nat
        BY <4>1, <4>2
      <4>4. sum[T] = of[Pick(T)] + sum[T \ {Pick(T)}]
        BY <1>9, <3>2
      <4> QED
        BY <4>3, <4>4
    <3> QED
      BY <3>1, <3>2
  <2>2. Hereditary(S, P)
    <3> HIDE DEF P
    <3> QED
      BY <2>1 DEF Hereditary
  <2> HIDE DEF P
  <2>3. SUBSET S \subseteq P
    BY <2>2, SubsetInduct
  <2> QED
    BY <2>3 DEF P
<1>11. sum \in [X -> Nat]
  BY <1>7, <1>10
<1>12. Sums(S, of, sum)
  BY <1>9, <1>11 DEF Sums
<1> QED
  BY <1>8, <1>12

LEMMA SumOfSubset ==
  ASSUME NEW S, NEW of, Numbers(S, of), NEW sum, Sums(S, of, sum),
         NEW T \in SUBSET S
  PROVE  sum[T] = Total(of, T)
<1>1. Numbers(T, of)
  BY FS_Subset DEF Numbers
<1>2. PICK f : Sums(T, of, f) /\ Total(of, T) = f[T]
  BY <1>1, SumUnfolds
<1> DEFINE P == {U \in SUBSET T : f[U] = sum[U]}
<1>3. ASSUME NEW U \in SUBSET T, \A V \in SUBSET U : V # U => V \in P
      PROVE  U \in P
  <2>1. CASE U = {}
    BY <1>2, <2>1 DEF Sums
  <2>2. CASE U # {}
    <3>1. Pick(U) \in U
      BY <2>2, PickFacts
    <3>2. f[U \ {Pick(U)}] = sum[U \ {Pick(U)}]
      BY <1>3, <3>1
    <3> QED
      BY <1>2, <2>2, <3>2 DEF Sums
  <2> QED
    BY <2>1, <2>2
<1>4. SUBSET T \subseteq P
  <2> HIDE DEF P
  <2>1. Hereditary(T, P)
    BY <1>3 DEF Hereditary
  <2> QED
    BY <1>1, <2>1, SubsetInduct DEF Numbers
<1> QED
  BY <1>2, <1>4

\* A sum is a number, the empty one 0, and any element may be taken first.
LEMMA SumFacts ==
  ASSUME NEW S, NEW of, Numbers(S, of)
  PROVE  /\ Total(of, S) \in Nat
         /\ Total(of, {}) = 0
         /\ \A T \in SUBSET S : Total(of, T) \in Nat
         /\ \A T \in SUBSET S : \A x \in T :
              Total(of, T) = of[x] + Total(of, T \ {x})
<1>1. PICK sum : Sums(S, of, sum)
  BY SumUnfolds
<1>2. \A T \in SUBSET S : sum[T] = Total(of, T)
  BY <1>1, SumOfSubset
<1>7. sum \in [SUBSET S -> Nat]
  BY <1>1 DEF Sums
<1> DEFINE P == {T \in SUBSET S : \A x \in T : sum[T] = of[x] + sum[T \ {x}]}
<1>3. ASSUME NEW T \in SUBSET S, \A U \in SUBSET T : U # T => U \in P
      PROVE  T \in P
  <2> SUFFICES ASSUME NEW x \in T PROVE sum[T] = of[x] + sum[T \ {x}]
    OBVIOUS
  <2> DEFINE c == Pick(T)
  <2>1. c \in T /\ sum[T] = of[c] + sum[T \ {c}]
    BY <1>1, PickFacts DEF Sums
  <2>2. CASE x = c
    BY <2>1, <2>2
  <2>3. CASE x # c
    <3> HIDE DEF c
    <3>1. T \ {c} \in P /\ T \ {x} \in P
      BY <1>3, <2>1
    <3>2. sum[T \ {c}] = of[x] + sum[(T \ {c}) \ {x}]
      BY <2>3, <3>1
    <3>3. sum[T \ {x}] = of[c] + sum[(T \ {x}) \ {c}]
      BY <2>1, <2>3, <3>1
    <3>4. (T \ {c}) \ {x} = (T \ {x}) \ {c}
      OBVIOUS
    <3>5. /\ of[x] \in Nat /\ of[c] \in Nat
          /\ sum[(T \ {x}) \ {c}] \in Nat
      BY <1>7, <2>1 DEF Numbers
    <3>6. sum[T] = of[c] + (of[x] + sum[(T \ {x}) \ {c}])
      BY <2>1, <3>2, <3>4
    <3> QED
      BY <3>3, <3>5, <3>6
  <2> QED
    BY <2>2, <2>3
<1>4. SUBSET S \subseteq P
  <2> HIDE DEF P
  <2>1. Hereditary(S, P)
    BY <1>3 DEF Hereditary
  <2> QED
    BY <2>1, SubsetInduct DEF Numbers
<1>5. Total(of, {}) = 0 /\ \A T \in SUBSET S : Total(of, T) \in Nat
  BY <1>1, <1>2, <1>7 DEF Sums
<1>6. \A T \in SUBSET S : \A x \in T : Total(of, T) = of[x] + Total(of, T \ {x})
  <2> SUFFICES ASSUME NEW T \in SUBSET S, NEW x \in T
               PROVE  Total(of, T) = of[x] + Total(of, T \ {x})
    OBVIOUS
  <2>1. sum[T] = of[x] + sum[T \ {x}]
    BY <1>4
  <2>2. T \ {x} \in SUBSET S
    OBVIOUS
  <2> QED
    BY <1>2, <2>1, <2>2
<1> QED
  BY <1>5, <1>6

LEMMA SumAtMost ==
  ASSUME NEW S, NEW f, NEW g, Numbers(S, f), Numbers(S, g),
         \A x \in S : f[x] <= g[x]
  PROVE  Total(f, S) <= Total(g, S)
<1> DEFINE P == {T \in SUBSET S : Total(f, T) <= Total(g, T)}
<1>1. {} \in P
  BY SumFacts
<1>2. ASSUME NEW T \in SUBSET S, NEW x \in T, T \ {x} \in P PROVE T \in P
  <2>1. /\ Total(f, T) = f[x] + Total(f, T \ {x})
        /\ Total(g, T) = g[x] + Total(g, T \ {x})
        /\ Total(f, T \ {x}) \in Nat /\ Total(g, T \ {x}) \in Nat
    BY SumFacts
  <2>2. f[x] \in Nat /\ g[x] \in Nat /\ f[x] <= g[x]
    BY DEF Numbers
  <2>3. Total(f, T \ {x}) <= Total(g, T \ {x})
    BY <1>2
  <2> QED
    BY <2>1, <2>2, <2>3
<1>3. IsFiniteSet(S)
  BY DEF Numbers
<1>4. S \in P
  <2> HIDE DEF P
  <2>1. OneByOne(S, P)
    BY <1>1, <1>2 DEF OneByOne
  <2> QED
    BY <1>3, <2>1, FiniteInduct
<1> QED
  BY <1>4

LEMMA SumSame ==
  ASSUME NEW S, NEW f, NEW g, Numbers(S, f), \A x \in S : f[x] = g[x]
  PROVE  Numbers(S, g) /\ Total(f, S) = Total(g, S)
<1>1. Numbers(S, g)
  BY DEF Numbers
<1>2. (\A x \in S : f[x] <= g[x]) /\ (\A x \in S : g[x] <= f[x])
  BY DEF Numbers
<1>3. Total(f, S) <= Total(g, S) /\ Total(g, S) <= Total(f, S)
  BY <1>1, <1>2, SumAtMost
<1>4. Total(f, S) \in Nat /\ Total(g, S) \in Nat
  BY <1>1, SumFacts
<1> QED
  BY <1>1, <1>3, <1>4

LEMMA SumPlus ==
  ASSUME NEW S, NEW f, NEW g, NEW h, Numbers(S, f), Numbers(S, g),
         \A x \in S : h[x] = f[x] + g[x]
  PROVE  Numbers(S, h) /\ Total(h, S) = Total(f, S) + Total(g, S)
<1> DEFINE P == {T \in SUBSET S : Total(h, T) = Total(f, T) + Total(g, T)}
<1>1. Numbers(S, h)
  BY DEF Numbers
<1>2. {} \in P
  BY <1>1, SumFacts
<1>3. ASSUME NEW T \in SUBSET S, NEW x \in T, T \ {x} \in P PROVE T \in P
  <2>1. /\ Total(f, T) = f[x] + Total(f, T \ {x})
        /\ Total(g, T) = g[x] + Total(g, T \ {x})
        /\ Total(h, T) = h[x] + Total(h, T \ {x})
        /\ Total(f, T \ {x}) \in Nat /\ Total(g, T \ {x}) \in Nat
    BY <1>1, SumFacts
  <2>2. f[x] \in Nat /\ g[x] \in Nat /\ h[x] = f[x] + g[x]
    BY DEF Numbers
  <2>3. Total(h, T \ {x}) = Total(f, T \ {x}) + Total(g, T \ {x})
    BY <1>3
  <2> QED
    BY <2>1, <2>2, <2>3
<1>4. S \in P
  <2> HIDE DEF P
  <2>1. OneByOne(S, P)
    BY <1>2, <1>3 DEF OneByOne
  <2> QED
    BY <2>1, FiniteInduct DEF Numbers
<1> QED
  BY <1>1, <1>4

LEMMA SumTimes ==
  ASSUME NEW S, NEW f, NEW g, NEW k \in Nat, Numbers(S, f),
         \A x \in S : g[x] = k * f[x]
  PROVE  Numbers(S, g) /\ Total(g, S) = k * Total(f, S)
<1> DEFINE P == {T \in SUBSET S : Total(g, T) = k * Total(f, T)}
<1>1. Numbers(S, g)
  BY DEF Numbers
<1>2. {} \in P
  BY <1>1, SumFacts
<1>3. ASSUME NEW T \in SUBSET S, NEW x \in T, T \ {x} \in P PROVE T \in P
  <2>1. /\ Total(f, T) = f[x] + Total(f, T \ {x})
        /\ Total(g, T) = g[x] + Total(g, T \ {x})
        /\ Total(f, T \ {x}) \in Nat
    BY <1>1, SumFacts
  <2>2. f[x] \in Nat /\ g[x] = k * f[x]
    BY DEF Numbers
  <2>3. Total(g, T \ {x}) = k * Total(f, T \ {x})
    BY <1>3
  <2>4. \A m, n \in Nat : k * (m + n) = k * m + k * n
    OBVIOUS
  <2> QED
    BY <2>1, <2>2, <2>3, <2>4
<1>4. S \in P
  <2> HIDE DEF P
  <2>1. OneByOne(S, P)
    BY <1>2, <1>3 DEF OneByOne
  <2> QED
    BY <2>1, FiniteInduct DEF Numbers
<1> QED
  BY <1>1, <1>4

\* Counting is summing ones.
LEMMA SumCounts ==
  ASSUME NEW S, IsFiniteSet(S), NEW G \in SUBSET S, NEW f,
         \A x \in S : f[x] = IF x \in G THEN 1 ELSE 0
  PROVE  Numbers(S, f) /\ Total(f, S) = Cardinality(G)
<1> DEFINE P == {T \in SUBSET S : Total(f, T) = Cardinality(T \cap G)}
<1>1. Numbers(S, f)
  BY DEF Numbers
<1>2. {} \in P
  <2>1. {} \cap G = {}
    OBVIOUS
  <2> QED
    BY <1>1, <2>1, SumFacts, FS_EmptySet
<1>3. ASSUME NEW T \in SUBSET S, NEW x \in T, T \ {x} \in P PROVE T \in P
  <2> DEFINE U == (T \ {x}) \cap G
  <2>1. Total(f, T) = f[x] + Cardinality(U)
    BY <1>1, <1>3, SumFacts
  <2>2. IsFiniteSet(U) /\ Cardinality(U) \in Nat /\ x \notin U
    BY FS_Subset, FS_CardinalityType
  <2>3. CASE x \in G
    <3>1. T \cap G = U \cup {x} /\ f[x] = 1
      BY <2>3
    <3>2. Cardinality(U \cup {x}) = Cardinality(U) + 1
      <4> HIDE DEF U
      <4> QED
        BY <2>2, FS_AddElement
    <3>3. Cardinality(T \cap G) = Cardinality(U) + 1
      <4> HIDE DEF U
      <4> QED
        BY <3>1, <3>2, Zenon
    <3>4. Total(f, T) = Cardinality(T \cap G)
      <4> HIDE DEF U
      <4> QED
        BY <2>1, <2>2, <3>1, <3>3
    <3> QED
      BY <3>4
  <2>4. CASE x \notin G
    <3>1. T \cap G = U /\ f[x] = 0
      BY <2>4
    <3>2. Cardinality(T \cap G) = Cardinality(U)
      <4> HIDE DEF U
      <4> QED
        BY <3>1, Zenon
    <3>3. Total(f, T) = Cardinality(T \cap G)
      <4> HIDE DEF U
      <4> QED
        BY <2>1, <2>2, <3>1, <3>2
    <3> QED
      BY <3>3
  <2> QED
    BY <2>3, <2>4
<1>4. S \in P
  <2> HIDE DEF P
  <2>1. OneByOne(S, P)
    BY <1>2, <1>3 DEF OneByOne
  <2> QED
    BY <2>1, FiniteInduct
<1>5. S \cap G = G
  OBVIOUS
<1> QED
  BY <1>1, <1>4, <1>5

LEMMA SumConstant ==
  ASSUME NEW S, IsFiniteSet(S), NEW f, NEW k \in Nat, \A x \in S : f[x] = k
  PROVE  Numbers(S, f) /\ Total(f, S) = k * Cardinality(S)
<1> DEFINE one == [x \in S |-> 1]
<1>1. Numbers(S, one) /\ Total(one, S) = Cardinality(S)
  BY SumCounts
<1>2. \A x \in S : f[x] = k * one[x]
  OBVIOUS
<1> HIDE DEF one
<1> QED
  BY <1>1, <1>2, SumTimes

\* A sum is the sum of its parts.
LEMMA SumSplits ==
  ASSUME NEW S, NEW f, Numbers(S, f), NEW A \in SUBSET S
  PROVE  /\ Numbers(A, f) /\ Numbers(S \ A, f)
         /\ Total(f, S) = Total(f, A) + Total(f, S \ A)
<1> DEFINE P == {T \in SUBSET S : Total(f, T) = Total(f, T \cap A) + Total(f, T \ A)}
<1>1. Numbers(A, f) /\ Numbers(S \ A, f)
  BY FS_Subset DEF Numbers
<1>2. {} \in P
  <2>1. {} \cap A = {} /\ {} \ A = {}
    OBVIOUS
  <2> QED
    BY <2>1, SumFacts
<1>3. ASSUME NEW T \in SUBSET S, NEW x \in T, T \ {x} \in P PROVE T \in P
  <2> DEFINE B == (T \ {x}) \cap A
             C == (T \ {x}) \ A
  <2>1. Total(f, T) = f[x] + (Total(f, B) + Total(f, C))
    BY <1>3, SumFacts
  <2>2. B \in SUBSET S /\ C \in SUBSET S
    OBVIOUS
  <2>3. f[x] \in Nat /\ Total(f, B) \in Nat /\ Total(f, C) \in Nat
    BY <2>2, SumFacts DEF Numbers
  <2>4. CASE x \in A
    <3>1. T \cap A \in SUBSET S /\ x \in T \cap A /\ (T \cap A) \ {x} = B /\ T \ A = C
      BY <2>4
    <3>2. Total(f, T \cap A) = f[x] + Total(f, (T \cap A) \ {x})
      BY <3>1, SumFacts
    <3>3. Total(f, (T \cap A) \ {x}) = Total(f, B) /\ Total(f, T \ A) = Total(f, C)
      <4> HIDE DEF B, C
      <4> QED
        BY <3>1, Zenon
    <3>4. Total(f, T) = Total(f, T \cap A) + Total(f, T \ A)
      <4> HIDE DEF B, C
      <4> QED
        BY <2>1, <2>3, <3>2, <3>3
    <3> QED
      BY <3>4
  <2>5. CASE x \notin A
    <3>1. T \ A \in SUBSET S /\ x \in T \ A /\ (T \ A) \ {x} = C /\ T \cap A = B
      BY <2>5
    <3>2. Total(f, T \ A) = f[x] + Total(f, (T \ A) \ {x})
      BY <3>1, SumFacts
    <3>3. Total(f, (T \ A) \ {x}) = Total(f, C) /\ Total(f, T \cap A) = Total(f, B)
      <4> HIDE DEF B, C
      <4> QED
        BY <3>1, Zenon
    <3>4. Total(f, T) = Total(f, T \cap A) + Total(f, T \ A)
      <4> HIDE DEF B, C
      <4> QED
        BY <2>1, <2>3, <3>2, <3>3
    <3> QED
      BY <3>4
  <2> QED
    BY <2>4, <2>5
<1>4. S \in P
  <2> HIDE DEF P
  <2>1. OneByOne(S, P)
    BY <1>2, <1>3 DEF OneByOne
  <2> QED
    BY <2>1, FiniteInduct DEF Numbers
<1>5. S \cap A = A
  OBVIOUS
<1> QED
  BY <1>1, <1>4, <1>5

-----------------------------------------------------------------------------
(* Who is left below the cap.                                              *)

Table(weight) ==
  /\ IsFiniteSet(DOMAIN weight) /\ DOMAIN weight # {}
  /\ weight \in [DOMAIN weight -> Nat]

Left(weight, extra, room, S) == extra - room * Cardinality((DOMAIN weight) \ S)
Over(weight, extra, room, S) ==
  {a \in S : Left(weight, extra, room, S) * Part(weight, S, a)
               > room * Whole(weight, S)}

\* What holds of who is left after every round: there is somebody, something
\* is left for them that fits, and they are the lightest angles.
Sharing(weight, extra, room, S) ==
  /\ S \subseteq DOMAIN weight /\ S # {}
  /\ Left(weight, extra, room, S) \in Nat
  /\ Left(weight, extra, room, S) <= room * Cardinality(S)
  /\ \A a \in S : \A b \in (DOMAIN weight) \ S : weight[a] <= weight[b]

LEMMA PartFacts ==
  ASSUME NEW weight, Table(weight), NEW S \in SUBSET DOMAIN weight, S # {}
  PROVE  /\ IsFiniteSet(S) /\ Cardinality(S) \in Nat /\ Cardinality(S) > 0
         /\ Whole(weight, S) \in Nat /\ Whole(weight, S) > 0
         /\ \A a \in S : Part(weight, S, a) \in Nat
         /\ \A a, b \in S : Part(weight, S, a) > Part(weight, S, b)
                              => weight[a] > weight[b]
         /\ Numbers(S, [a \in S |-> Part(weight, S, a)])
         /\ Total([a \in S |-> Part(weight, S, a)], S) = Whole(weight, S)
<1> DEFINE p == [a \in S |-> Part(weight, S, a)]
<1>1. IsFiniteSet(S) /\ Cardinality(S) \in Nat /\ Cardinality(S) > 0
  <2>1. IsFiniteSet(S)
    BY FS_Subset DEF Table
  <2>2. Cardinality(S) \in Nat /\ Cardinality(S) # 0
    BY <2>1, FS_CardinalityType, FS_EmptySet
  <2> QED
    BY <2>1, <2>2
<1>2. Numbers(S, weight)
  BY <1>1 DEF Numbers, Table
<1>3. Total(weight, S) \in Nat
  BY <1>2, SumFacts
<1>4. /\ Whole(weight, S) \in Nat /\ Whole(weight, S) > 0
      /\ \A a \in S : Part(weight, S, a) \in Nat
  BY <1>1, <1>2, <1>3 DEF Whole, Part, Numbers
<1>5. \A a, b \in S : Part(weight, S, a) > Part(weight, S, b) => weight[a] > weight[b]
  BY DEF Part
<1>6. Numbers(S, p) /\ Total(p, S) = Whole(weight, S)
  <2>1. CASE Total(weight, S) = 0
    <3>1. \A a \in S : p[a] = IF a \in S THEN 1 ELSE 0
      BY <2>1 DEF Part
    <3> HIDE DEF p
    <3>2. Numbers(S, p) /\ Total(p, S) = Cardinality(S)
      BY <1>1, <3>1, SumCounts
    <3> QED
      BY <2>1, <3>2 DEF Whole
  <2>2. CASE Total(weight, S) # 0
    <3>1. \A a \in S : weight[a] = p[a]
      BY <2>2 DEF Part
    <3> HIDE DEF p
    <3>2. Numbers(S, p) /\ Total(weight, S) = Total(p, S)
      BY <1>2, <3>1, SumSame
    <3> QED
      BY <2>2, <3>2 DEF Whole
  <2> QED
    BY <2>1, <2>2
<1> QED
  BY <1>1, <1>4, <1>5, <1>6

\* A round fills some angles, and never all of them.
LEMMA SharingGoesOn ==
  ASSUME NEW weight, Table(weight), NEW extra \in Nat, NEW room \in Nat,
         NEW S, Sharing(weight, extra, room, S),
         Over(weight, extra, room, S) # {}
  PROVE  Sharing(weight, extra, room, S \ Over(weight, extra, room, S))
<1> DEFINE A == DOMAIN weight
           O == Over(weight, extra, room, S)
           left == Left(weight, extra, room, S)
           whole == Whole(weight, S)
           p == [a \in S |-> Part(weight, S, a)]
           g == [a \in O |-> left * p[a]]
           h == [a \in O |-> room * whole + 1]
           o == Cardinality(O)
<1>1. /\ S \in SUBSET A /\ S # {} /\ left \in Nat
      /\ left <= room * Cardinality(S)
      /\ \A a \in S : \A b \in A \ S : weight[a] <= weight[b]
  BY DEF Sharing
<1>2. /\ IsFiniteSet(S) /\ Cardinality(S) \in Nat
      /\ whole \in Nat /\ whole > 0
      /\ Numbers(S, p) /\ Total(p, S) = whole
      /\ \A a, b \in S : p[a] > p[b] => weight[a] > weight[b]
      /\ \A a \in S : p[a] \in Nat
  BY <1>1, PartFacts
<1>3. O \in SUBSET S /\ (\A a \in O : left * p[a] > room * whole)
      /\ \A a \in S \ O : ~(left * p[a] > room * whole)
  BY DEF Over
<1>4. IsFiniteSet(O) /\ o \in Nat /\ o > 0
  <2>1. IsFiniteSet(O)
    BY <1>2, <1>3, FS_Subset
  <2>2. o \in Nat /\ o # 0
    BY <2>1, FS_CardinalityType, FS_EmptySet
  <2> QED
    BY <2>1, <2>2
<1> HIDE DEF O, left, whole, p
<1>5. room * o < left
  <2>1. /\ Numbers(O, p) /\ Total(p, O) \in Nat
        /\ Total(p, O) <= whole
    <3>1. /\ Numbers(O, p) /\ Numbers(S \ O, p)
          /\ Total(p, S) = Total(p, O) + Total(p, S \ O)
      BY <1>2, <1>3, SumSplits
    <3>2. Total(p, O) \in Nat /\ Total(p, S \ O) \in Nat
      BY <3>1, SumFacts
    <3> QED
      BY <1>2, <3>1, <3>2
  <2>2. Numbers(O, g) /\ Total(g, O) = left * Total(p, O)
    <3>1. \A a \in O : g[a] = left * p[a]
      OBVIOUS
    <3> HIDE DEF g
    <3> QED
      BY <1>1, <2>1, <3>1, SumTimes
  <2>3. room * whole \in Nat /\ room * whole + 1 \in Nat
    BY <1>2
  <2>4. Numbers(O, h) /\ Total(h, O) = (room * whole + 1) * o
    <3>1. \A a \in O : h[a] = room * whole + 1
      OBVIOUS
    <3> HIDE DEF h
    <3> QED
      BY <1>4, <2>3, <3>1, SumConstant
  <2>5. \A a \in O : h[a] <= g[a]
    <3>1. \A a \in O : left * p[a] > room * whole /\ left * p[a] \in Nat
      BY <1>1, <1>2, <1>3
    <3> QED
      BY <2>3, <3>1
  <2> HIDE DEF g, h
  <2>6. (room * whole + 1) * o <= left * Total(p, O)
    BY <2>2, <2>4, <2>5, SumAtMost
  <2>7. left * Total(p, O) <= left * whole
    BY <1>1, <1>2, <2>1, Times
  <2>8. (room * whole + 1) * o = (room * o) * whole + o
    BY <1>2, <1>4
  <2>9. (room * o) * whole < left * whole
    <3>1. (room * o) * whole \in Nat /\ left * whole \in Nat /\ left * Total(p, O) \in Nat
      BY <1>1, <1>2, <1>4, <2>1
    <3> QED
      BY <1>4, <2>6, <2>7, <2>8, <3>1
  <2>10. room * o \in Nat
    BY <1>4
  <2> QED
    BY <1>1, <1>2, <2>9, <2>10, Times
<1>6. /\ Cardinality(A \ (S \ O)) = Cardinality(A \ S) + o
      /\ Cardinality(S \ O) = Cardinality(S) - o
      /\ Cardinality(A \ S) \in Nat /\ Cardinality(S \ O) \in Nat
  <2>1. IsFiniteSet(A \ S) /\ IsFiniteSet(S \ O)
    BY <1>2, FS_Subset DEF Table
  <2>2. A \ (S \ O) = (A \ S) \cup O /\ (A \ S) \cap O = {} /\ S \cap O = O
    BY <1>1, <1>3
  <2>3. Cardinality((A \ S) \cup O)
          = Cardinality(A \ S) + Cardinality(O) - Cardinality((A \ S) \cap O)
    BY <1>4, <2>1, FS_Union
  <2>4. Cardinality(S \ O) = Cardinality(S) - Cardinality(S \cap O)
    BY <1>2, FS_Difference
  <2>5. /\ Cardinality(A \ S) \in Nat /\ Cardinality(S \ O) \in Nat
        /\ Cardinality({}) = 0
    BY <2>1, FS_CardinalityType, FS_EmptySet
  <2>6. /\ Cardinality(A \ (S \ O)) = Cardinality((A \ S) \cup O)
        /\ Cardinality((A \ S) \cap O) = Cardinality({})
        /\ Cardinality(S \cap O) = o
    BY <2>2, Zenon
  <2> QED
    BY <1>4, <2>3, <2>4, <2>5, <2>6
<1>7. Left(weight, extra, room, S \ O) = left - room * o
  <2>1. room * (Cardinality(A \ S) + o) = room * Cardinality(A \ S) + room * o
    BY <1>4, <1>6
  <2> QED
    BY <1>4, <1>6, <2>1 DEF Left, left
<1>8. left - room * o <= room * Cardinality(S \ O)
  <2>1. room * (Cardinality(S) - o) = room * Cardinality(S) - room * o
    BY <1>2, <1>4
  <2> QED
    BY <1>1, <1>2, <1>4, <1>6, <2>1
<1>9. S \ O # {}
  <2> SUFFICES ASSUME S \ O = {} PROVE FALSE
    OBVIOUS
  <2>1. Cardinality(S \ O) = 0
    BY FS_EmptySet
  <2> QED
    BY <1>1, <1>4, <1>5, <1>8, <2>1
<1>10. \A a \in S \ O : \A b \in A \ (S \ O) : weight[a] <= weight[b]
  <2> SUFFICES ASSUME NEW a \in S \ O, NEW b \in O PROVE weight[a] <= weight[b]
    BY <1>1
  <2>1. left * p[b] > room * whole /\ ~(left * p[a] > room * whole)
    BY <1>3
  <2>2. p[a] \in Nat /\ p[b] \in Nat /\ room * whole \in Nat
    BY <1>2, <1>3
  <2>3. p[a] < p[b]
    BY <1>1, <2>1, <2>2, Times
  <2>4. weight[b] > weight[a] /\ weight[a] \in Nat /\ weight[b] \in Nat
    BY <1>1, <1>2, <1>3, <2>2, <2>3 DEF Table
  <2> QED
    BY <2>4
<1> QED
  <2>1. room * o \in Nat
    BY <1>4
  <2> QED
    BY <1>1, <1>5, <1>7, <1>8, <1>9, <1>10, <2>1 DEF Sharing, O

\* The rounds end, with nobody left to fill.
LEMMA UnfilledFacts ==
  ASSUME NEW weight, Table(weight), NEW extra \in Nat, NEW room \in Nat,
         extra <= room * Cardinality(DOMAIN weight)
  PROVE  /\ Sharing(weight, extra, room, Unfilled(weight, extra, room))
         /\ Over(weight, extra, room, Unfilled(weight, extra, room)) = {}
         /\ Over(weight, extra, room, DOMAIN weight) = {} =>
              Unfilled(weight, extra, room) = DOMAIN weight
<1> DEFINE A == DOMAIN weight
           X == SUBSET A
           N == Cardinality(A)
           r == [S \in X |-> Cardinality(S)]
           O(S) == Over(weight, extra, room, S)
           Step(S, g) == IF O(S) = {} THEN S ELSE g[S \ O(S)]
           H == [S \in X |-> [g \in [X -> X] |-> Step(S, g)]]
           Is(f) == f = [S \in X |-> Step(S, f)]
           rest == CHOOSE f : Is(f)
<1>1. IsFiniteSet(A) /\ N \in Nat /\ r \in [X -> 0 .. N]
  BY FS_Subset, FS_CardinalityType DEF Table
<1>2. \A S \in X : O(S) \in SUBSET S
  BY DEF Over
<1>3. H \in [X -> [[X -> X] -> X]]
  <2>1. \A S \in X : \A g \in [X -> X] : Step(S, g) \in X
    BY <1>2
  <2> QED
    BY <2>1
<1>4. ASSUME NEW S \in X, NEW g \in [X -> X], NEW h \in [X -> X],
             \A U \in X : r[U] < r[S] => g[U] = h[U]
      PROVE  H[S][g] = H[S][h]
  <2>1. CASE O(S) = {}
    BY <2>1
  <2>2. CASE O(S) # {}
    <3>1. S \ O(S) \in SUBSET S /\ S \ O(S) # S /\ S \ O(S) \in X
      BY <1>2, <2>2
    <3>2. IsFiniteSet(S)
      BY <1>1, FS_Subset
    <3>3. /\ IsFiniteSet(S \ O(S))
          /\ Cardinality(S \ O(S)) <= Cardinality(S)
          /\ Cardinality(S \ O(S)) # Cardinality(S)
      <4> HIDE DEF O
      <4> QED
        BY <3>1, <3>2, FS_Subset
    <3>4. Cardinality(S \ O(S)) \in Nat /\ Cardinality(S) \in Nat
      BY <3>2, <3>3, FS_CardinalityType
    <3>5. r[S \ O(S)] < r[S]
      BY <3>1, <3>3, <3>4
    <3>6. g[S \ O(S)] = h[S \ O(S)]
      BY <1>4, <3>1, <3>5
    <3> QED
      BY <2>2, <3>6
  <2> QED
    BY <2>1, <2>2
<1>5. \E f \in [X -> X] : \A S \in X : f[S] = H[S][f]
  <2>1. Descends(X, X, N, r, H)
    <3>1. X # {}
      OBVIOUS
    <3> HIDE DEF X, N, r, H
    <3> QED
      BY <1>1, <1>3, <1>4, <3>1 DEF Descends
  <2> HIDE DEF X, N, r, H
  <2> QED
    BY <2>1, RankRecursion
<1>6. Is(rest)
  <2>1. PICK f \in [X -> X] : \A S \in X : f[S] = H[S][f]
    BY <1>5
  <2>2. \A S \in X : f[S] = Step(S, f)
    BY <2>1
  <2>3. f = [S \in X |-> Step(S, f)]
    BY <2>2
  <2>4. \E f1 : Is(f1)
    BY <2>3
  <2> QED
    BY <2>4
<1>7. Unfilled(weight, extra, room) = rest[A]
  BY DEF Unfilled, Over, Left
<1> HIDE DEF rest
<1>8. \A S \in X : rest[S] = Step(S, rest)
  BY <1>6
<1> DEFINE P == {S \in X : Sharing(weight, extra, room, S) =>
                   /\ Sharing(weight, extra, room, rest[S])
                   /\ O(rest[S]) = {}}
<1>9. ASSUME NEW S \in X, \A U \in SUBSET S : U # S => U \in P PROVE S \in P
  <2> SUFFICES ASSUME Sharing(weight, extra, room, S)
               PROVE  Sharing(weight, extra, room, rest[S]) /\ O(rest[S]) = {}
    OBVIOUS
  <2>1. CASE O(S) = {}
    <3>1. rest[S] = S
      BY <1>8, <2>1
    <3> QED
      BY <2>1, <3>1
  <2>2. CASE O(S) # {}
    <3>1. rest[S] = rest[S \ O(S)]
      BY <1>8, <2>2
    <3>2. S \ O(S) \in P
      BY <1>2, <1>9, <2>2
    <3>3. Sharing(weight, extra, room, S \ O(S))
      BY <2>2, SharingGoesOn
    <3> QED
      BY <3>1, <3>2, <3>3
  <2> QED
    BY <2>1, <2>2
<1>10. A \in P
  <2> HIDE DEF P
  <2>1. Hereditary(A, P)
    BY <1>9 DEF Hereditary
  <2> QED
    BY <1>1, <2>1, SubsetInduct
<1>11. Sharing(weight, extra, room, A)
  <2>1. A \ A = {} /\ Cardinality({}) = 0
    BY FS_EmptySet
  <2>2. Cardinality(A \ A) = 0
    BY <2>1, Zenon
  <2>3. Left(weight, extra, room, A) = extra
    BY <2>2 DEF Left
  <2> QED
    BY <2>3 DEF Sharing, Table
<1>12. O(A) = {} => rest[A] = A
  BY <1>8
<1> QED
  BY <1>7, <1>10, <1>11, <1>12
-----------------------------------------------------------------------------
(* Shares, and what the whole parts leave over.                            *)

\* A budget that can be shared out.
Feasible(weight, order, total, floor, cap) ==
  /\ Table(weight)
  /\ \A a \in DOMAIN weight : order[a] \in Nat
  /\ \A a, b \in DOMAIN weight : order[a] = order[b] => a = b
  /\ total \in Nat /\ floor \in Nat /\ cap \in Nat /\ floor <= cap
  /\ floor * Cardinality(DOMAIN weight) <= total
  /\ total <= cap * Cardinality(DOMAIN weight)

Extra(weight, total, floor) == total - floor * Cardinality(DOMAIN weight)
Rest(weight, total, floor, cap) ==
  Unfilled(weight, Extra(weight, total, floor), cap - floor)

\* The fraction of an angle below the cap, and its share.
Fraction(weight, total, floor, cap, a) ==
  LET S == Rest(weight, total, floor, cap)
  IN  Left(weight, Extra(weight, total, floor), cap - floor, S) * Part(weight, S, a)
Shares(weight, total, floor, cap) ==
  LET S == Rest(weight, total, floor, cap)
  IN  [a \in DOMAIN weight |->
        IF a \in S
          THEN [base |-> floor + (Fraction(weight, total, floor, cap, a) \div Whole(weight, S)),
                rem |-> Fraction(weight, total, floor, cap, a) % Whole(weight, S)]
          ELSE [base |-> cap, rem |-> 0]]

Bases(s) == [a \in DOMAIN s |-> s[a].base]
Spare(s, total) == total - Total(Bases(s), DOMAIN s)
WithRem(s) == {a \in DOMAIN s : s[a].rem > 0}
Open(s, cap) == {a \in DOMAIN s : s[a].base < cap}

\* Who is left below the cap, and what is left for them.
RestShares(weight, total, floor, cap) ==
  LET extra == Extra(weight, total, floor)
      room == cap - floor
      S == Rest(weight, total, floor, cap)
  IN  /\ extra \in Nat /\ room \in Nat
      /\ Sharing(weight, extra, room, S)
      /\ Over(weight, extra, room, S) = {}
      /\ Over(weight, extra, room, DOMAIN weight) = {} => S = DOMAIN weight
      /\ Left(weight, extra, room, S) =
           total - floor * Cardinality(S) - cap * Cardinality((DOMAIN weight) \ S)

LEMMA RestFacts ==
  ASSUME NEW weight, NEW order, NEW total, NEW floor, NEW cap,
         Feasible(weight, order, total, floor, cap)
  PROVE  RestShares(weight, total, floor, cap)
<1> DEFINE A == DOMAIN weight
           n == Cardinality(A)
           extra == Extra(weight, total, floor)
           room == cap - floor
           S == Rest(weight, total, floor, cap)
<1>1. n \in Nat
  BY FS_CardinalityType DEF Feasible, Table
<1>2. extra \in Nat /\ room \in Nat /\ extra = total - floor * n
  BY <1>1 DEF Feasible, Extra
<1>3. extra <= room * n
  <2>1. room * n = cap * n - floor * n
    BY <1>1 DEF Feasible
  <2> QED
    BY <1>1, <1>2, <2>1 DEF Feasible
<1>4. /\ Sharing(weight, extra, room, S)
      /\ Over(weight, extra, room, S) = {}
      /\ Over(weight, extra, room, A) = {} => S = A
  <2> HIDE DEF extra, room
  <2> QED
    BY <1>2, <1>3, UnfilledFacts DEF Feasible, Rest, extra, room
<1>5. n = Cardinality(S) + Cardinality(A \ S)
      /\ Cardinality(S) \in Nat /\ Cardinality(A \ S) \in Nat
  <2>1. S \in SUBSET A
    BY <1>4 DEF Sharing
  <2>2. IsFiniteSet(A) /\ IsFiniteSet(S) /\ IsFiniteSet(A \ S)
    BY <2>1, FS_Subset DEF Feasible, Table
  <2>3. A \cap S = S
    BY <2>1
  <2>4. Cardinality(A \ S) = n - Cardinality(A \cap S)
    BY <2>2, FS_Difference
  <2>5. Cardinality(A \cap S) = Cardinality(S)
    BY <2>3, Zenon
  <2>6. Cardinality(S) \in Nat /\ Cardinality(A \ S) \in Nat
    BY <2>2, FS_CardinalityType
  <2> QED
    BY <1>1, <2>4, <2>5, <2>6
<1>6. Left(weight, extra, room, S) =
        total - floor * Cardinality(S) - cap * Cardinality(A \ S)
  <2> DEFINE k == Cardinality(S)
             m == Cardinality(A \ S)
  <2>1. floor * (k + m) = floor * k + floor * m /\ room * m = cap * m - floor * m
    BY <1>5 DEF Feasible
  <2>2. Left(weight, extra, room, S) = extra - room * m
    BY DEF Left
  <2>3. extra = total - floor * (k + m)
    BY <1>2, <1>5
  <2>4. floor * k \in Nat /\ floor * m \in Nat /\ cap * m \in Nat /\ total \in Nat
    BY <1>5 DEF Feasible
  <2> HIDE DEF k, m, extra, room
  <2> QED
    BY <2>1, <2>2, <2>3, <2>4 DEF k, m
<1> QED
  BY <1>2, <1>4, <1>6 DEF RestShares

\* Shares are within the bounds, and what the whole parts leave over is at
\* most a unit for every angle whose share has a remainder.
SharesFit(weight, total, floor, cap, s) ==
  /\ s \in [DOMAIN weight -> [base: Nat, rem: Nat]]
  /\ \A a \in DOMAIN weight : s[a].base \in floor .. cap
  /\ Numbers(DOMAIN weight, Bases(s))
  /\ Spare(s, total) \in Nat
  /\ Spare(s, total) <= Cardinality(WithRem(s))
  /\ WithRem(s) \subseteq Open(s, cap)

LEMMA SharesFacts ==
  ASSUME NEW weight, NEW order, NEW total, NEW floor, NEW cap,
         Feasible(weight, order, total, floor, cap)
  PROVE  SharesFit(weight, total, floor, cap, Shares(weight, total, floor, cap))
<1> DEFINE A == DOMAIN weight
           extra == Extra(weight, total, floor)
           room == cap - floor
           S == Rest(weight, total, floor, cap)
           left == Left(weight, extra, room, S)
           whole == Whole(weight, S)
           p == [a \in S |-> Part(weight, S, a)]
           s == Shares(weight, total, floor, cap)
           q == [a \in S |-> (left * p[a]) \div whole]
           m == [a \in S |-> (left * p[a]) % whole]
<1>1. /\ extra \in Nat /\ room \in Nat
      /\ S \in SUBSET A /\ S # {} /\ left \in Nat
      /\ left = total - floor * Cardinality(S) - cap * Cardinality(A \ S)
      /\ \A a \in S : ~(left * p[a] > room * whole)
  <2>1. /\ extra \in Nat /\ room \in Nat
        /\ Sharing(weight, extra, room, S)
        /\ Over(weight, extra, room, S) = {}
        /\ left = total - floor * Cardinality(S) - cap * Cardinality(A \ S)
    <3>1. RestShares(weight, total, floor, cap)
      BY RestFacts
    <3> QED
      BY <3>1 DEF RestShares
  <2>2. \A a \in S : p[a] = Part(weight, S, a)
    OBVIOUS
  <2> HIDE DEF p, S, extra, room
  <2>3. S \in SUBSET A /\ S # {} /\ left \in Nat
    BY <2>1 DEF Sharing
  <2>4. \A a \in S : ~(left * p[a] > room * whole)
    BY <2>1, <2>2 DEF Over
  <2> QED
    BY <2>1, <2>3, <2>4
<1>2. /\ IsFiniteSet(S) /\ Cardinality(S) \in Nat /\ Cardinality(S) > 0
      /\ whole \in Nat /\ whole > 0
      /\ \A a \in S : p[a] \in Nat
      /\ Numbers(S, p) /\ Total(p, S) = whole
  BY <1>1, PartFacts DEF Feasible
<1>3. \A a \in A : s[a] = IF a \in S THEN [base |-> floor + q[a], rem |-> m[a]]
                                     ELSE [base |-> cap, rem |-> 0]
  BY DEF Shares, Fraction
<1>4. DOMAIN s = A /\ s = [a \in A |-> s[a]]
  BY DEF Shares
<1> HIDE DEF A, extra, room, S, left, whole, p, s
<1>5. ASSUME NEW a \in S
      PROVE  /\ q[a] \in Nat /\ m[a] \in Nat /\ m[a] < whole
             /\ left * p[a] = whole * q[a] + m[a]
             /\ q[a] <= room
             /\ m[a] > 0 => q[a] < room
  <2>1. left * p[a] \in Nat
    BY <1>1, <1>2
  <2>2. /\ q[a] \in Nat /\ m[a] \in Nat /\ m[a] < whole
        /\ left * p[a] = whole * q[a] + m[a]
    BY <1>2, <2>1, Division
  <2> HIDE DEF q, m
  <2>3. /\ left * p[a] <= room * whole
        /\ room * whole \in Nat /\ whole * q[a] \in Nat
        /\ whole * q[a] = q[a] * whole
    <3>1. room * whole \in Nat
      BY <1>1, <1>2
    <3>2. whole * q[a] \in Nat /\ whole * q[a] = q[a] * whole
      BY <1>2, <2>2
    <3>3. ~(left * p[a] > room * whole)
      BY <1>1
    <3> QED
      BY <2>1, <3>1, <3>2, <3>3
  <2>4. q[a] * whole <= room * whole
    BY <2>2, <2>3
  <2>5. q[a] <= room
    BY <1>1, <1>2, <2>2, <2>4, Times
  <2>6. m[a] > 0 => q[a] < room
    BY <1>1, <1>2, <2>2, <2>3, Times
  <2> QED
    BY <2>2, <2>5, <2>6
<1>6. /\ floor \in Nat /\ cap \in Nat /\ floor <= cap /\ total \in Nat /\ room = cap - floor
      /\ IsFiniteSet(A)
  BY DEF Feasible, Table, A, room
<1> HIDE DEF q, m
<1>7. \A a \in S : s[a].base = floor + q[a] /\ s[a].rem = m[a]
  <2> SUFFICES ASSUME NEW a \in S
               PROVE  s[a].base = floor + q[a] /\ s[a].rem = m[a]
    OBVIOUS
  <2>1. s[a] = [base |-> floor + q[a], rem |-> m[a]]
    BY <1>1, <1>3
  <2> QED
    BY <2>1
<1>8. \A a \in A \ S : s[a].base = cap /\ s[a].rem = 0
  <2> SUFFICES ASSUME NEW a \in A \ S PROVE s[a].base = cap /\ s[a].rem = 0
    OBVIOUS
  <2>1. s[a] = [base |-> cap, rem |-> 0]
    BY <1>3
  <2> QED
    BY <2>1
<1>9. \A a \in A : s[a] \in [base: Nat, rem: Nat] /\ s[a].base \in floor .. cap
  <2> SUFFICES ASSUME NEW a \in A
               PROVE  s[a] \in [base: Nat, rem: Nat] /\ s[a].base \in floor .. cap
    OBVIOUS
  <2>1. CASE a \in S
    <3>1. floor + q[a] \in floor .. cap /\ floor + q[a] \in Nat /\ m[a] \in Nat
      BY <1>5, <1>6, <2>1
    <3>2. s[a] = [base |-> floor + q[a], rem |-> m[a]]
      BY <1>3, <2>1
    <3> QED
      BY <3>1, <3>2
  <2>2. CASE a \notin S
    <3>1. s[a] = [base |-> cap, rem |-> 0]
      BY <1>3, <2>2
    <3> QED
      BY <1>6, <3>1
  <2> QED
    BY <2>1, <2>2
<1>10. s \in [A -> [base: Nat, rem: Nat]]
  BY <1>4, <1>9
<1>11. Numbers(A, Bases(s))
  BY <1>4, <1>6, <1>9 DEF Numbers, Bases
<1>12. WithRem(s) \subseteq Open(s, cap) /\ WithRem(s) \subseteq S
  <2> SUFFICES ASSUME NEW a \in WithRem(s) PROVE a \in Open(s, cap) /\ a \in S
    OBVIOUS
  <2>1. a \in A /\ s[a].rem > 0
    BY <1>4 DEF WithRem
  <2>2. a \in S
    BY <1>8, <2>1
  <2>3. q[a] < room /\ q[a] \in Nat
    BY <1>5, <1>7, <2>1, <2>2
  <2>4. s[a].base < cap
    BY <1>6, <1>7, <2>2, <2>3
  <2> QED
    BY <1>4, <2>1, <2>2, <2>4 DEF Open
<1>13. Numbers(S, q) /\ Numbers(S, m)
  BY <1>2, <1>5 DEF Numbers
<1>14. left * whole = whole * Total(q, S) + Total(m, S)
  <2> DEFINE lp == [a \in S |-> left * p[a]]
             wq == [a \in S |-> whole * q[a]]
  <2>1. \A a \in S : lp[a] = left * p[a] /\ wq[a] = whole * q[a] /\ lp[a] = wq[a] + m[a]
    BY <1>5
  <2> HIDE DEF lp, wq
  <2>2. Numbers(S, lp) /\ Total(lp, S) = left * whole
    BY <1>1, <1>2, <2>1, SumTimes
  <2>3. Numbers(S, wq) /\ Total(wq, S) = whole * Total(q, S)
    BY <1>2, <1>13, <2>1, SumTimes
  <2>4. Total(lp, S) = Total(wq, S) + Total(m, S)
    BY <1>13, <2>1, <2>3, SumPlus
  <2> QED
    BY <2>2, <2>3, <2>4
<1>15. Total(m, S) <= whole * Cardinality(WithRem(s))
  <2> DEFINE ind == [a \in S |-> IF a \in WithRem(s) THEN 1 ELSE 0]
             wi == [a \in S |-> whole * ind[a]]
  <2>1. \A a \in S : ind[a] = (IF a \in WithRem(s) THEN 1 ELSE 0) /\ wi[a] = whole * ind[a]
    OBVIOUS
  <2>2. \A a \in S : m[a] <= wi[a]
    <3> SUFFICES ASSUME NEW a \in S PROVE m[a] <= wi[a]
      OBVIOUS
    <3>1. m[a] \in Nat /\ m[a] < whole
      BY <1>5
    <3>2. CASE a \in WithRem(s)
      <4>1. wi[a] = whole
        BY <1>2, <2>1, <3>2
      <4> QED
        BY <1>2, <3>1, <4>1
    <3>3. CASE a \notin WithRem(s)
      <4>1. ~(m[a] > 0)
        BY <1>1, <1>4, <1>7, <3>3 DEF WithRem
      <4>2. wi[a] = 0
        BY <1>2, <2>1, <3>3
      <4> QED
        BY <3>1, <4>1, <4>2
    <3> QED
      BY <3>2, <3>3
  <2> HIDE DEF ind, wi
  <2>3. Numbers(S, ind) /\ Total(ind, S) = Cardinality(WithRem(s))
    BY <1>2, <1>12, <2>1, SumCounts
  <2>4. Numbers(S, wi) /\ Total(wi, S) = whole * Cardinality(WithRem(s))
    <3>1. Numbers(S, ind) /\ whole \in Nat /\ \A a \in S : wi[a] = whole * ind[a]
      BY <1>2, <2>1, <2>3
    <3>2. Numbers(S, wi) /\ Total(wi, S) = whole * Total(ind, S)
      BY <3>1, SumTimes
    <3> QED
      BY <2>3, <3>2
  <2> QED
    BY <1>13, <2>2, <2>4, SumAtMost
<1>16. Total(Bases(s), A) = floor * Cardinality(S) + Total(q, S) + cap * Cardinality(A \ S)
  <2> DEFINE B == Bases(s)
             fl == [a \in S |-> floor]
  <2>1. \A a \in A : B[a] = s[a].base
    BY <1>4 DEF Bases
  <2>2. \A a \in S : fl[a] = floor
    OBVIOUS
  <2> HIDE DEF B, fl
  <2>3. /\ Numbers(S, B) /\ Numbers(A \ S, B)
        /\ Total(B, A) = Total(B, S) + Total(B, A \ S)
    BY <1>1, <1>11, SumSplits DEF B
  <2>4. Numbers(S, fl) /\ Total(fl, S) = floor * Cardinality(S)
    BY <1>2, <1>6, <2>2, SumConstant
  <2>5. \A a \in S : B[a] = fl[a] + q[a]
    BY <1>1, <1>7, <2>1, <2>2
  <2>6. Total(B, S) = floor * Cardinality(S) + Total(q, S)
    BY <1>13, <2>4, <2>5, SumPlus
  <2>7. \A a \in A \ S : B[a] = cap
    BY <1>8, <2>1
  <2>8. Total(B, A \ S) = cap * Cardinality(A \ S)
    BY <1>6, <2>7, SumConstant, FS_Subset
  <2> QED
    BY <2>3, <2>6, <2>8 DEF B
<1>17. Spare(s, total) = left - Total(q, S)
  <2>1. /\ Cardinality(S) \in Nat /\ Cardinality(A \ S) \in Nat /\ Total(q, S) \in Nat
        /\ floor * Cardinality(S) \in Nat /\ cap * Cardinality(A \ S) \in Nat
    <3>1. Cardinality(A \ S) \in Nat
      BY <1>6, FS_Subset, FS_CardinalityType
    <3> QED
      BY <1>2, <1>6, <1>13, <3>1, SumFacts
  <2> QED
    BY <1>1, <1>4, <1>6, <1>16, <2>1 DEF Spare
<1>18. Spare(s, total) \in Nat /\ Spare(s, total) <= Cardinality(WithRem(s))
  <2> DEFINE t == Total(q, S)
             k == Cardinality(WithRem(s))
             u == Total(m, S)
  <2>1. t \in Nat /\ u \in Nat /\ k \in Nat
    <3>1. IsFiniteSet(WithRem(s))
      BY <1>2, <1>12, FS_Subset
    <3> QED
      BY <1>13, <3>1, SumFacts, FS_CardinalityType
  <2> HIDE DEF t, k, u
  <2>2. left * whole = whole * t + u /\ u <= whole * k
    BY <1>14, <1>15 DEF t, k, u
  <2>3. t * whole <= left * whole /\ left * whole <= (t + k) * whole
    BY <1>1, <1>2, <2>1, <2>2
  <2>4. t <= left /\ left <= t + k
    BY <1>1, <1>2, <2>1, <2>3, Times
  <2> QED
    BY <1>1, <1>17, <2>1, <2>4 DEF t, k
<1> QED
  BY <1>9, <1>10, <1>11, <1>12, <1>18 DEF A, s, SharesFit
-----------------------------------------------------------------------------
(* Rounding: who gets a unit of what is left over.                         *)

Before(s, weight, order, a, b) ==
  \/ s[a].rem > s[b].rem
  \/ s[a].rem = s[b].rem /\ weight[a] > weight[b]
  \/ s[a].rem = s[b].rem /\ weight[a] = weight[b] /\ order[a] < order[b]

BeforeRel(s, weight, order, cap) ==
  {e \in Open(s, cap) \X Open(s, cap) : Before(s, weight, order, e[1], e[2])}

RoundedUp(s, weight, order, total, cap) ==
  {a \in Open(s, cap) :
     Rank(BeforeRel(s, weight, order, cap), Open(s, cap), a) < Spare(s, total)}

Rounded(s, weight, order, total, cap) ==
  [a \in DOMAIN s |->
     s[a].base + IF a \in RoundedUp(s, weight, order, total, cap) THEN 1 ELSE 0]

LEMMA BelowIsBefore ==
  ASSUME NEW s, NEW weight, NEW order, NEW cap, NEW a \in Open(s, cap)
  PROVE  Below(BeforeRel(s, weight, order, cap), Open(s, cap), a)
           = {b \in Open(s, cap) : Before(s, weight, order, b, a)}
<1>1. \A b \in Open(s, cap) :
        <<b, a>> \in BeforeRel(s, weight, order, cap) <=> Before(s, weight, order, b, a)
  BY DEF BeforeRel
<1> QED
  BY <1>1 DEF Below

\* The formula is the rounding of the shares.
LEMMA AllocateIsRounded ==
  ASSUME NEW weight, NEW order, NEW total, NEW floor, NEW cap,
         Feasible(weight, order, total, floor, cap)
  PROVE  Allocate(weight, order, total, floor, cap) =
           Rounded(Shares(weight, total, floor, cap), weight, order, total, cap)
<1> DEFINE A == DOMAIN weight
           T == [A -> [base: Nat, rem: Nat]]
           s == Shares(weight, total, floor, cap)
           S == Rest(weight, total, floor, cap)
           shared(rest) ==
             LET left == total - floor * Cardinality(rest) - cap * Cardinality(A \ rest)
                 whole == Whole(weight, rest)
                 part(a) == left * Part(weight, rest, a)
             IN  [a \in A |->
                   IF a \in rest
                     THEN [base |-> floor + (part(a) \div whole), rem |-> part(a) % whole]
                     ELSE [base |-> cap, rem |-> 0]]
           rounded(t) ==
             LET over == total - Total([a \in A |-> t[a].base], A)
                 open == {a \in A : t[a].base < cap}
             IN  [a \in A |-> t[a].base +
                   IF a \in open /\ Cardinality({b \in open : Before(t, weight, order, b, a)}) < over
                     THEN 1 ELSE 0]
<1>1. S \in SUBSET A /\ s \in T
  <2>1. RestShares(weight, total, floor, cap)
    BY RestFacts
  <2>2. SharesFit(weight, total, floor, cap, s)
    BY SharesFacts
  <2> QED
    BY <2>1, <2>2 DEF RestShares, Sharing, SharesFit
<1>2. Allocate(weight, order, total, floor, cap)
        = [t \in T |-> rounded(t)][[rest \in SUBSET A |-> shared(rest)][S]]
  BY DEF Allocate, Rest, Extra, Before
<1>3. shared(S) = s
  <2>1. RestShares(weight, total, floor, cap)
    BY RestFacts
  <2>2. Left(weight, Extra(weight, total, floor), cap - floor, S) =
           total - floor * Cardinality(S) - cap * Cardinality(A \ S)
    BY <2>1 DEF RestShares
  <2> QED
    BY <2>2 DEF Shares, Fraction
<1>4. rounded(s) = Rounded(s, weight, order, total, cap)
  <2> HIDE DEF s
  <2>1. DOMAIN s = A
    BY <1>1
  <2>2. Total([a \in A |-> s[a].base], A) = Total(Bases(s), A)
    BY <2>1 DEF Bases
  <2>3. \A a \in Open(s, cap) :
          Rank(BeforeRel(s, weight, order, cap), Open(s, cap), a)
            = Cardinality({b \in Open(s, cap) : Before(s, weight, order, b, a)})
    BY BelowIsBefore DEF Rank
  <2> QED
    BY <2>1, <2>2, <2>3 DEF Rounded, RoundedUp, Spare, Open
<1>5. Allocate(weight, order, total, floor, cap) = rounded(shared(S))
  <2> HIDE DEF rounded, T, S, A
  <2>1. [rest \in SUBSET A |-> shared(rest)][S] = shared(S)
    BY <1>1
  <2> HIDE DEF shared
  <2>2. shared(S) \in T
    BY <1>1, <1>3
  <2> QED
    BY <1>1, <1>2, <2>1, <2>2
<1> HIDE DEF rounded, shared
<1> QED
  BY <1>3, <1>4, <1>5
\* The units left over go to angles with a remainder, as many as there are,
\* and to nobody before an angle that comes first.
GrantsFit(s, weight, order, total, cap) ==
  LET G == RoundedUp(s, weight, order, total, cap)
  IN  /\ G \subseteq WithRem(s)
      /\ Cardinality(G) = Spare(s, total)
      /\ \A a \in G : \A b \in Open(s, cap) :
           Before(s, weight, order, b, a) => b \in G

LEMMA BeforeOrders ==
  ASSUME NEW weight, NEW order, NEW total, NEW floor, NEW cap, NEW s,
         Feasible(weight, order, total, floor, cap),
         SharesFit(weight, total, floor, cap, s)
  PROVE  /\ Orders(BeforeRel(s, weight, order, cap), Open(s, cap))
         /\ IsFiniteSet(Open(s, cap)) /\ Open(s, cap) \subseteq DOMAIN weight
<1> DEFINE R == BeforeRel(s, weight, order, cap)
           A == Open(s, cap)
<1>1. IsFiniteSet(A) /\ A \subseteq DOMAIN weight
  BY FS_Subset DEF Feasible, Table, SharesFit, Open
<1>2. \A a \in A : /\ s[a].rem \in Nat /\ weight[a] \in Nat /\ order[a] \in Nat
                   /\ \A b \in A : order[a] = order[b] => a = b
  BY <1>1 DEF Feasible, Table, SharesFit
<1>3. \A a, b \in A : <<a, b>> \in R <=> Before(s, weight, order, a, b)
  BY DEF BeforeRel
<1> HIDE DEF R, A
<1>4. \A a \in A : <<a, a>> \notin R
  BY <1>2, <1>3 DEF Before
<1>5. ASSUME NEW a \in A, NEW b \in A, NEW c \in A, <<a, b>> \in R, <<b, c>> \in R
      PROVE  <<a, c>> \in R
  <2>1. Before(s, weight, order, a, b) /\ Before(s, weight, order, b, c)
    BY <1>3, <1>5
  <2>2. Before(s, weight, order, a, c)
    BY <1>2, <2>1 DEF Before
  <2> QED
    BY <1>3, <2>2
<1>6. ASSUME NEW a \in A, NEW b \in A
      PROVE  a = b \/ <<a, b>> \in R \/ <<b, a>> \in R
  <2>1. a = b \/ Before(s, weight, order, a, b) \/ Before(s, weight, order, b, a)
    BY <1>2 DEF Before
  <2> QED
    BY <1>3, <2>1
<1> QED
  BY <1>1, <1>4, <1>5, <1>6 DEF Orders, R, A

LEMMA GrantFacts ==
  ASSUME NEW weight, NEW order, NEW total, NEW floor, NEW cap, NEW s,
         Feasible(weight, order, total, floor, cap),
         SharesFit(weight, total, floor, cap, s)
  PROVE  GrantsFit(s, weight, order, total, cap)
<1> DEFINE R == BeforeRel(s, weight, order, cap)
           A == Open(s, cap)
           W == WithRem(s)
           k == Spare(s, total)
           G == RoundedUp(s, weight, order, total, cap)
<1>1. Orders(R, A) /\ IsFiniteSet(A) /\ A \subseteq DOMAIN weight
  BY BeforeOrders
<1>2. k \in Nat /\ k <= Cardinality(W) /\ W \subseteq A
  BY DEF SharesFit
<1>3. G = {a \in A : Rank(R, A, a) < k}
  BY DEF RoundedUp
<1>4. \A a, b \in A : <<a, b>> \in R <=> Before(s, weight, order, a, b)
  BY DEF BeforeRel
<1>5. \A a \in A : s[a].rem \in Nat /\ (a \in W <=> s[a].rem > 0)
  BY <1>1 DEF SharesFit, WithRem
<1> HIDE DEF R, A, W, k, G
<1>6. /\ IsFiniteSet(W) /\ Cardinality(W) \in Nat /\ Cardinality(A) \in Nat
      /\ Cardinality(W) <= Cardinality(A)
  BY <1>1, <1>2, FS_Subset, FS_CardinalityType
<1>7. Cardinality(G) = k
  <2>1. k \in 0 .. Cardinality(A)
    BY <1>2, <1>6
  <2>2. Cardinality({a \in A : Rank(R, A, a) < k}) = k
    BY <1>1, <2>1, RankCount
  <2> QED
    BY <1>3, <2>2, Zenon
<1>8. ASSUME NEW a \in G PROVE a \in W
  <2> SUFFICES ASSUME a \notin W PROVE FALSE
    OBVIOUS
  <2>1. a \in A /\ Rank(R, A, a) < k
    BY <1>3
  <2>2. s[a].rem = 0
    BY <1>5, <2>1
  <2>3. W \subseteq Below(R, A, a)
    BY <1>2, <1>4, <1>5, <2>1, <2>2 DEF Below, Before
  <2>4. IsFiniteSet(Below(R, A, a))
    BY <1>1, FS_Subset DEF Below
  <2>5. Cardinality(W) <= Rank(R, A, a) /\ Rank(R, A, a) \in Nat
    BY <2>3, <2>4, FS_Subset, FS_CardinalityType DEF Rank
  <2> QED
    BY <1>2, <1>6, <2>1, <2>5
<1>9. ASSUME NEW a \in G, NEW b \in A, Before(s, weight, order, b, a) PROVE b \in G
  <2>1. a \in A /\ Rank(R, A, a) < k
    BY <1>3
  <2>2. <<b, a>> \in R
    BY <1>4, <1>9, <2>1
  <2>3. Rank(R, A, b) < Rank(R, A, a)
    BY <1>1, <2>1, <2>2, RankFacts
  <2>4. Rank(R, A, a) \in Int /\ Rank(R, A, b) \in Int
    BY <1>1, <2>1, RankFacts
  <2> QED
    BY <1>2, <1>3, <2>1, <2>3, <2>4
<1> QED
  BY <1>7, <1>8, <1>9 DEF GrantsFit, G, W, k, A

\* Rounding loses no unit and stays within the bounds.
LEMMA RoundedFacts ==
  ASSUME NEW weight, NEW order, NEW total, NEW floor, NEW cap, NEW s,
         Feasible(weight, order, total, floor, cap),
         SharesFit(weight, total, floor, cap, s)
  PROVE  /\ DOMAIN Rounded(s, weight, order, total, cap) = DOMAIN weight
         /\ Total(Rounded(s, weight, order, total, cap), DOMAIN weight) = total
         /\ \A a \in DOMAIN weight :
              Rounded(s, weight, order, total, cap)[a] \in floor .. cap
<1> DEFINE A == DOMAIN weight
           G == RoundedUp(s, weight, order, total, cap)
           u == Rounded(s, weight, order, total, cap)
           B == Bases(s)
           one == [a \in A |-> IF a \in G THEN 1 ELSE 0]
<1>1. /\ DOMAIN s = A /\ Numbers(A, B) /\ IsFiniteSet(A)
      /\ \A a \in A : s[a].base \in floor .. cap
      /\ total \in Nat /\ floor \in Nat /\ cap \in Nat
      /\ Spare(s, total) \in Nat
  BY DEF SharesFit, Feasible, Table
<1>2. GrantsFit(s, weight, order, total, cap)
  BY GrantFacts
<1>3. G \in SUBSET A /\ Cardinality(G) = Spare(s, total)
      /\ \A a \in G : s[a].base < cap
  BY <1>1, <1>2 DEF GrantsFit, SharesFit, WithRem, Open
<1>4. /\ \A a \in A : one[a] = IF a \in G THEN 1 ELSE 0
      /\ \A a \in A : B[a] = s[a].base
      /\ \A a \in A : u[a] = B[a] + one[a]
      /\ DOMAIN u = A
  BY <1>1 DEF Rounded, Bases
<1>5. Spare(s, total) = total - Total(B, A)
  BY <1>1 DEF Spare
<1> HIDE DEF G, u, B, one, A
<1>6. Numbers(A, one) /\ Total(one, A) = Cardinality(G)
  BY <1>1, <1>3, <1>4, SumCounts
<1>7. Total(u, A) = Total(B, A) + Total(one, A)
  <2>1. Numbers(A, B) /\ Numbers(A, one) /\ \A a \in A : u[a] = B[a] + one[a]
    BY <1>1, <1>4, <1>6
  <2> QED
    BY <2>1, SumPlus
<1>8. Total(B, A) \in Nat
  BY <1>1, SumFacts
<1>9. Total(u, A) = total
  BY <1>1, <1>3, <1>5, <1>6, <1>7, <1>8
<1>10. \A a \in A : u[a] \in floor .. cap
  BY <1>1, <1>3, <1>4
<1> QED
  BY <1>4, <1>9, <1>10 DEF u, A

\* A share is its fraction, divided.
ShareIs(weight, total, floor, cap, s, a) ==
  LET S == Rest(weight, total, floor, cap)
  IN  IF a \in S
        THEN /\ s[a].base - floor \in Nat /\ s[a].rem \in Nat
             /\ s[a].rem < Whole(weight, S)
             /\ Fraction(weight, total, floor, cap, a)
                  = Whole(weight, S) * (s[a].base - floor) + s[a].rem
        ELSE s[a].base = cap

LEMMA ShareFacts ==
  ASSUME NEW weight, NEW order, NEW total, NEW floor, NEW cap,
         Feasible(weight, order, total, floor, cap), NEW a \in DOMAIN weight
  PROVE  ShareIs(weight, total, floor, cap, Shares(weight, total, floor, cap), a)
<1> DEFINE S == Rest(weight, total, floor, cap)
           left == Left(weight, Extra(weight, total, floor), cap - floor, S)
           whole == Whole(weight, S)
           f == Fraction(weight, total, floor, cap, a)
           s == Shares(weight, total, floor, cap)
<1>1. S \in SUBSET DOMAIN weight /\ S # {} /\ left \in Nat
  <2>1. RestShares(weight, total, floor, cap)
    BY RestFacts
  <2> QED
    BY <2>1 DEF RestShares, Sharing
<1>2. CASE a \in S
  <2>1. /\ whole \in Nat /\ whole > 0 /\ Part(weight, S, a) \in Nat
    BY <1>1, <1>2, PartFacts DEF Feasible
  <2>2. f = left * Part(weight, S, a)
    BY DEF Fraction
  <2>3. s[a] = [base |-> floor + (f \div whole), rem |-> f % whole]
    BY <1>2 DEF Shares
  <2>4. f \in Nat
    BY <1>1, <2>1, <2>2
  <2> HIDE DEF f, whole, S, s
  <2>5. /\ f \div whole \in Nat /\ f % whole \in Nat /\ f % whole < whole
        /\ f = whole * (f \div whole) + (f % whole)
    BY <2>1, <2>4, Division
  <2>6. s[a].base = floor + (f \div whole) /\ s[a].rem = f % whole
    BY <2>3
  <2>7. floor \in Nat
    BY DEF Feasible
  <2>8. s[a].base - floor = f \div whole
    BY <2>5, <2>6, <2>7
  <2> QED
    BY <1>2, <2>5, <2>6, <2>8 DEF ShareIs, f, whole, S, s
<1>3. CASE a \notin S
  <2>1. s[a] = [base |-> cap, rem |-> 0]
    BY <1>3 DEF Shares
  <2> QED
    BY <1>3, <2>1 DEF ShareIs
<1> QED
  BY <1>2, <1>3

\* No heavier angle gets fewer units than a lighter one.
LEMMA HeavierFirst ==
  ASSUME NEW weight, NEW order, NEW total, NEW floor, NEW cap,
         Feasible(weight, order, total, floor, cap),
         NEW a \in DOMAIN weight, NEW b \in DOMAIN weight, weight[a] > weight[b],
         NEW u, u = Rounded(Shares(weight, total, floor, cap), weight, order, total, cap)
  PROVE  u[a] >= u[b]
<1> DEFINE A == DOMAIN weight
           s == Shares(weight, total, floor, cap)
           S == Rest(weight, total, floor, cap)
           left == Left(weight, Extra(weight, total, floor), cap - floor, S)
           whole == Whole(weight, S)
           G == RoundedUp(s, weight, order, total, cap)
           f(c) == Fraction(weight, total, floor, cap, c)
           q(c) == s[c].base - floor
           g(c) == IF c \in G THEN 1 ELSE 0
<1>1. RestShares(weight, total, floor, cap) /\ SharesFit(weight, total, floor, cap, s)
  BY RestFacts, SharesFacts
<1>2. GrantsFit(s, weight, order, total, cap)
  BY <1>1, GrantFacts
<1>3. \A c \in A : u[c] \in floor .. cap /\ u[c] = s[c].base + g(c)
  <2>1. \A c \in A : u[c] \in floor .. cap
    BY <1>1, RoundedFacts
  <2>2. DOMAIN s = A
    BY <1>1 DEF SharesFit
  <2> QED
    BY <2>1, <2>2 DEF Rounded
<1>4. \A c \in A : ShareIs(weight, total, floor, cap, s, c)
  BY ShareFacts
<1>5. /\ S \in SUBSET A /\ S # {} /\ left \in Nat
      /\ \A c \in S : \A d \in A \ S : weight[c] <= weight[d]
  BY <1>1 DEF RestShares, Sharing
<1>6. \A c \in A : weight[c] \in Nat /\ s[c].base \in floor .. cap /\ s[c].rem \in Nat
  BY <1>1 DEF SharesFit, Feasible, Table
<1>7. floor \in Nat /\ cap \in Nat
  BY DEF Feasible
<1> HIDE DEF S, s, G, A
<1>8. CASE a \notin S
  <2>1. s[a].base = cap
    BY <1>4, <1>8 DEF ShareIs, S, A
  <2> QED
    BY <1>3, <1>7, <2>1 DEF A
<1>9. CASE a \in S /\ b \notin S
  BY <1>5, <1>6, <1>9 DEF A
<1>10. CASE a \in S /\ b \in S
  <2>1. whole \in Nat /\ whole > 0 /\ Part(weight, S, a) \in Nat /\ Part(weight, S, b) \in Nat
    BY <1>5, <1>10, PartFacts DEF Feasible, A
  <2>2. Part(weight, S, b) <= Part(weight, S, a)
    BY <1>6 DEF Part, A
  <2>3. f(a) = left * Part(weight, S, a) /\ f(b) = left * Part(weight, S, b)
    BY DEF Fraction, S
  <2> HIDE DEF whole, left
  <2>4. f(a) \in Nat /\ f(b) \in Nat /\ f(b) <= f(a)
    BY <1>5, <2>1, <2>2, <2>3, Times
  <2>5. /\ q(a) \in Nat /\ s[a].rem \in Nat /\ s[a].rem < whole
        /\ f(a) = whole * q(a) + s[a].rem
        /\ q(b) \in Nat /\ s[b].rem \in Nat /\ s[b].rem < whole
        /\ f(b) = whole * q(b) + s[b].rem
    <3>1. ShareIs(weight, total, floor, cap, s, a) /\ ShareIs(weight, total, floor, cap, s, b)
      BY <1>4 DEF A
    <3> QED
      BY <1>10, <3>1 DEF ShareIs, S, whole
  <2>6. q(b) <= q(a)
    <3> DEFINE x == q(a)
               y == q(b)
    <3>1. x \in Nat /\ y \in Nat /\ x + 1 \in Nat
      BY <2>5
    <3>2. whole * y < whole * x + whole
      <4>1. whole * y \in Nat /\ whole * x \in Nat
        BY <2>1, <3>1
      <4>2. whole * y + s[b].rem <= whole * x + s[a].rem
        BY <2>4, <2>5
      <4> HIDE DEF x, y
      <4> QED
        BY <2>1, <2>5, <4>1, <4>2
    <3>3. whole * y = y * whole /\ whole * x + whole = (x + 1) * whole
      BY <2>1, <3>1
    <3> HIDE DEF x, y
    <3>4. y < x + 1
      BY <2>1, <3>1, <3>2, <3>3, Times
    <3>5. y <= x
      BY <3>1, <3>4
    <3> QED
      BY <3>5 DEF x, y
  <2>7. CASE q(b) < q(a)
    <3>1. s[b].base + 1 <= s[a].base
      BY <1>6, <1>7, <2>7 DEF A
    <3> QED
      BY <1>3, <1>6, <1>7, <3>1 DEF A
  <2>8. CASE q(b) = q(a)
    <3>1. s[a].base = s[b].base
      BY <1>6, <1>7, <2>8 DEF A
    <3>2. s[b].rem <= s[a].rem
      <4>1. whole * q(b) = whole * q(a) /\ whole * q(a) \in Nat
        BY <2>1, <2>5, <2>8
      <4> QED
        BY <2>4, <2>5, <4>1
    <3>3. Before(s, weight, order, a, b)
      BY <2>5, <3>2 DEF Before
    <3>4. b \in G => a \in G
      <4> SUFFICES ASSUME b \in G PROVE a \in G
        OBVIOUS
      <4>1. b \in Open(s, cap)
        BY DEF G, RoundedUp
      <4>2. a \in Open(s, cap)
        <5>1. DOMAIN s = A
          BY <1>1 DEF SharesFit, A, s
        <5> QED
          BY <3>1, <4>1, <5>1 DEF Open, A
      <4> QED
        BY <1>2, <3>3, <4>2 DEF GrantsFit, G
    <3> QED
      BY <1>3, <1>6, <1>7, <3>1, <3>4 DEF A
  <2> QED
    BY <2>5, <2>6, <2>7, <2>8
<1> QED
  BY <1>8, <1>9, <1>10

\* While no cap binds, units are within one of the exact share.
LEMMA NearExact ==
  ASSUME NEW weight, NEW order, NEW total, NEW floor, NEW cap,
         Feasible(weight, order, total, floor, cap),
         Total(weight, DOMAIN weight) > 0,
         \A a \in DOMAIN weight :
           Extra(weight, total, floor) * weight[a]
             <= (cap - floor) * Total(weight, DOMAIN weight),
         NEW a \in DOMAIN weight,
         NEW u, u = Rounded(Shares(weight, total, floor, cap), weight, order, total, cap)
  PROVE  LET sum == Total(weight, DOMAIN weight)
             exact == Extra(weight, total, floor) * weight[a]
         IN  /\ (u[a] - floor) * sum < exact + sum
             /\ (u[a] - floor) * sum > exact - sum
<1> DEFINE A == DOMAIN weight
           s == Shares(weight, total, floor, cap)
           S == Rest(weight, total, floor, cap)
           extra == Extra(weight, total, floor)
           room == cap - floor
           sum == Total(weight, A)
           G == RoundedUp(s, weight, order, total, cap)
           q == s[a].base - floor
           m == s[a].rem
           g == IF a \in G THEN 1 ELSE 0
<1>1. RestShares(weight, total, floor, cap) /\ SharesFit(weight, total, floor, cap, s)
  BY RestFacts, SharesFacts
<1>2. GrantsFit(s, weight, order, total, cap)
  BY <1>1, GrantFacts
<1>3. A \in SUBSET A /\ A # {} /\ IsFiniteSet(A) /\ (\A c \in A : weight[c] \in Nat) /\ Table(weight)
  BY DEF Feasible, Table
<1>4. sum \in Nat
  <2>1. Numbers(A, weight)
    BY <1>3 DEF Numbers
  <2> QED
    BY <2>1, SumFacts
<1>5. Whole(weight, A) = sum /\ \A c \in A : Part(weight, A, c) = weight[c]
  BY <1>4 DEF Whole, Part
<1>6. extra \in Nat /\ room \in Nat
  BY <1>1 DEF RestShares
<1>7. Left(weight, extra, room, A) = extra
  <2>1. A \ A = {} /\ Cardinality({}) = 0
    BY FS_EmptySet
  <2>2. Cardinality(A \ A) = 0
    BY <2>1, Zenon
  <2> HIDE DEF extra, room
  <2> QED
    BY <1>6, <2>2 DEF Left
<1>8. S = A
  <2>1. Over(weight, extra, room, A) = {} => S = A
    BY <1>1 DEF RestShares
  <2>2. \A c \in A : ~(extra * weight[c] > room * sum)
    <3> SUFFICES ASSUME NEW c \in A PROVE ~(extra * weight[c] > room * sum)
      OBVIOUS
    <3>1. extra * weight[c] <= room * sum
      OBVIOUS
    <3>2. extra * weight[c] \in Nat /\ room * sum \in Nat
      BY <1>3, <1>4, <1>6
    <3> QED
      BY <3>1, <3>2
  <2>3. Over(weight, extra, room, A) = {}
    <3> HIDE DEF extra, room, sum
    <3> QED
      BY <1>5, <1>7, <2>2 DEF Over
  <2> QED
    BY <2>1, <2>3
<1>9. ShareIs(weight, total, floor, cap, s, a)
  BY ShareFacts
<1>10. Fraction(weight, total, floor, cap, a) = extra * weight[a]
  <2>1. Fraction(weight, total, floor, cap, a)
          = Left(weight, extra, room, S) * Part(weight, S, a)
    BY DEF Fraction
  <2> HIDE DEF S, extra, room
  <2> QED
    BY <1>5, <1>7, <1>8, <2>1
<1>11. /\ q \in Nat /\ m \in Nat /\ m < sum /\ extra * weight[a] = sum * q + m
  <2> HIDE DEF s, extra, sum
  <2> QED
    BY <1>5, <1>8, <1>9, <1>10 DEF ShareIs
<1>12. a \in G => m > 0
  BY <1>2 DEF GrantsFit, WithRem
<1>13. u[a] - floor = q + g
  <2>1. u[a] = s[a].base + g
    BY <1>1 DEF SharesFit, Rounded
  <2>2. s[a].base \in Int /\ floor \in Int /\ g \in Int
    BY <1>1 DEF SharesFit, Feasible
  <2> HIDE DEF s, g
  <2> QED
    BY <2>1, <2>2
<1>14. (q + g) * sum = sum * q + (IF a \in G THEN sum ELSE 0) /\ sum * q \in Nat
  BY <1>4, <1>11
<1>15. /\ (u[a] - floor) * sum < extra * weight[a] + sum
       /\ (u[a] - floor) * sum > extra * weight[a] - sum
  <2> DEFINE x == sum * q
             y == extra * weight[a]
             z == (u[a] - floor) * sum
  <2>1. x \in Nat /\ y = x + m /\ z = x + (IF a \in G THEN sum ELSE 0)
    BY <1>11, <1>13, <1>14
  <2> HIDE DEF x, y, z, m, sum, G
  <2>2. z < y + sum /\ z > y - sum
    BY <1>4, <1>11, <1>12, <2>1
  <2> QED
    BY <2>2 DEF y, z
<1> QED
  BY <1>15

\* The budget formula keeps its promises: for every map, weights, floor and
\* cap that can hold the budget, the table spends it to the unit, keeps every
\* angle between floor and cap and none behind a lighter one, and stays within
\* a unit of the exact shares while no cap binds.
THEOREM AllocateIsWell ==
  ASSUME NEW weight, NEW order, NEW total, NEW floor, NEW cap,
         Feasible(weight, order, total, floor, cap)
  PROVE  WellAllocated(weight, Allocate(weight, order, total, floor, cap),
                       total, floor, cap)
<1> DEFINE s == Shares(weight, total, floor, cap)
           u == Rounded(s, weight, order, total, cap)
           A == DOMAIN weight
<1>1. Allocate(weight, order, total, floor, cap) = u
  BY AllocateIsRounded
<1>2. /\ DOMAIN u = A /\ Total(u, A) = total
      /\ \A a \in A : u[a] \in floor .. cap
  BY SharesFacts, RoundedFacts
<1>3. \A a, b \in A : weight[a] > weight[b] => u[a] >= u[b]
  BY HeavierFirst
<1>4. (/\ Total(weight, A) > 0
       /\ \A a \in A : (total - floor * Cardinality(A)) * weight[a]
                         <= (cap - floor) * Total(weight, A)) =>
        \A a \in A :
          /\ (u[a] - floor) * Total(weight, A)
               < (total - floor * Cardinality(A)) * weight[a] + Total(weight, A)
          /\ (u[a] - floor) * Total(weight, A)
               > (total - floor * Cardinality(A)) * weight[a] - Total(weight, A)
  BY NearExact DEF Extra
<1> HIDE DEF u
<1> QED
  BY <1>1, <1>2, <1>3, <1>4 DEF WellAllocated
=============================================================================
