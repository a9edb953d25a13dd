-------------------------- MODULE ScreeningProofs ---------------------------
(***************************************************************************)
(* What S5 keeps for any cards, verdicts and replies: the shortlist rule   *)
(* on every screening result, and every card scored once, whatever was     *)
(* interrupted, renamed or rerun, on the rubric of when it was scored.     *)
(***************************************************************************)
EXTENDS Screening, Induction, SequenceTheorems

-----------------------------------------------------------------------------
(* Options, in the order the rule walks them.                              *)

\* What config.yaml is assumed to give.
LEMMA ConfigFacts ==
  /\ IsFiniteSet(DOMAIN Prior) /\ DOMAIN Prior \subseteq Nat
  /\ Prior \in [DOMAIN Prior -> Nat]
  /\ Threshold \in Nat /\ Margin \in Nat
  /\ TopK \in Nat \ {0} /\ MaxPerAngle \in Nat \ {0} /\ MaxFinalists \in Nat \ {0}
BY ShortlistAssumption DEF ShortlistAssumption

AboveIn(S) == {e \in S \X S : Above(e[1], e[2])}

\* A part of a screening result is one.
LEMMA ScreenedPart ==
  ASSUME NEW options, Screened(options), NEW S \in SUBSET options
  PROVE  Screened(S)
<1>1. IsFiniteSet(S)
  BY FS_Subset DEF Screened
<1> QED
  BY <1>1 DEF Screened

\* Above is a strict total order, and a rank counts the options before.
LEMMA AboveOrders ==
  ASSUME NEW S, Screened(S)
  PROVE  /\ \A o \in S : ~Above(o, o)
         /\ \A o, p, q \in S : Above(o, p) /\ Above(p, q) => Above(o, q)
         /\ \A o, p \in S : o = p \/ Above(o, p) \/ Above(p, o)
         /\ \A o, p \in S : Above(o, p) => o.ucb >= p.ucb
         /\ \A o, p \in S : o.ucb > p.ucb => Above(o, p)
<1>1. \A o \in S : o.id \in Nat /\ o.ucb \in Nat
  BY DEF Screened
<1>2. \A o, p \in S : o.id = p.id => o = p
  BY DEF Screened
<1>3. \A o \in S : ~Above(o, o)
  BY <1>1 DEF Above
<1>4. \A o, p, q \in S : Above(o, p) /\ Above(p, q) => Above(o, q)
  BY <1>1 DEF Above
<1>5. ASSUME NEW o \in S, NEW p \in S PROVE o = p \/ Above(o, p) \/ Above(p, o)
  <2>1. o.ucb > p.ucb \/ o.ucb < p.ucb \/ o.ucb = p.ucb
    BY <1>1
  <2>2. o.id > p.id \/ o.id < p.id \/ o.id = p.id
    BY <1>1
  <2>3. o.ucb < p.ucb <=> p.ucb > o.ucb
    BY <1>1
  <2>4. o.id > p.id <=> p.id < o.id
    BY <1>1
  <2> QED
    BY <1>2, <2>1, <2>2, <2>3, <2>4 DEF Above
<1>6. \A o, p \in S : Above(o, p) => o.ucb >= p.ucb
  BY <1>1 DEF Above
<1>7. \A o, p \in S : o.ucb > p.ucb => Above(o, p)
  BY DEF Above
<1> QED
  BY <1>3, <1>4, <1>5, <1>6, <1>7

\* A rank counts the options above; every rank is taken.
LEMMA RankInFacts ==
  ASSUME NEW S, Screened(S)
  PROVE  /\ Orders(AboveIn(S), S)
         /\ \A o \in S : RankIn(o, S) = Rank(AboveIn(S), S, o) + 1
         /\ \A o \in S : RankIn(o, S) \in 1 .. Cardinality(S)
         /\ \A o, p \in S : Above(o, p) => RankIn(o, S) < RankIn(p, S)
         /\ \A k \in 1 .. Cardinality(S) : \E o \in S : RankIn(o, S) = k
<1> DEFINE R == AboveIn(S)
<1>1. IsFiniteSet(S) /\ Cardinality(S) \in Nat
  BY FS_CardinalityType DEF Screened
<1>2. \A o, p \in S : <<o, p>> \in R <=> Above(o, p)
  BY DEF AboveIn
<1> HIDE DEF R
<1>3. Orders(R, S)
  <2>1. \A o \in S : <<o, o>> \notin R
    BY <1>2, AboveOrders
  <2>2. \A o, p, q \in S : <<o, p>> \in R /\ <<p, q>> \in R => <<o, q>> \in R
    BY <1>2, AboveOrders
  <2>3. \A o, p \in S : o = p \/ <<o, p>> \in R \/ <<p, o>> \in R
    BY <1>2, AboveOrders
  <2> QED
    BY <2>1, <2>2, <2>3 DEF Orders
<1>4. ASSUME NEW o \in S PROVE RankIn(o, S) = Rank(R, S, o) + 1
  <2>1. {p \in S : Above(p, o)} = Below(R, S, o)
    BY <1>2 DEF Below
  <2>2. Cardinality({p \in S : Above(p, o)}) = Cardinality(Below(R, S, o))
    BY <2>1, Zenon
  <2> QED
    BY <2>2 DEF RankIn, Rank
<1>5. /\ \A o \in S : Rank(R, S, o) \in 0 .. Cardinality(S) - 1
      /\ \A o, p \in S : <<o, p>> \in R => Rank(R, S, o) < Rank(R, S, p)
  BY <1>1, <1>3, RankFacts
<1>6. \A k \in 0 .. Cardinality(S) - 1 : \E o \in S : Rank(R, S, o) = k
  BY <1>1, <1>3, RanksAreTaken
<1>7. \A o \in S : RankIn(o, S) \in 1 .. Cardinality(S)
  BY <1>1, <1>4, <1>5
<1>8. \A o, p \in S : Above(o, p) => RankIn(o, S) < RankIn(p, S)
  <2> SUFFICES ASSUME NEW o \in S, NEW p \in S, Above(o, p)
               PROVE  RankIn(o, S) < RankIn(p, S)
    OBVIOUS
  <2>1. <<o, p>> \in R
    BY <1>2
  <2>2. Rank(R, S, o) < Rank(R, S, p)
    BY <1>5, <2>1
  <2>3. Rank(R, S, o) \in Int /\ Rank(R, S, p) \in Int
    BY <1>5
  <2> QED
    BY <1>4, <2>2, <2>3
<1>9. ASSUME NEW k \in 1 .. Cardinality(S) PROVE \E o \in S : RankIn(o, S) = k
  <2>1. k - 1 \in 0 .. Cardinality(S) - 1 /\ k \in Int
    BY <1>1
  <2>2. PICK o \in S : Rank(R, S, o) = k - 1
    BY <1>6, <2>1
  <2> QED
    BY <1>4, <2>1, <2>2
<1> QED
  BY <1>3, <1>4, <1>7, <1>8, <1>9 DEF R

\* A rank among the options above another is the rank among all.
LEMMA RankAbove ==
  ASSUME NEW alive, Screened(alive), NEW S \in SUBSET alive, NEW o \in alive,
         NEW p \in S, Above(p, o)
  PROVE  RankIn(p, {q \in S : Above(q, o)}) = RankIn(p, S)
<1>1. {r \in {q \in S : Above(q, o)} : Above(r, p)} = {r \in S : Above(r, p)}
  BY AboveOrders
<1>2. Cardinality({r \in {q \in S : Above(q, o)} : Above(r, p)})
        = Cardinality({r \in S : Above(r, p)})
  BY <1>1, Zenon
<1> QED
  BY <1>2 DEF RankIn

\* The best of a set is above the others.
LEMMA BestFacts ==
  ASSUME NEW S, Screened(S), S # {}
  PROVE  Best(S) \in S /\ \A o \in S : o = Best(S) \/ Above(Best(S), o)
<1>1. Cardinality(S) \in Nat /\ Cardinality(S) # 0
  BY FS_CardinalityType, FS_EmptySet DEF Screened
<1>2. \E o \in S : RankIn(o, S) = 1
  <2>1. 1 \in 1 .. Cardinality(S)
    BY <1>1
  <2> QED
    BY <2>1, RankInFacts
<1>3. Best(S) \in S /\ RankIn(Best(S), S) = 1
  BY <1>2 DEF Best
<1>4. ASSUME NEW o \in S, Above(o, Best(S)) PROVE FALSE
  <2>1. RankIn(o, S) < 1 /\ RankIn(o, S) \in 1 .. Cardinality(S)
    BY <1>3, <1>4, RankInFacts
  <2> QED
    BY <1>1, <2>1
<1> QED
  BY <1>3, <1>4, AboveOrders

\* The option all others are above.
LEMMA LowestExists ==
  ASSUME NEW S, Screened(S), S # {}
  PROVE  \E o \in S : \A p \in S : p = o \/ Above(p, o)
<1>1. Cardinality(S) \in Nat /\ Cardinality(S) # 0
  BY FS_CardinalityType, FS_EmptySet DEF Screened
<1>2. Cardinality(S) \in 1 .. Cardinality(S)
  BY <1>1
<1>3. PICK o \in S : RankIn(o, S) = Cardinality(S)
  BY <1>2, RankInFacts
<1>4. ASSUME NEW p \in S, Above(o, p) PROVE FALSE
  <2>1. RankIn(o, S) < RankIn(p, S) /\ RankIn(p, S) \in 1 .. Cardinality(S)
    BY <1>4, RankInFacts
  <2> QED
    BY <1>1, <1>3, <2>1
<1> QED
  BY <1>3, <1>4, AboveOrders

-----------------------------------------------------------------------------
(* (a) and (b): who is seated.                                             *)

\* S is who the walk down the order seats.
SeatsOf(alive, S) ==
  /\ S \subseteq alive
  /\ \A o \in alive : o \in S <=> Cut(o, {p \in S : Above(p, o)}) = "ucb-above-threshold"

\* The recursion of the walk has a solution, so who it seats is who earned it.
LEMMA SeatedFacts ==
  ASSUME NEW alive, Screened(alive)
  PROVE  SeatsOf(alive, Seated(alive))
<1> DEFINE X == alive
           V == BOOLEAN
           N == Cardinality(alive)
           r == [o \in X |-> RankIn(o, alive)]
           Step(o, g) == Cut(o, {p \in alive : Above(p, o) /\ g[p]}) = "ucb-above-threshold"
           H == [o \in X |-> [g \in [X -> V] |-> Step(o, g)]]
           Is(f) == f = [o \in X |-> Step(o, f)]
           seat == CHOOSE f : Is(f)
<1>1. N \in Nat /\ r \in [X -> 0 .. N]
  <2>1. N \in Nat
    BY FS_CardinalityType DEF Screened
  <2>2. \A o \in X : RankIn(o, alive) \in 1 .. N
    BY RankInFacts
  <2> QED
    BY <2>1, <2>2
<1>2. H \in [X -> [[X -> V] -> V]]
  OBVIOUS
<1>3. ASSUME NEW o \in X, NEW g \in [X -> V], NEW h \in [X -> V],
             \A y \in X : r[y] < r[o] => g[y] = h[y]
      PROVE  H[o][g] = H[o][h]
  <2>1. \A p \in alive : Above(p, o) => g[p] = h[p]
    BY <1>3, RankInFacts
  <2>2. {p \in alive : Above(p, o) /\ g[p]} = {p \in alive : Above(p, o) /\ h[p]}
    BY <2>1
  <2> QED
    BY <2>2, Zenon
<1>4. \E f \in [X -> V] : \A o \in X : f[o] = H[o][f]
  <2>1. Descends(X, V, N, r, H)
    <3>1. V # {}
      OBVIOUS
    <3> HIDE DEF X, V, N, r, H
    <3> QED
      BY <1>1, <1>2, <1>3, <3>1 DEF Descends
  <2> HIDE DEF X, V, N, r, H
  <2> QED
    BY <2>1, RankRecursion
<1>5. Is(seat)
  <2>1. PICK f \in [X -> V] : \A o \in X : f[o] = H[o][f]
    BY <1>4
  <2>2. \A o \in X : f[o] = Step(o, f)
    BY <2>1
  <2>3. f = [o \in X |-> Step(o, f)]
    BY <2>2
  <2>4. \E f1 : Is(f1)
    BY <2>3
  <2> QED
    BY <2>4
<1>6. Seated(alive) = {o \in alive : seat[o]}
  BY DEF Seated
<1> HIDE DEF seat
<1>7. ASSUME NEW o \in alive
      PROVE  o \in Seated(alive)
               <=> Cut(o, {p \in Seated(alive) : Above(p, o)}) = "ucb-above-threshold"
  <2>1. {p \in Seated(alive) : Above(p, o)} = {p \in alive : Above(p, o) /\ seat[p]}
    BY <1>6
  <2>2. seat[o] = Step(o, seat)
    BY <1>5
  <2>3. o \in Seated(alive) <=> Step(o, seat)
    BY <1>6, <2>2
  <2> QED
    BY <2>1, <2>3, Zenon
<1> QED
  BY <1>6, <1>7 DEF SeatsOf

\* An option advances when nothing cuts it.
LEMMA CutFacts ==
  ASSUME NEW o, NEW T
  PROVE  Cut(o, T) = "ucb-above-threshold" <=>
           /\ ~(o.ucb < Threshold)
           /\ ~(Cardinality(T) >= MaxFinalists)
           /\ ~(\E p \in T : RankIn(p, T) = TopK /\ o.ucb < p.ucb - Margin)
           /\ ~(Cardinality({p \in T : p.angle = o.angle}) >= MaxPerAngle)
BY DEF Cut

\* The caps bind: the lowest seat was given with all the others taken.
LEMMA SeatCounts ==
  ASSUME NEW alive, Screened(alive), NEW S, SeatsOf(alive, S)
  PROVE  /\ Cardinality(S) <= MaxFinalists
         /\ \A a : Cardinality({o \in S : o.angle = a}) <= MaxPerAngle
         /\ \A o \in S : o.ucb >= Threshold
<1>1. Screened(S) /\ S \in SUBSET alive /\ IsFiniteSet(S)
  BY ScreenedPart DEF SeatsOf, Screened
<1>2. \A o \in S : Cut(o, {p \in S : Above(p, o)}) = "ucb-above-threshold"
  BY DEF SeatsOf
<1>3. Cardinality(S) <= MaxFinalists
  <2>1. CASE S = {}
    <3>1. Cardinality(S) = 0
      BY <2>1, FS_EmptySet
    <3> QED
      BY <3>1, ConfigFacts
  <2>2. CASE S # {}
    <3>1. PICK l \in S : \A p \in S : p = l \/ Above(p, l)
      BY <1>1, <2>2, LowestExists
    <3>2. {p \in S : Above(p, l)} = S \ {l}
      BY <1>1, <3>1, AboveOrders
    <3>3. ~(Cardinality({p \in S : Above(p, l)}) >= MaxFinalists)
      BY <1>2, CutFacts
    <3>4. Cardinality({p \in S : Above(p, l)}) = Cardinality(S \ {l})
      BY <3>2, Zenon
    <3>5. Cardinality(S \ {l}) = Cardinality(S) - 1 /\ Cardinality(S) \in Nat
      BY <1>1, FS_RemoveElement, FS_CardinalityType
    <3> QED
      BY <3>3, <3>4, <3>5, ConfigFacts
  <2> QED
    BY <2>1, <2>2
<1>4. ASSUME NEW a PROVE Cardinality({o \in S : o.angle = a}) <= MaxPerAngle
  <2> DEFINE A == {o \in S : o.angle = a}
  <2>1. Screened(A) /\ IsFiniteSet(A)
    BY <1>1, ScreenedPart, FS_Subset
  <2>2. CASE A = {}
    <3>1. Cardinality(A) = 0
      BY <2>2, FS_EmptySet
    <3> QED
      BY <3>1, ConfigFacts
  <2>3. CASE A # {}
    <3>1. PICK l \in A : \A p \in A : p = l \/ Above(p, l)
      BY <2>1, <2>3, LowestExists
    <3> DEFINE T == {p \in S : Above(p, l)}
    <3>2. {p \in T : p.angle = l.angle} = A \ {l}
      BY <1>1, <3>1, AboveOrders
    <3>3. ~(Cardinality({p \in T : p.angle = l.angle}) >= MaxPerAngle)
      BY <1>2, CutFacts
    <3>4. Cardinality({p \in T : p.angle = l.angle}) = Cardinality(A \ {l})
      BY <3>2, Zenon
    <3>5. Cardinality(A \ {l}) = Cardinality(A) - 1 /\ Cardinality(A) \in Nat
      BY <2>1, FS_RemoveElement, FS_CardinalityType
    <3> HIDE DEF A, T
    <3>6. Cardinality(A) <= MaxPerAngle
      BY <3>3, <3>4, <3>5, ConfigFacts
    <3> QED
      BY <3>6 DEF A
  <2> QED
    BY <2>2, <2>3
<1>5. ASSUME NEW o \in S PROVE o.ucb >= Threshold
  <2>1. ~(o.ucb < Threshold)
    BY <1>2, CutFacts
  <2>2. o.ucb \in Nat
    BY <1>1 DEF Screened
  <2> QED
    BY <2>1, <2>2, ConfigFacts
<1> QED
  BY <1>3, <1>4, <1>5

\* Who is seated is in the top k, or close behind the last of them.
LEMMA DarkHorse ==
  ASSUME NEW alive, Screened(alive), NEW S, SeatsOf(alive, S),
         NEW o \in S, ~(RankIn(o, S) <= TopK)
  PROVE  \E p \in S : RankIn(p, S) = TopK /\ o.ucb >= p.ucb - Margin
<1> DEFINE T == {p \in S : Above(p, o)}
<1>1. Screened(S) /\ S \in SUBSET alive /\ Cardinality(S) \in Nat
  BY ScreenedPart, FS_CardinalityType DEF SeatsOf, Screened
<1>2. TopK \in 1 .. Cardinality(S)
  <2>1. RankIn(o, S) \in 1 .. Cardinality(S)
    BY <1>1, RankInFacts
  <2> QED
    BY <1>1, <2>1, ConfigFacts
<1>3. PICK p \in S : RankIn(p, S) = TopK
  BY <1>1, <1>2, RankInFacts
<1>4. Above(p, o)
  <2>1. ~Above(o, p)
    <3> SUFFICES ASSUME Above(o, p) PROVE FALSE
      OBVIOUS
    <3>1. RankIn(o, S) < RankIn(p, S) /\ RankIn(o, S) \in 1 .. Cardinality(S)
      BY <1>1, RankInFacts
    <3> QED
      BY <1>1, <1>3, <3>1, ConfigFacts
  <2>2. o # p
    BY <1>2, <1>3
  <2> QED
    BY <1>1, <2>1, <2>2, AboveOrders
<1>5. p \in T /\ RankIn(p, T) = TopK
  <2>1. RankIn(p, T) = RankIn(p, S)
    BY <1>1, <1>4, RankAbove
  <2> QED
    BY <1>3, <1>4, <2>1
<1>6. ~(\E q \in T : RankIn(q, T) = TopK /\ o.ucb < q.ucb - Margin)
  <2>1. Cut(o, T) = "ucb-above-threshold"
    BY DEF SeatsOf
  <2> QED
    BY <2>1, CutFacts
<1>7. ~(o.ucb < p.ucb - Margin)
  BY <1>5, <1>6
<1>8. o.ucb \in Nat /\ p.ucb \in Nat
  BY <1>1 DEF Screened
<1> QED
  BY <1>3, <1>7, <1>8, ConfigFacts

\* Who is passed over for a lower bound had a full angle.
LEMMA Optimism ==
  ASSUME NEW alive, Screened(alive), NEW S, SeatsOf(alive, S),
         NEW o \in alive \ S, NEW p \in S, o.ucb > p.ucb
  PROVE  Cardinality({q \in S : q.angle = o.angle}) = MaxPerAngle
<1> DEFINE T == {q \in S : Above(q, o)}
           U == {q \in S : Above(q, p)}
           A == {q \in S : q.angle = o.angle}
           B == {q \in T : q.angle = o.angle}
<1>1. Screened(S) /\ S \in SUBSET alive /\ IsFiniteSet(S)
  BY ScreenedPart DEF SeatsOf, Screened
<1>2. o.ucb \in Nat /\ p.ucb \in Nat /\ Above(o, p)
  BY <1>1 DEF Screened, Above
<1>3. T \subseteq U
  BY <1>1, <1>2, AboveOrders
<1>4. IsFiniteSet(U) /\ IsFiniteSet(T) /\ IsFiniteSet(A) /\ IsFiniteSet(B)
  BY <1>1, FS_Subset
<1>5. /\ Cardinality(T) <= Cardinality(U) /\ Cardinality(B) <= Cardinality(A)
      /\ Cardinality(T) \in Nat /\ Cardinality(U) \in Nat
      /\ Cardinality(A) \in Nat /\ Cardinality(B) \in Nat
  <2>1. B \subseteq A
    OBVIOUS
  <2> HIDE DEF A, B, T, U
  <2> QED
    BY <1>3, <1>4, <2>1, FS_Subset, FS_CardinalityType
<1>6. Cut(p, U) = "ucb-above-threshold" /\ Cut(o, T) # "ucb-above-threshold"
  BY DEF SeatsOf
<1>7. ~(o.ucb < Threshold)
  <2>1. ~(p.ucb < Threshold)
    BY <1>6, CutFacts
  <2> QED
    BY <1>2, <2>1, ConfigFacts
<1>8. ~(Cardinality(T) >= MaxFinalists)
  <2>1. ~(Cardinality(U) >= MaxFinalists)
    BY <1>6, CutFacts
  <2> QED
    BY <1>5, <2>1, ConfigFacts
<1>9. ASSUME NEW q \in T, RankIn(q, T) = TopK, o.ucb < q.ucb - Margin PROVE FALSE
  <2>1. RankIn(q, T) = RankIn(q, S) /\ Above(q, o)
    BY <1>1, RankAbove
  <2>2. Above(q, p)
    BY <1>3
  <2>3. RankIn(q, U) = RankIn(q, S)
    BY <1>1, <2>2, RankAbove
  <2>4. ~(p.ucb < q.ucb - Margin)
    <3>1. q \in U /\ RankIn(q, U) = TopK
      BY <1>3, <1>9, <2>1, <2>3
    <3> QED
      BY <1>6, <3>1, CutFacts
  <2>5. q.ucb \in Nat
    BY <1>1 DEF Screened
  <2> QED
    BY <1>2, <1>9, <2>4, <2>5, ConfigFacts
<1>10. Cardinality(B) >= MaxPerAngle
  BY <1>6, <1>7, <1>8, <1>9, CutFacts
<1>11. Cardinality(A) <= MaxPerAngle
  BY SeatCounts
<1> HIDE DEF A, B
<1>12. Cardinality(A) = MaxPerAngle
  BY <1>5, <1>10, <1>11, ConfigFacts
<1> QED
  BY <1>12 DEF A

-----------------------------------------------------------------------------
(* (c2): breadth insurance.                                                *)

\* The angles in order of prior.
ByPrior == {e \in (DOMAIN Prior) \X (DOMAIN Prior) :
              Prior[e[1]] > Prior[e[2]] \/ (Prior[e[1]] = Prior[e[2]] /\ e[1] < e[2])}

\* No two angles share a place in that order.
LEMMA PriorRankFacts ==
  /\ \A a \in DOMAIN Prior : PriorRank(a) \in Nat
  /\ \A a, b \in DOMAIN Prior : PriorRank(a) = PriorRank(b) => a = b
<1> DEFINE D == DOMAIN Prior
           R == ByPrior
<1>1. IsFiniteSet(D) /\ Cardinality(D) \in Nat /\ \A a \in D : Prior[a] \in Nat /\ a \in Nat
  BY ConfigFacts, FS_CardinalityType
<1>2. \A a, b \in D :
        <<a, b>> \in R <=> (Prior[a] > Prior[b] \/ (Prior[a] = Prior[b] /\ a < b))
  BY DEF ByPrior
<1> HIDE DEF D, R
<1>3. Orders(R, D)
  <2>1. \A a \in D : <<a, a>> \notin R
    BY <1>1, <1>2
  <2>2. \A a, b, c \in D : <<a, b>> \in R /\ <<b, c>> \in R => <<a, c>> \in R
    BY <1>1, <1>2
  <2>3. ASSUME NEW a \in D, NEW b \in D PROVE a = b \/ <<a, b>> \in R \/ <<b, a>> \in R
    <3>1. a < b \/ b < a \/ a = b
      BY <1>1
    <3>2. Prior[a] > Prior[b] \/ Prior[b] > Prior[a] \/ Prior[a] = Prior[b]
      BY <1>1
    <3> QED
      BY <1>2, <3>1, <3>2
  <2> QED
    BY <2>1, <2>2, <2>3 DEF Orders
<1>4. ASSUME NEW a \in D PROVE PriorRank(a) = Rank(R, D, a) + 1
  <2>1. {b \in D : Prior[b] > Prior[a] \/ (Prior[b] = Prior[a] /\ b < a)} = Below(R, D, a)
    BY <1>2 DEF Below
  <2>2. Cardinality({b \in D : Prior[b] > Prior[a] \/ (Prior[b] = Prior[a] /\ b < a)})
          = Cardinality(Below(R, D, a))
    BY <2>1, Zenon
  <2> QED
    BY <2>2 DEF PriorRank, Rank, D
<1>5. /\ \A a \in D : Rank(R, D, a) \in 0 .. Cardinality(D) - 1
      /\ \A a, b \in D : Rank(R, D, a) = Rank(R, D, b) => a = b
  BY <1>1, <1>3, RankFacts
<1>6. \A a \in D : PriorRank(a) \in Nat
  BY <1>1, <1>4, <1>5
<1>7. ASSUME NEW a \in D, NEW b \in D, PriorRank(a) = PriorRank(b) PROVE a = b
  <2>1. Rank(R, D, a) \in Int /\ Rank(R, D, b) \in Int
    BY <1>1, <1>5
  <2>2. Rank(R, D, a) = Rank(R, D, b)
    BY <1>4, <1>7, <2>1
  <2> QED
    BY <1>5, <2>2
<1> QED
  BY <1>6, <1>7 DEF D

\* The angles first in order of prior, up to a number of them.
FirstOf(owed, room) ==
  {a \in owed : Cardinality({b \in owed : PriorRank(b) < PriorRank(a)}) < room}

\* As many angles as there is room for, or all of them.
LEMMA FirstOfFacts ==
  ASSUME NEW owed \in SUBSET DOMAIN Prior, NEW room \in Nat
  PROVE  /\ IsFiniteSet(FirstOf(owed, room))
         /\ Cardinality(FirstOf(owed, room)) <= room
         /\ Cardinality(FirstOf(owed, room)) < room => FirstOf(owed, room) = owed
<1> DEFINE R == {e \in owed \X owed : PriorRank(e[1]) < PriorRank(e[2])}
           F == FirstOf(owed, room)
<1>1. IsFiniteSet(owed) /\ IsFiniteSet(F) /\ F \subseteq owed
  BY ConfigFacts, FS_Subset DEF FirstOf
<1>2. Cardinality(owed) \in Nat /\ Cardinality(F) \in Nat
  BY <1>1, FS_CardinalityType
<1>3. \A a, b \in owed : <<a, b>> \in R <=> PriorRank(a) < PriorRank(b)
  OBVIOUS
<1> HIDE DEF R
<1>4. Orders(R, owed)
  <2>1. \A a, b \in owed : PriorRank(a) \in Nat /\ (PriorRank(a) = PriorRank(b) => a = b)
    BY PriorRankFacts
  <2>2. ASSUME NEW a \in owed, NEW b \in owed
        PROVE  a = b \/ <<a, b>> \in R \/ <<b, a>> \in R
    <3>1. PriorRank(a) < PriorRank(b) \/ PriorRank(b) < PriorRank(a) \/ PriorRank(a) = PriorRank(b)
      BY <2>1
    <3> QED
      BY <1>3, <2>1, <3>1
  <2>3. \A a \in owed : <<a, a>> \notin R
    BY <1>3, <2>1
  <2>4. \A a, b, c \in owed : <<a, b>> \in R /\ <<b, c>> \in R => <<a, c>> \in R
    BY <1>3, <2>1
  <2> QED
    BY <2>2, <2>3, <2>4 DEF Orders
<1>5. ASSUME NEW a \in owed
      PROVE  Cardinality({b \in owed : PriorRank(b) < PriorRank(a)}) = Rank(R, owed, a)
  <2>1. {b \in owed : PriorRank(b) < PriorRank(a)} = Below(R, owed, a)
    BY <1>3 DEF Below
  <2> QED
    BY <2>1, Zenon DEF Rank
<1>6. F = {a \in owed : Rank(R, owed, a) < room}
  BY <1>5 DEF FirstOf
<1>7. CASE room <= Cardinality(owed)
  <2>1. room \in 0 .. Cardinality(owed)
    BY <1>2, <1>7
  <2>2. Cardinality({a \in owed : Rank(R, owed, a) < room}) = room
    BY <1>1, <1>4, <2>1, RankCount
  <2>3. Cardinality(F) = room
    BY <1>6, <2>2, Zenon
  <2> HIDE DEF F
  <2>4. Cardinality(F) <= room /\ ~(Cardinality(F) < room)
    BY <2>3
  <2> QED
    BY <1>1, <2>4 DEF F
<1>8. CASE room > Cardinality(owed)
  <2>1. \A a \in owed : Rank(R, owed, a) \in 0 .. Cardinality(owed) - 1
    BY <1>1, <1>4, RankFacts
  <2>2. \A a \in owed : Rank(R, owed, a) < room
    BY <1>2, <1>8, <2>1
  <2>3. F = owed
    BY <1>6, <2>2
  <2> HIDE DEF F
  <2>4. Cardinality(F) <= room
    <3>1. Cardinality(F) = Cardinality(owed)
      BY <2>3
    <3> QED
      BY <1>2, <1>8, <3>1
  <2> QED
    BY <1>1, <2>3, <2>4 DEF F
<1> QED
  BY <1>2, <1>7, <1>8

\* The best option of each of some angles: one an angle.
OneAnAngle(alive, G) == {Best({o \in alive : o.angle = a}) : a \in G}

\* Distinct angles give distinct options.
LEMMA OneAnAngleFacts ==
  ASSUME NEW alive, Screened(alive), NEW G \in SUBSET AnglesOf(alive), IsFiniteSet(G)
  PROVE  /\ OneAnAngle(alive, G) \subseteq alive
         /\ AnglesOf(OneAnAngle(alive, G)) = G
         /\ \A o, p \in OneAnAngle(alive, G) : o.angle = p.angle => o = p
         /\ IsFiniteSet(OneAnAngle(alive, G))
         /\ Cardinality(OneAnAngle(alive, G)) = Cardinality(G)
<1> DEFINE B(a) == Best({o \in alive : o.angle = a})
           O == OneAnAngle(alive, G)
<1>1. ASSUME NEW a \in G PROVE B(a) \in alive /\ B(a).angle = a
  <2>1. {o \in alive : o.angle = a} # {}
    BY DEF AnglesOf
  <2>2. {o \in alive : o.angle = a} \in SUBSET alive
    OBVIOUS
  <2>3. Screened({o \in alive : o.angle = a})
    BY <2>2, ScreenedPart
  <2>4. B(a) \in {o \in alive : o.angle = a}
    BY <2>1, <2>3, BestFacts
  <2> QED
    BY <2>4
<1>2. O = {B(a) : a \in G}
  BY DEF OneAnAngle
<1> DEFINE g == [a \in G |-> B(a)]
<1> HIDE DEF B, O
<1>3. O \subseteq alive /\ \A o, p \in O : o.angle = p.angle => o = p
  BY <1>1, <1>2
<1>4. AnglesOf(O) = G
  BY <1>1, <1>2 DEF AnglesOf
<1>5. IsFiniteSet(O)
  BY <1>3, FS_Subset DEF Screened
<1>6. g \in Injection(G, O) /\ g \in Surjection(G, O)
  <2>1. g \in [G -> O]
    BY <1>2
  <2>2. \A a, b \in G : g[a] = g[b] => a = b
    BY <1>1
  <2>3. \A o \in O : \E a \in G : g[a] = o
    BY <1>2
  <2> HIDE DEF g
  <2> QED
    BY <2>1, <2>2, <2>3 DEF Injection, IsInjective, Surjection
<1>7. Cardinality(G) = Cardinality(O)
  <2> HIDE DEF g
  <2> QED
    BY <1>5, <1>6, FS_Injection
<1> QED
  BY <1>3, <1>4, <1>5, <1>7 DEF O

\* The places breadth insurance fills: one an angle nobody holds, no more
\* than there is room for, and all that are owed when room is left over.
Insures(alive, S, added) ==
  /\ added \subseteq alive
  /\ AnglesOf(added) \cap AnglesOf(S) = {}
  /\ \A o, p \in added : o.angle = p.angle => o = p
  /\ Cardinality(S \cup added) <= MaxFinalists
  /\ /\ Cardinality(AnglesOf({o \in S : RankIn(o, S) <= TopK})) <= 2
     /\ Cardinality(S \cup added) < MaxFinalists
     => TopHalf \cap AnglesOf(alive) \subseteq AnglesOf(S \cup added)

\* The code's breadth insurance fills them.
LEMMA GuardrailInsures ==
  ASSUME NEW alive, Screened(alive), NEW S \in SUBSET alive,
         Cardinality(S) <= MaxFinalists
  PROVE  Insures(alive, S, Guardrail(alive, S))
<1> DEFINE top == {o \in S : RankIn(o, S) <= TopK}
           narrow == ~(Cardinality(AnglesOf(top)) > 2)
           owed == (TopHalf \cap AnglesOf(alive)) \ AnglesOf(S)
           room == MaxFinalists - Cardinality(S)
           G == IF narrow THEN FirstOf(owed, room) ELSE {}
           added == OneAnAngle(alive, G)
<1>1. IsFiniteSet(S) /\ Cardinality(S) \in Nat
  BY FS_Subset, FS_CardinalityType DEF Screened
<1>2. room \in Nat
  BY <1>1, ConfigFacts
<1>3. owed \in SUBSET DOMAIN Prior
  BY DEF TopHalf
<1>4. /\ G \subseteq owed /\ IsFiniteSet(G) /\ Cardinality(G) <= room
      /\ narrow /\ Cardinality(G) < room => G = owed
  <2>1. CASE narrow
    <3>1. G = FirstOf(owed, room)
      BY <2>1
    <3> HIDE DEF narrow, owed, room, G
    <3> QED
      BY <1>2, <1>3, <3>1, FirstOfFacts DEF FirstOf
  <2>2. CASE ~narrow
    <3>1. G = {}
      BY <2>2
    <3>2. Cardinality(G) = 0
      BY <3>1, FS_EmptySet
    <3> HIDE DEF narrow, owed, room, G
    <3> QED
      BY <1>2, <2>2, <3>1, <3>2, FS_EmptySet
  <2> QED
    BY <2>1, <2>2
<1>5. Guardrail(alive, S) = added
  <2>1. CASE narrow
    BY <2>1 DEF Guardrail, OneAnAngle, FirstOf
  <2>2. CASE ~narrow
    <3>1. added = {}
      BY <2>2 DEF OneAnAngle
    <3> QED
      BY <2>2, <3>1 DEF Guardrail
  <2> QED
    BY <2>1, <2>2
<1>6. G \in SUBSET AnglesOf(alive) /\ G \cap AnglesOf(S) = {}
  BY <1>4
<1>7. Cardinality(AnglesOf(top)) <= 2 => narrow
  <2>1. IsFiniteSet(AnglesOf(top))
    <3>1. AnglesOf(top) \subseteq DOMAIN Prior
      BY DEF AnglesOf, Screened
    <3> HIDE DEF top
    <3> QED
      BY <3>1, ConfigFacts, FS_Subset
  <2>2. Cardinality(AnglesOf(top)) \in Nat
    <3> HIDE DEF top
    <3> QED
      BY <2>1, FS_CardinalityType
  <2> HIDE DEF top
  <2> QED
    BY <2>2
<1> HIDE DEF G
<1>8. /\ added \subseteq alive /\ AnglesOf(added) = G
      /\ \A o, p \in added : o.angle = p.angle => o = p
      /\ IsFiniteSet(added) /\ Cardinality(added) = Cardinality(G)
  BY <1>4, <1>6, OneAnAngleFacts
<1> HIDE DEF added, narrow, owed, top
<1>9. S \cap added = {}
  BY <1>6, <1>8 DEF AnglesOf
<1>10. Cardinality(S \cup added) = Cardinality(S) + Cardinality(added)
  <2>1. Cardinality(S \cap added) = 0
    BY <1>9, FS_EmptySet
  <2>2. Cardinality(added) \in Nat
    BY <1>8, FS_CardinalityType
  <2>3. Cardinality(S \cup added)
          = Cardinality(S) + Cardinality(added) - Cardinality(S \cap added)
    BY <1>1, <1>8, FS_Union
  <2> QED
    BY <1>1, <2>1, <2>2, <2>3
<1>11. Cardinality(G) \in Nat
  BY <1>4, FS_CardinalityType
<1>12. Cardinality(S \cup added) <= MaxFinalists
  BY <1>1, <1>4, <1>8, <1>10, <1>11, ConfigFacts
<1>13. ASSUME Cardinality(AnglesOf(top)) <= 2, Cardinality(S \cup added) < MaxFinalists
       PROVE  TopHalf \cap AnglesOf(alive) \subseteq AnglesOf(S \cup added)
  <2>1. Cardinality(G) < room
    BY <1>1, <1>8, <1>10, <1>11, <1>13, ConfigFacts
  <2>2. G = owed
    BY <1>4, <1>7, <1>13, <2>1
  <2>3. AnglesOf(S \cup added) = AnglesOf(S) \cup AnglesOf(added)
    BY DEF AnglesOf
  <2> QED
    BY <1>8, <2>2, <2>3 DEF owed
<1>14. Insures(alive, S, added)
  BY <1>6, <1>8, <1>12, <1>13 DEF Insures, top
<1> QED
  BY <1>5, <1>14

-----------------------------------------------------------------------------
(* The whole rule.                                                         *)

\* The decision and the cause every option gets, from who is seated and who
\* is added for breadth.
Decides(options, S, added, made) ==
  /\ made.finalists = {o.id : o \in S \cup added}
  /\ DOMAIN made.cause = {o.id : o \in options}
  /\ \A o \in options : made.cause[o.id] =
       IF o.kill THEN "kill-risk-confirmed"
       ELSE IF o \in added THEN "diversity-guardrail-add"
       ELSE Cut(o, {p \in S : Above(p, o)})

\* build_shortlist decides every option that way.
LEMMA BuildDecides ==
  ASSUME NEW options, Screened(options)
  PROVE  Decides(options, Seated(Alive(options)),
                 Guardrail(Alive(options), Seated(Alive(options))),
                 BuildShortlist(options))
<1> DEFINE alive == Alive(options)
           S == Seated(alive)
           cause(se, o) ==
             IF o.kill THEN "kill-risk-confirmed"
             ELSE IF o \in Guardrail(alive, se) THEN "diversity-guardrail-add"
             ELSE Cut(o, {p \in se : Above(p, o)})
           decision(se) ==
             [finalists |-> {o.id : o \in se \cup Guardrail(alive, se)},
              cause |-> [id \in {o.id : o \in options} |->
                          cause(se, CHOOSE o \in options : o.id = id)]]
<1>1. alive \in SUBSET options
  BY DEF Alive
<1>2. S \in SUBSET options
  <2>1. Screened(alive)
    BY <1>1, ScreenedPart
  <2> QED
    BY <1>1, <2>1, SeatedFacts DEF SeatsOf
<1>3. BuildShortlist(options) = decision(S)
  <2>1. BuildShortlist(options) = [se \in SUBSET options |-> decision(se)][S]
    BY DEF BuildShortlist
  <2> HIDE DEF decision, S
  <2> QED
    BY <1>2, <2>1
<1>4. ASSUME NEW o \in options
      PROVE  (CHOOSE p \in options : p.id = o.id) = o
  BY DEF Screened
<1>5. decision(S).finalists = {o.id : o \in S \cup Guardrail(alive, S)}
  OBVIOUS
<1>6. decision(S).cause
        = [id \in {o.id : o \in options} |->
             cause(S, CHOOSE o \in options : o.id = id)]
  OBVIOUS
<1>7. ASSUME NEW o \in options
      PROVE  decision(S).cause[o.id] = cause(S, o)
  <2>1. o.id \in {p.id : p \in options}
    OBVIOUS
  <2> HIDE DEF cause, decision, alive, S
  <2>2. decision(S).cause[o.id] = cause(S, CHOOSE p \in options : p.id = o.id)
    BY <1>6, <2>1
  <2> QED
    BY <1>4, <2>2
<1>8. DOMAIN decision(S).cause = {o.id : o \in options}
  <2> HIDE DEF cause, decision, alive, S
  <2> QED
    BY <1>6
<1> HIDE DEF decision, alive, S
<1> QED
  BY <1>3, <1>5, <1>7, <1>8 DEF Decides, alive, S

\* The finalists are who is seated and who is added; the seats are who earned
\* their place.
LEMMA FinalAndEarned ==
  ASSUME NEW options, Screened(options), NEW S, NEW added, NEW made,
         SeatsOf(Alive(options), S), Insures(Alive(options), S, added),
         Decides(options, S, added, made)
  PROVE  /\ {o \in options : o.id \in made.finalists} = S \cup added
         /\ {o \in S \cup added : made.cause[o.id] = "ucb-above-threshold"} = S
<1>1. S \subseteq options /\ added \subseteq options /\ \A o \in S \cup added : ~o.kill
  BY DEF SeatsOf, Insures, Alive
<1>2. {o \in options : o.id \in made.finalists} = S \cup added
  <2>1. made.finalists = {o.id : o \in S \cup added}
    BY DEF Decides
  <2> QED
    BY <1>1, <2>1 DEF Screened
<1>3. S \cap added = {}
  BY DEF Insures, AnglesOf
<1>4. ASSUME NEW o \in S PROVE made.cause[o.id] = "ucb-above-threshold"
  <2>1. Cut(o, {p \in S : Above(p, o)}) = "ucb-above-threshold"
    BY DEF SeatsOf
  <2>2. made.cause[o.id] = Cut(o, {p \in S : Above(p, o)})
    BY <1>1, <1>3 DEF Decides
  <2> QED
    BY <2>1, <2>2
<1>5. ASSUME NEW o \in added PROVE made.cause[o.id] # "ucb-above-threshold"
  BY <1>1 DEF Decides
<1> QED
  BY <1>2, <1>4, <1>5

OfAngle(set, a) == {o \in set : o.angle = a}

\* One angle has no more finalists than its cap: only its seats, or only the
\* one that is added.
LEMMA FinalAngleCap ==
  ASSUME NEW alive, Screened(alive), NEW S, SeatsOf(alive, S),
         NEW added, Insures(alive, S, added), NEW a
  PROVE  Cardinality(OfAngle(S \cup added, a)) <= MaxPerAngle
<1> DEFINE F == OfAngle(S \cup added, a)
<1> USE DEF OfAngle
<1>1. CASE \E p \in added : p.angle = a
  <2>1. PICK p \in added : p.angle = a
    BY <1>1
  <2>2. F = {p}
    BY <2>1 DEF Insures, AnglesOf
  <2>3. Cardinality(F) = 1
    <3>1. Cardinality({p}) = 1
      BY FS_Singleton
    <3> QED
      BY <2>2, <3>1, Zenon
  <2> HIDE DEF F
  <2>4. Cardinality(F) <= MaxPerAngle
    BY <2>3, ConfigFacts
  <2> QED
    BY <2>4 DEF F
<1>2. CASE ~(\E p \in added : p.angle = a)
  <2>1. F = {o \in S : o.angle = a}
    BY <1>2
  <2>2. Cardinality({o \in S : o.angle = a}) <= MaxPerAngle
    BY SeatCounts
  <2> QED
    BY <2>1, <2>2, Zenon
<1> QED
  BY <1>1, <1>2

\* The rule, of any decision made that way.
LEMMA DecidedWithinRule ==
  ASSUME NEW options, Screened(options), NEW S, NEW added, NEW made,
         SeatsOf(Alive(options), S), Insures(Alive(options), S, added),
         Decides(options, S, added, made)
  PROVE  RuleHolds(options, made)
<1> DEFINE alive == Alive(options)
           final == {o \in options : o.id \in made.finalists}
           earned == {o \in final : made.cause[o.id] = "ucb-above-threshold"}
           top == {o \in earned : RankIn(o, earned) <= TopK}
<1>1. final = S \cup added /\ earned = S
  BY FinalAndEarned
<1>2. alive \in SUBSET options /\ Screened(alive) /\ SeatsOf(alive, S) /\ Insures(alive, S, added)
  <2>1. alive \in SUBSET options
    BY DEF Alive
  <2> QED
    BY <2>1, ScreenedPart
<1> HIDE DEF alive, final, earned
<1>3. \A o \in final : ~o.kill
  BY <1>1, <1>2 DEF SeatsOf, Insures, Alive, alive
<1>4. Cardinality(final) <= MaxFinalists
  BY <1>1, <1>2 DEF Insures
<1>5. \A a \in AnglesOf(final) : Cardinality({o \in final : o.angle = a}) <= MaxPerAngle
  <2>1. ASSUME NEW a PROVE Cardinality(OfAngle(final, a)) <= MaxPerAngle
    BY <1>1, <1>2, FinalAngleCap
  <2> QED
    BY <2>1 DEF OfAngle
<1>6. \A o \in final : o.ucb < Threshold => made.cause[o.id] = "diversity-guardrail-add"
  <2> SUFFICES ASSUME NEW o \in final, o.ucb < Threshold
               PROVE  made.cause[o.id] = "diversity-guardrail-add"
    OBVIOUS
  <2>1. o \in options /\ o.ucb \in Nat /\ ~o.kill
    BY <1>3 DEF final, Screened
  <2>2. o \notin S
    <3>1. o \in S => o.ucb >= Threshold
      BY <1>2, SeatCounts
    <3> QED
      BY <2>1, <3>1, ConfigFacts
  <2>3. o \in added
    BY <1>1, <2>2
  <2> QED
    BY <2>1, <2>3 DEF Decides
<1>7. \A o \in earned : o \in top \/
         \E p \in top : RankIn(p, earned) = TopK /\ o.ucb >= p.ucb - Margin
  <2> SUFFICES ASSUME NEW o \in earned, ~(RankIn(o, earned) <= TopK)
               PROVE  \E p \in top : RankIn(p, earned) = TopK /\ o.ucb >= p.ucb - Margin
    OBVIOUS
  <2>1. \E p \in S : RankIn(p, S) = TopK /\ o.ucb >= p.ucb - Margin
    BY <1>1, <1>2, DarkHorse
  <2>2. PICK p \in earned : RankIn(p, earned) = TopK /\ o.ucb >= p.ucb - Margin
    BY <1>1, <2>1
  <2>3. p \in top
    BY <2>2, ConfigFacts
  <2> QED
    BY <2>2, <2>3
<1>8. \A o \in alive \ final, p \in earned :
        o.ucb > p.ucb => Cardinality({q \in earned : q.angle = o.angle}) = MaxPerAngle
  BY <1>1, <1>2, Optimism
<1>9. Cardinality(AnglesOf(top)) <= 2 /\ Cardinality(final) < MaxFinalists =>
        TopHalf \cap AnglesOf(alive) \subseteq AnglesOf(final)
  BY <1>1, <1>2 DEF Insures
<1> HIDE DEF top
<1> QED
  BY <1>3, <1>4, <1>5, <1>6, <1>7, <1>8, <1>9 DEF RuleHolds, alive, final, earned, top

\* Whatever the bounds, kill-risks, angles and configuration: the shortlist
\* that build_shortlist makes keeps the rule as the code applies it, in which
\* the seats of the breadth insurance, and no others, are exempt from the floor
\* ("nothing advances below", say shortlist.py:13-14 and README.md).
THEOREM RuleOfAnyScreening ==
  ASSUME NEW options, Screened(options)
  PROVE  RuleHolds(options, BuildShortlist(options))
<1> DEFINE S == Seated(Alive(options))
           added == Guardrail(Alive(options), S)
<1>1. Screened(Alive(options))
  <2>1. Alive(options) \in SUBSET options
    BY DEF Alive
  <2> QED
    BY <2>1, ScreenedPart
<1>2. SeatsOf(Alive(options), S)
  BY <1>1, SeatedFacts
<1>3. S \in SUBSET Alive(options) /\ Cardinality(S) <= MaxFinalists
  BY <1>1, <1>2, SeatCounts DEF SeatsOf
<1>4. Insures(Alive(options), S, added)
  BY <1>1, <1>3, GuardrailInsures
<1>5. Decides(options, S, added, BuildShortlist(options))
  BY BuildDecides
<1> QED
  BY <1>2, <1>4, <1>5, DecidedWithinRule

-----------------------------------------------------------------------------
(* Chunks.                                                                 *)

\* How many cards come before the i-th of k chunks.
Start(n, k, i) == (i - 1) * (n \div k) + (IF i - 1 < n % k THEN i - 1 ELSE n % k)

\* The chunks start at the first card, end at the last and leave no gap.
LEMMA StartFacts ==
  ASSUME NEW n \in Nat, NEW k \in Nat \ {0}
  PROVE  /\ Start(n, k, 1) = 0 /\ Start(n, k, k + 1) = n
         /\ \A i \in 1 .. k :
              /\ Start(n, k, i) \in 0 .. n /\ Start(n, k, i + 1) \in 0 .. n
              /\ Start(n, k, i + 1)
                   = Start(n, k, i) + (n \div k) + (IF i - 1 < n % k THEN 1 ELSE 0)
<1> DEFINE q == n \div k
           r == n % k
           skew(i) == IF i - 1 < r THEN i - 1 ELSE r
<1>1. q \in Nat /\ r \in Nat /\ r < k /\ n = k * q + r
  BY Division
<1>2. \A i : Start(n, k, i) = (i - 1) * q + skew(i)
  BY DEF Start
<1> HIDE DEF q, r
<1>3. \A i \in 1 .. k + 1 : (i - 1) * q \in Nat /\ (i - 1) * q <= k * q /\ skew(i) \in 0 .. r
  <2> SUFFICES ASSUME NEW i \in 1 .. k + 1
               PROVE  (i - 1) * q \in Nat /\ (i - 1) * q <= k * q /\ skew(i) \in 0 .. r
    OBVIOUS
  <2>1. i - 1 \in Nat /\ i - 1 <= k
    OBVIOUS
  <2>2. (i - 1) * q \in Nat /\ (i - 1) * q <= k * q
    BY <1>1, <2>1, Times
  <2> QED
    BY <1>1, <2>1, <2>2
<1>4. Start(n, k, 1) = 0
  <2>1. 0 * q = 0 /\ skew(1) = 0
    BY <1>1
  <2> QED
    BY <1>2, <2>1
<1>5. Start(n, k, k + 1) = n
  <2>1. (k + 1) - 1 = k /\ skew(k + 1) = r
    BY <1>1
  <2> HIDE DEF skew
  <2> QED
    BY <1>1, <1>2, <2>1
<1>6. ASSUME NEW i \in 1 .. k + 1 PROVE Start(n, k, i) \in 0 .. n
  <2>1. k * q \in Nat /\ skew(i) \in 0 .. r /\ (i - 1) * q \in Nat /\ (i - 1) * q <= k * q
    BY <1>1, <1>3, Times
  <2>2. Start(n, k, i) = (i - 1) * q + skew(i)
    BY <1>2
  <2> HIDE DEF skew
  <2> QED
    BY <1>1, <2>1, <2>2
<1>7. ASSUME NEW i \in 1 .. k
      PROVE  Start(n, k, i + 1) = Start(n, k, i) + q + (IF i - 1 < r THEN 1 ELSE 0)
  <2>1. skew(i + 1) = skew(i) + (IF i - 1 < r THEN 1 ELSE 0)
    BY <1>1
  <2>2. ((i + 1) - 1) * q = (i - 1) * q + q
    BY <1>1
  <2>3. (i - 1) * q \in Nat /\ skew(i) \in Int
    BY <1>1, <1>3
  <2> HIDE DEF skew
  <2> QED
    BY <1>1, <1>2, <2>1, <2>2, <2>3
<1>8. \A i \in 1 .. k : i \in 1 .. k + 1 /\ i + 1 \in 1 .. k + 1
  OBVIOUS
<1> QED
  BY <1>4, <1>5, <1>6, <1>7, <1>8 DEF q, r

\* As few chunks as the limit allows, so no chunk is over it.
LEMMA CeilDivFacts ==
  ASSUME NEW n \in Nat, NEW max \in Nat \ {0}
  PROVE  /\ CeilDiv(n, max) \in Nat
         /\ n > 0 => CeilDiv(n, max) > 0
         /\ n > 0 /\ n <= max => CeilDiv(n, max) = 1
         /\ n > 0 => (n \div CeilDiv(n, max)) + (IF n % CeilDiv(n, max) > 0 THEN 1 ELSE 0)
                       <= max
<1> DEFINE m == n + max - 1
           k == m \div max
           q == n \div k
           r == n % k
<1>1. CeilDiv(n, max) = k
  BY DEF CeilDiv
<1>2. /\ k \in Nat /\ m % max \in Nat /\ m % max < max /\ m = max * k + (m % max)
  <2>1. m \in Nat /\ max \in Nat /\ max > 0
    OBVIOUS
  <2> HIDE DEF m
  <2> QED
    BY <2>1, Division
<1> HIDE DEF k
<1>3. max * k \in Nat /\ max * k >= n /\ max * k < n + max
  <2>1. max * k \in Nat
    BY <1>2, Times
  <2> DEFINE p == max * k
             d == m % max
  <2>2. p \in Nat /\ d \in Nat /\ d < max /\ n + max - 1 = p + d
    BY <1>2, <2>1
  <2> HIDE DEF p, d
  <2>3. p >= n /\ p < n + max
    BY <2>2
  <2> QED
    BY <2>1, <2>3 DEF p
<1>4. n > 0 => k > 0
  <2>1. k = 0 => max * k = 0
    OBVIOUS
  <2> QED
    BY <1>2, <1>3, <2>1
<1>5. n > 0 /\ n <= max => k = 1
  <2> SUFFICES ASSUME n > 0, n <= max, k # 1 PROVE FALSE
    OBVIOUS
  <2>1. k >= 2 /\ k \in Nat
    BY <1>2, <1>4
  <2>2. k * max >= 2 * max /\ k * max = max * k
    BY <2>1, Times
  <2> QED
    BY <1>3, <2>2
<1>6. ASSUME n > 0 PROVE q + (IF r > 0 THEN 1 ELSE 0) <= max
  <2>1. q \in Nat /\ r \in Nat /\ r < k /\ n = k * q + r
    BY <1>2, <1>4, <1>6, Division
  <2> HIDE DEF q, r
  <2>2. k * q <= k * max
    <3>1. k * q \in Nat /\ k * max = max * k
      BY <1>2, <2>1, Times
    <3> QED
      BY <1>3, <2>1, <3>1
  <2>3. q <= max
    BY <1>2, <1>4, <1>6, <2>1, <2>2, Times
  <2>4. CASE q = max
    <3>1. n = k * max + r /\ k * max = max * k
      BY <1>2, <2>1, <2>4, Times
    <3>2. r = 0
      BY <1>3, <2>1, <3>1
    <3> QED
      BY <2>1, <2>4, <3>2
  <2>5. CASE q # max
    BY <2>1, <2>3, <2>5
  <2> QED
    BY <2>4, <2>5
<1> QED
  BY <1>1, <1>2, <1>4, <1>5, <1>6 DEF q, r

\* c cuts s into k chunks, the first ones a card more.
Cuts(s, k, c) ==
  /\ Len(c) = k
  /\ \A i \in 1 .. k :
       /\ c[i] = SubSeq(s, Start(Len(s), k, i) + 1, Start(Len(s), k, i + 1))
       /\ Len(c[i]) = (Len(s) \div k) + (IF i - 1 < Len(s) % k THEN 1 ELSE 0)

\* chunk_cards cuts the cards into as few chunks as the limit allows.
LEMMA ChunksFacts ==
  ASSUME NEW X, NEW s \in Seq(X), NEW max \in Nat \ {0}
  PROVE  /\ Len(s) <= max => Chunks(s, max) = <<s>>
         /\ Len(s) > max => /\ CeilDiv(Len(s), max) \in Nat \ {0}
                            /\ Chunks(s, max) \in Seq(Seq(X))
                            /\ Cuts(s, CeilDiv(Len(s), max), Chunks(s, max))
<1> DEFINE n == Len(s)
           k == CeilDiv(n, max)
           c == Chunks(s, max)
           sub(i) == SubSeq(s, Start(n, k, i) + 1, Start(n, k, i + 1))
<1>1. n \in Nat /\ \A j \in 1 .. n : s[j] \in X
  BY ElementOfSeq
<1>2. n <= max => c = <<s>>
  BY DEF Chunks
<1>3. CASE n > max
  <2>1. k \in Nat \ {0}
    <3>1. n > 0 /\ n \in Nat
      BY <1>1, <1>3
    <3> HIDE DEF n
    <3>2. k \in Nat /\ (n > 0 => k > 0)
      BY <3>1, CeilDivFacts, Zenon
    <3> HIDE DEF k
    <3> QED
      BY <3>1, <3>2
  <2>2. c = [i \in 1 .. k |-> sub(i)]
    BY <1>1, <1>3 DEF Chunks, Start
  <2> HIDE DEF n, k, c
  <2>3. ASSUME NEW i \in 1 .. k
        PROVE  /\ sub(i) \in Seq(X)
               /\ Len(sub(i)) = (n \div k) + (IF i - 1 < n % k THEN 1 ELSE 0)
    <3> DEFINE a == Start(n, k, i)
               b == Start(n, k, i + 1)
               d == (n \div k) + (IF i - 1 < n % k THEN 1 ELSE 0)
    <3>1. a \in 0 .. n /\ b \in 0 .. n /\ b = a + d /\ d \in Nat
      <4>1. a \in 0 .. n /\ b \in 0 .. n
        BY <1>1, <2>1, StartFacts
      <4>2. n \div k \in Nat
        BY <1>1, <2>1, Division
      <4>3. b = a + (n \div k) + (IF i - 1 < n % k THEN 1 ELSE 0)
        BY <1>1, <2>1, StartFacts
      <4> HIDE DEF a, b
      <4> QED
        BY <1>1, <4>1, <4>2, <4>3
    <3> HIDE DEF a, b, d
    <3>2. a + 1 \in Int /\ b \in Int /\ \A j \in a + 1 .. b : s[j] \in X
      BY <1>1, <3>1
    <3>3. /\ SubSeq(s, a + 1, b) \in Seq(X)
          /\ Len(SubSeq(s, a + 1, b)) = IF a + 1 <= b THEN b - (a + 1) + 1 ELSE 0
      BY <3>2, SubSeqProperties
    <3>4. Len(SubSeq(s, a + 1, b)) = d
      BY <3>1, <3>3
    <3> QED
      BY <3>3, <3>4 DEF a, b, d
  <2> HIDE DEF sub
  <2>4. c \in [1 .. k -> Seq(X)] /\ \A i \in 1 .. k : c[i] = sub(i)
    BY <2>2, <2>3
  <2>5. c \in Seq(Seq(X)) /\ Len(c) = k
    BY <2>1, <2>4
  <2>6. Cuts(s, k, c)
    BY <2>3, <2>4, <2>5 DEF Cuts, sub, n
  <2> QED
    BY <1>3, <2>1, <2>5, <2>6 DEF n, k, c
<1> QED
  BY <1>1, <1>2, <1>3

\* The ids of a sequence of cards.
LEMMA IdsFacts ==
  ASSUME NEW X, NEW s \in Seq(X)
  PROVE  Ids(s) \subseteq X /\ IsFiniteSet(Ids(s))
<1>1. Len(s) \in Nat /\ DOMAIN s = 1 .. Len(s) /\ \A i \in 1 .. Len(s) : s[i] \in X
  BY ElementOfSeq
<1>2. Ids(s) = {s[i] : i \in 1 .. Len(s)}
  BY <1>1 DEF Ids, ToSet
<1> DEFINE g == [i \in 1 .. Len(s) |-> s[i]]
<1>3. g \in Surjection(1 .. Len(s), Ids(s))
  BY <1>2 DEF Surjection
<1>4. IsFiniteSet(1 .. Len(s))
  BY <1>1, FS_Interval
<1>5. IsFiniteSet(Ids(s))
  <2> HIDE DEF g
  <2> QED
    BY <1>3, <1>4, FS_Surjection
<1> QED
  BY <1>1, <1>2, <1>5

\* A chunk has cards of its angle only.
LEMMA ChunkIds ==
  ASSUME NEW X, NEW s \in Seq(X), NEW max \in Nat \ {0},
         NEW i \in DOMAIN Chunks(s, max)
  PROVE  Ids(Chunks(s, max)[i]) \subseteq X
<1> DEFINE c == Chunks(s, max)
<1>1. c \in Seq(Seq(X))
  <2>1. CASE Len(s) <= max
    <3>1. c = <<s>>
      BY <2>1, ChunksFacts
    <3> QED
      BY <3>1
  <2>2. CASE Len(s) > max
    BY <2>2, ChunksFacts
  <2> QED
    BY <2>1, <2>2
<1> HIDE DEF c
<1>2. c[i] \in Seq(X)
  <2>1. DOMAIN c = 1 .. Len(c)
    BY <1>1
  <2>2. i \in 1 .. Len(c)
    BY <2>1 DEF c
  <2> QED
    BY <1>1, <2>2, ElementOfSeq
<1> QED
  BY <1>2, IdsFacts DEF c

-----------------------------------------------------------------------------
(* Chunks put together again.                                              *)

\* What TLA+ says of a flattening's recursive definition.
Flattens(seqs, f) ==
  /\ f[1] = seqs[1]
  /\ \A i \in 1 .. Len(seqs) : i # 1 => f[i] = f[i - 1] \o seqs[i]
  /\ FlattenSeq(seqs) = f[Len(seqs)]

\* The recursion of a flattening has a solution.
LEMMA FlattenUnfolds ==
  ASSUME NEW X, NEW seqs \in Seq(Seq(X)), Len(seqs) # 0
  PROVE  \E f : Flattens(seqs, f)
<1> DEFINE N == Len(seqs)
           D == 1 .. N
           V == Seq(X)
           r == [i \in D |-> i]
           Step(i, g) == IF i = 1 THEN seqs[i] ELSE g[i - 1] \o seqs[i]
           H == [i \in D |-> [g \in [D -> V] |-> Step(i, g)]]
           Is(f) == f = [i \in D |-> Step(i, f)]
           flatten == CHOOSE f : Is(f)
<1>1. N \in Nat /\ N > 0 /\ r \in [D -> 0 .. N]
  <2>1. N \in Nat /\ N # 0
    OBVIOUS
  <2> HIDE DEF N
  <2> QED
    BY <2>1
<1>2. ASSUME NEW i \in D, NEW g \in [D -> V] PROVE Step(i, g) \in V
  <2>1. seqs[i] \in V
    BY ElementOfSeq
  <2>2. i # 1 => g[i - 1] \in V
    <3>1. i # 1 => i - 1 \in D
      BY <1>1
    <3> QED
      BY <3>1
  <2>3. i # 1 => g[i - 1] \o seqs[i] \in V
    BY <2>1, <2>2, ConcatProperties
  <2> QED
    BY <2>1, <2>3
<1>3. H \in [D -> [[D -> V] -> V]]
  <2> HIDE DEF Step, V, D
  <2> QED
    BY <1>2
<1>4. ASSUME NEW i \in D, NEW g \in [D -> V], NEW h \in [D -> V],
             \A j \in D : r[j] < r[i] => g[j] = h[j]
      PROVE  H[i][g] = H[i][h]
  <2>1. i # 1 => i - 1 \in D /\ i - 1 < i
    BY <1>1
  <2>2. i # 1 => g[i - 1] = h[i - 1]
    BY <1>4, <2>1
  <2>3. Step(i, g) = Step(i, h)
    BY <2>2
  <2> HIDE DEF Step, V, D
  <2> QED
    BY <2>3
<1>5. \E f \in [D -> V] : \A i \in D : f[i] = H[i][f]
  <2>1. Descends(D, V, N, r, H)
    <3>1. V # {}
      BY EmptySeq
    <3> HIDE DEF D, V, N, r, H
    <3> QED
      BY <1>1, <1>3, <1>4, <3>1 DEF Descends
  <2> HIDE DEF D, V, N, r, H
  <2> QED
    BY <2>1, RankRecursion
<1>6. Is(flatten)
  <2>1. PICK f \in [D -> V] : \A i \in D : f[i] = H[i][f]
    BY <1>5
  <2>2. \A i \in D : f[i] = Step(i, f)
    <3> HIDE DEF Step, V, D
    <3> QED
      BY <2>1
  <2>3. f = [i \in D |-> Step(i, f)]
    <3> HIDE DEF Step, D
    <3> QED
      BY <2>1, <2>2
  <2>4. \E f1 : Is(f1)
    <3> HIDE DEF Step, D
    <3> QED
      BY <2>3
  <2> HIDE DEF Is
  <2> QED
    BY <2>4
<1>7. FlattenSeq(seqs) = flatten[N]
  BY DEF FlattenSeq
<1> HIDE DEF flatten
<1>8. \A i \in D : flatten[i] = Step(i, flatten)
  <2> HIDE DEF Step, D
  <2> QED
    BY <1>6
<1>9. 1 \in D
  BY <1>1
<1>10. Flattens(seqs, flatten)
  BY <1>7, <1>8, <1>9 DEF Flattens
<1> QED
  BY <1>10

\* Chunking never drops, repeats or reorders a card, whatever the number of
\* cards and the limit: the chunks one after the other are the cards.
LEMMA CutsFlatten ==
  ASSUME NEW X, NEW s \in Seq(X), NEW k \in Nat \ {0}, NEW c \in Seq(Seq(X)),
         Cuts(s, k, c)
  PROVE  FlattenSeq(c) = s
<1> DEFINE n == Len(s)
<1>1. Len(c) = k /\ n \in Nat
  BY DEF Cuts
<1>2. PICK f : Flattens(c, f)
  BY <1>1, FlattenUnfolds
<1>3. /\ \A i \in 1 .. k : c[i] = SubSeq(s, Start(n, k, i) + 1, Start(n, k, i + 1))
      /\ f[1] = c[1] /\ \A i \in 1 .. k : i # 1 => f[i] = f[i - 1] \o c[i]
      /\ FlattenSeq(c) = f[k]
  BY <1>1, <1>2 DEF Flattens, Cuts
<1> HIDE DEF n
<1>4. /\ Start(n, k, 1) = 0 /\ Start(n, k, k + 1) = n
      /\ \A i \in 1 .. k : /\ Start(n, k, i) \in 0 .. n /\ Start(n, k, i + 1) \in 0 .. n
                          /\ Start(n, k, i + 1) >= Start(n, k, i)
  <2>1. n \div k \in Nat
    BY <1>1, Division
  <2>2. /\ Start(n, k, 1) = 0 /\ Start(n, k, k + 1) = n
        /\ \A i \in 1 .. k : /\ Start(n, k, i) \in 0 .. n /\ Start(n, k, i + 1) \in 0 .. n
                            /\ Start(n, k, i + 1) = Start(n, k, i) + (n \div k)
                                                      + (IF i - 1 < n % k THEN 1 ELSE 0)
    BY <1>1, StartFacts
  <2>3. ASSUME NEW i \in 1 .. k PROVE Start(n, k, i + 1) >= Start(n, k, i)
    <3> DEFINE q == n \div k
               a == Start(n, k, i)
               b == Start(n, k, i + 1)
               e == IF i - 1 < n % k THEN 1 ELSE 0
    <3>1. b = a + q + e /\ a \in 0 .. n
      BY <2>2
    <3>2. e \in Nat /\ q \in Nat
      BY <2>1
    <3> HIDE DEF q, a, b, e
    <3>3. b >= a
      BY <1>1, <3>1, <3>2
    <3> QED
      BY <3>3 DEF a, b
  <2> QED
    BY <2>2, <2>3
<1> DEFINE P == {m \in Nat : m < k => f[m + 1] = SubSeq(s, 1, Start(n, k, m + 2))}
<1>5. 0 \in P
  <2>1. 1 \in 1 .. k /\ 1 + 1 = 2 /\ 0 + 2 = 2 /\ 0 + 1 = 1
    OBVIOUS
  <2>2. c[1] = SubSeq(s, Start(n, k, 1) + 1, Start(n, k, 2))
    BY <1>3, <2>1
  <2> QED
    BY <1>3, <1>4, <2>1, <2>2
<1>6. ASSUME NEW m \in Nat, m \in P PROVE m + 1 \in P
  <2> SUFFICES ASSUME m + 1 < k
               PROVE  f[m + 2] = SubSeq(s, 1, Start(n, k, m + 3))
    BY DEF P
  <2> DEFINE a == Start(n, k, m + 2)
             b == Start(n, k, m + 3)
  <2>1. m + 2 \in 1 .. k /\ m + 2 # 1 /\ (m + 2) - 1 = m + 1 /\ (m + 2) + 1 = m + 3 /\ m < k
    OBVIOUS
  <2>2. f[m + 2] = f[m + 1] \o c[m + 2]
    BY <1>3, <2>1
  <2>3. f[m + 1] = SubSeq(s, 1, a) /\ c[m + 2] = SubSeq(s, a + 1, b)
    BY <1>3, <1>6, <2>1
  <2>4. a \in 0 .. n /\ b \in 0 .. n /\ b >= a
    BY <1>4, <2>1
  <2> HIDE DEF a, b
  <2>5. SubSeq(s, 1, a) \o SubSeq(s, a + 1, b) = SubSeq(s, 1, b)
    <3>1. 1 \in 1 .. Len(s) + 1 /\ a \in 1 - 1 .. Len(s) /\ b \in a .. Len(s)
      BY <1>1, <2>4 DEF n
    <3> QED
      BY <3>1, ConcatAdjacentSubSeq
  <2> QED
    BY <2>2, <2>3, <2>5 DEF b
<1>7. k - 1 \in P
  <2>1. k - 1 \in Nat
    OBVIOUS
  <2> HIDE DEF P
  <2>2. Nat \subseteq P
    BY <1>5, <1>6, NatInduct
  <2> QED
    BY <2>1, <2>2
<1>8. f[k] = SubSeq(s, 1, n)
  <2>1. k - 1 < k /\ (k - 1) + 1 = k /\ (k - 1) + 2 = k + 1
    OBVIOUS
  <2> QED
    BY <1>4, <1>7, <2>1
<1>9. SubSeq(s, 1, n) = s
  BY SubSeqFull DEF n
<1> QED
  BY <1>3, <1>8, <1>9

\* The chunks are the cards in their order, none is over the limit or more
\* than a card longer than another, and there are as few as the limit allows.
THEOREM ChunksAreRight ==
  ASSUME NEW X, NEW s \in Seq(X), NEW max \in Nat \ {0}
  PROVE  ChunkedRight(s, max)
<1> DEFINE n == Len(s)
           k == CeilDiv(n, max)
           c == Chunks(s, max)
<1>1. n \in Nat
  OBVIOUS
<1>2. CASE n <= max
  <2>1. c = <<s>>
    BY <1>2, ChunksFacts
  <2>2. c \in Seq(Seq(X)) /\ Len(c) = 1 /\ c[1] = s /\ DOMAIN c = {1}
    BY <2>1
  <2> HIDE DEF c
  <2>3. FlattenSeq(c) = s
    <3>1. PICK f : Flattens(c, f)
      BY <2>2, FlattenUnfolds
    <3> QED
      BY <2>2, <3>1 DEF Flattens
  <2>4. n > 0 => Len(c) = k
    <3> HIDE DEF n
    <3>1. n > 0 => k = 1
      BY <1>1, <1>2, CeilDivFacts, Zenon
    <3> QED
      BY <2>2, <3>1
  <2>5. \A i, j \in DOMAIN c : Len(c[i]) <= max /\ Len(c[i]) <= Len(c[j]) + 1
    BY <1>1, <1>2, <2>2
  <2> QED
    BY <2>3, <2>4, <2>5 DEF ChunkedRight, c
<1>3. CASE n > max
  <2>1. k \in Nat \ {0} /\ c \in Seq(Seq(X)) /\ Cuts(s, k, c)
    BY <1>3, ChunksFacts
  <2> HIDE DEF c, k
  <2>2. FlattenSeq(c) = s
    BY <2>1, CutsFlatten
  <2>3. Len(c) = k /\ DOMAIN c = 1 .. k
    BY <2>1 DEF Cuts
  <2> DEFINE q == n \div k
             r == n % k
             e(i) == IF i - 1 < r THEN 1 ELSE 0
  <2>4. q \in Nat /\ r \in Nat
    <3>1. k > 0 /\ k \in Nat
      BY <2>1
    <3> HIDE DEF n
    <3> QED
      BY <1>1, <3>1, Division
  <2>5. q + (IF r > 0 THEN 1 ELSE 0) <= max
    <3>1. n > 0
      BY <1>1, <1>3
    <3> HIDE DEF n
    <3> QED
      BY <1>1, <3>1, CeilDivFacts, Zenon DEF k
  <2>6. \A i \in 1 .. k : Len(c[i]) = q + e(i)
    BY <2>1 DEF Cuts
  <2> HIDE DEF q, r, n
  <2>7. \A i \in 1 .. k : e(i) \in {0, 1} /\ q + e(i) <= max
    BY <2>4, <2>5
  <2> HIDE DEF e
  <2>8. \A i, j \in DOMAIN c : Len(c[i]) <= max /\ Len(c[i]) <= Len(c[j]) + 1
    BY <2>3, <2>4, <2>6, <2>7
  <2> QED
    BY <2>2, <2>3, <2>8 DEF ChunkedRight, c, k, n
<1> QED
  BY <1>1, <1>2, <1>3

-----------------------------------------------------------------------------
(* The run: what is on disk, and in which phase.                           *)

\* A batch file that names no rubric yet to come.
BatchOf(r) == [ids : SUBSET Nat, rubric : 0 .. r]

Typed ==
  /\ cards \in [Angles -> Seq(DOMAIN Verdict)] /\ rubric \in Nat \ {0}
  /\ batch \in [Angles -> BatchOf(rubric)]
  /\ part \in [Angles -> [Parts -> BatchOf(rubric)]]
  /\ unlink \in [Angles -> SUBSET Parts]
  /\ proc \in {"idle", "screening", "scored", "done", "collision",
               "loop-screen", "loop-seat"}

\* Scores come after screening, the list after the scores, and a mini-loop's
\* cards join the scores when its screening is done.
Phases ==
  /\ proc \in {"screening", "collision"} => scores = {}
  /\ scores = {} => list = NoList
  /\ proc \in {"done", "loop-screen", "loop-seat"} => list # NoList
  /\ list # NoList => list.finalists # {}
  /\ proc \notin {"loop-screen", "loop-seat"} => loop = {}
  /\ proc # "loop-screen" => loop \subseteq scores

\* The scores and a mini-loop's cards are options of the cards of the moment,
\* and every card is among them but those of interrupted mini-loops.
Covers(options, table, gone) ==
  /\ \A o \in options : o.id \in Ids(table[o.angle]) /\ o.id \notin gone
  /\ \A a \in Angles : \A x \in Ids(table[a]) \ gone : \E o \in options : o.id = x

\* They are on the rubric of n edits ago, a mini-loop's on that or a later one.
Dated(options, r, n, new) ==
  \A o \in options : o.rubric \in r - n .. r /\ (o.id \notin new => o.rubric = r - n)

Covered ==
  /\ Screened(scores \cup loop)
  /\ scores # {} =>
       Covers(scores \cup loop, cards, lost) /\ Dated(scores \cup loop, rubric, late, scouted)

\* What the histories remember is of these scores, and of cards that are there.
Past ==
  /\ late \in 0 .. rubric
  /\ lost \cup unseated \subseteq scouted /\ scouted \subseteq Nat /\ lost \subseteq Known
  /\ \A o \in loop : o.id \in scouted
  /\ scores = {} => late = 0 /\ scouted = {} /\ lost = {} /\ unseated = {}
  /\ proc = "loop-screen" => loop \cap scores = {}

\* The list keeps to its cap and decides every scored option, but those of
\* interrupted mini-loops.
Capped(l) ==
  /\ IsFiniteSet(l.finalists) /\ Cardinality(l.finalists) <= MaxFinalists
  /\ l.finalists \subseteq DOMAIN l.cause
Listed ==
  /\ Capped(list)
  /\ list # NoList =>
       \A o \in scores :
         o.id \in DOMAIN list.cause \cup unseated \cup {p.id : p \in loop}

IInv == Typed /\ Phases /\ Covered /\ Past /\ Listed

\* What the instance of the model is assumed to be.
LEMMA ConstantFacts ==
  /\ DOMAIN Verdict \subseteq Nat
  /\ \A x \in DOMAIN Verdict : Verdict[x].ucb \in Nat /\ Verdict[x].kill \in BOOLEAN
  /\ CardSets \subseteq [Angles -> Seq(DOMAIN Verdict)]
  /\ IsFiniteSet(LoopCards) /\ LoopCards \subseteq DOMAIN Verdict
  /\ \A options \in Options : Screened(options)
  /\ MaxBatch \in Nat \ {0}
BY ScreeningAssumption DEF ScreeningAssumption

\* An angle's cards, and the cards of its chunks, are ids with a verdict.
LEMMA CardIdsFacts ==
  ASSUME Typed, NEW a \in Angles
  PROVE  /\ cards[a] \in Seq(DOMAIN Verdict)
         /\ Ids(cards[a]) \subseteq DOMAIN Verdict /\ Ids(cards[a]) \subseteq Nat
         /\ IsFiniteSet(Ids(cards[a]))
         /\ \A i \in DOMAIN ChunksOf(a) : Ids(ChunksOf(a)[i]) \subseteq Nat
<1>1. cards[a] \in Seq(DOMAIN Verdict) /\ DOMAIN Verdict \subseteq Nat
  BY ConstantFacts DEF Typed
<1>2. Ids(cards[a]) \subseteq DOMAIN Verdict /\ IsFiniteSet(Ids(cards[a]))
  BY <1>1, IdsFacts
<1>3. ASSUME NEW i \in DOMAIN ChunksOf(a)
      PROVE  Ids(ChunksOf(a)[i]) \subseteq DOMAIN Verdict
  BY <1>1, ConstantFacts, ChunkIds DEF ChunksOf
<1> QED
  BY <1>1, <1>2, <1>3

\* A reply that coheres is a batch of the moment.
LEMMA ReplyFits ==
  ASSUME rubric \in Nat, NEW own \in SUBSET Nat, NEW b \in Reply(own), Coheres(b, own)
  PROVE  b \in BatchOf(rubric)
<1>1. PICK ids : b = [ids |-> ids, rubric |-> rubric]
  BY DEF Reply
<1>2. b.ids = own
  BY DEF Coheres
<1>3. b = [ids |-> own, rubric |-> rubric]
  BY <1>1, <1>2
<1>4. rubric \in 0 .. rubric
  OBVIOUS
<1> QED
  BY <1>3, <1>4 DEF BatchOf

\* A batch keeps its type when the rubric is edited.
LEMMA BatchesFit ==
  ASSUME NEW r \in Nat
  PROVE  NoBatch \in BatchOf(r) /\ BatchOf(r) \subseteq BatchOf(r + 1)
BY DEF NoBatch, BatchOf

\* A human's hand-rename keeps ids ids.
LEMMA RenameTyped ==
  ASSUME Typed, NEW a \in Angles, Rename(a)
  PROVE  cards' \in [Angles -> Seq(DOMAIN Verdict)] /\ batch' \in [Angles -> BatchOf(rubric)]
<1> DEFINE s == cards[a]
<1>1. PICK i \in DOMAIN s :
        /\ s[i] + 10 \in DOMAIN Verdict
        /\ cards' = [cards EXCEPT ![a] = [s EXCEPT ![i] = s[i] + 10]]
        /\ \E both \in BOOLEAN : batch' =
             IF both THEN [batch EXCEPT ![a].ids = (@ \ {s[i]}) \cup {s[i] + 10}] ELSE batch
  BY DEF Rename
<1>2. s \in Seq(DOMAIN Verdict)
  BY CardIdsFacts
<1>3. [s EXCEPT ![i] = s[i] + 10] \in Seq(DOMAIN Verdict)
  <2>1. s \in [1 .. Len(s) -> DOMAIN Verdict] /\ Len(s) \in Nat
    BY <1>2
  <2>2. [s EXCEPT ![i] = s[i] + 10] \in [1 .. Len(s) -> DOMAIN Verdict]
    BY <1>1, <2>1
  <2> HIDE DEF s
  <2> QED
    BY <2>1, <2>2, SeqDef
<1>4. cards' \in [Angles -> Seq(DOMAIN Verdict)]
  <2> HIDE DEF s
  <2> QED
    BY <1>1, <1>3 DEF Typed
<1>5. s[i] + 10 \in Nat
  BY <1>1, ConstantFacts
<1>6. batch[a] = [ids |-> batch[a].ids, rubric |-> batch[a].rubric]
      /\ batch[a].ids \subseteq Nat /\ batch[a].rubric \in 0 .. rubric
  BY DEF Typed, BatchOf
<1>7. [batch[a] EXCEPT !.ids = (@ \ {s[i]}) \cup {s[i] + 10}] \in BatchOf(rubric)
  <2> HIDE DEF s
  <2> QED
    BY <1>5, <1>6 DEF BatchOf
<1>8. batch' \in [Angles -> BatchOf(rubric)]
  <2> HIDE DEF s
  <2> QED
    BY <1>1, <1>7 DEF Typed
<1> QED
  BY <1>4, <1>8

\* A set of cards as the sequence a scout leaves.
LEMMA SetToSeqFacts ==
  ASSUME NEW X, NEW S \in SUBSET X, IsFiniteSet(S)
  PROVE  SetToSeq(S) \in Seq(X) /\ Ids(SetToSeq(S)) = S
<1> DEFINE n == Cardinality(S)
           q == SetToSeq(S)
<1>1. n \in Nat /\ ExistsBijection(1 .. n, S)
  BY FS_CardinalityType
<1>2. \E f \in [1 .. n -> S] : IsInjective(f)
  BY <1>1 DEF ExistsBijection, Bijection, Injection
<1>3. q \in [1 .. n -> S] /\ IsInjective(q)
  BY <1>2 DEF SetToSeq
<1>4. IsFiniteSet(1 .. n) /\ Cardinality(1 .. n) = n
  <2>1. 1 \in Int /\ n \in Int
    BY <1>1
  <2>2. /\ IsFiniteSet(1 .. n)
        /\ Cardinality(1 .. n) = IF 1 > n THEN 0 ELSE n - 1 + 1
    BY <2>1, FS_Interval, Zenon
  <2> QED
    BY <1>1, <2>2
<1>5. q \in Surjection(1 .. n, S)
  <2>1. q \in Injection(1 .. n, S)
    BY <1>3 DEF Injection
  <2> QED
    BY <1>4, <2>1, FS_Injection
<1> HIDE DEF q
<1>6. q \in Seq(S) /\ DOMAIN q = 1 .. n
  BY <1>1, <1>3, SeqDef
<1>7. q \in Seq(X)
  BY <1>6, SeqMonotonic
<1>8. Ids(q) = S
  BY <1>3, <1>5, <1>6 DEF Ids, ToSet, Surjection
<1> QED
  BY <1>7, <1>8 DEF q

\* The ids of two sequences one after the other.
LEMMA IdsOfBoth ==
  ASSUME NEW X, NEW s \in Seq(X), NEW t \in Seq(X)
  PROVE  s \o t \in Seq(X) /\ Ids(s \o t) = Ids(s) \cup Ids(t)
<1>1. /\ s \o t \in Seq(X) /\ Len(s \o t) = Len(s) + Len(t)
      /\ \A i \in 1 .. Len(s) + Len(t) :
           (s \o t)[i] = IF i <= Len(s) THEN s[i] ELSE t[i - Len(s)]
  BY ConcatProperties
<1>2. Len(s) \in Nat /\ Len(t) \in Nat /\ DOMAIN s = 1 .. Len(s) /\ DOMAIN t = 1 .. Len(t)
  OBVIOUS
<1>3. DOMAIN (s \o t) = 1 .. Len(s) + Len(t)
  BY <1>1
<1> DEFINE u == s \o t
<1> HIDE DEF u
<1>4. \A i \in DOMAIN s : i \in DOMAIN u /\ u[i] = s[i]
  BY <1>1, <1>2, <1>3 DEF u
<1>5. ASSUME NEW i \in DOMAIN t PROVE Len(s) + i \in DOMAIN u /\ u[Len(s) + i] = t[i]
  <2>1. Len(s) + i \in 1 .. Len(s) + Len(t) /\ ~(Len(s) + i <= Len(s)) /\ (Len(s) + i) - Len(s) = i
    BY <1>2
  <2> QED
    BY <1>1, <1>3, <2>1 DEF u
<1>6. ASSUME NEW i \in DOMAIN u
      PROVE  (\E j \in DOMAIN s : u[i] = s[j]) \/ (\E j \in DOMAIN t : u[i] = t[j])
  <2>1. i \in 1 .. Len(s) + Len(t)
    BY <1>3 DEF u
  <2>2. i <= Len(s) => i \in DOMAIN s
    BY <1>2, <2>1
  <2>3. ~(i <= Len(s)) => i - Len(s) \in DOMAIN t
    BY <1>2, <2>1
  <2> QED
    BY <1>1, <2>1, <2>2, <2>3 DEF u
<1>7. Ids(u) = Ids(s) \cup Ids(t)
  BY <1>4, <1>5, <1>6 DEF Ids, ToSet
<1> QED
  BY <1>1, <1>7 DEF u

\* Option records of cards: one a card, on the rubric of the moment.
LEMMA ScoredFacts ==
  ASSUME NEW a \in Angles, NEW ids \in SUBSET DOMAIN Verdict, IsFiniteSet(ids)
  PROVE  /\ Screened(Scored(a, ids))
         /\ \A o \in Scored(a, ids) : o.rubric = rubric /\ o.angle = a /\ o.id \in ids
         /\ \A x \in ids : \E o \in Scored(a, ids) : o.id = x
<1> DEFINE of(x) == [id |-> x, angle |-> a, ucb |-> Verdict[x].ucb, kill |-> Verdict[x].kill,
                     rubric |-> rubric]
           g == [x \in ids |-> of(x)]
           S == Scored(a, ids)
<1>1. S = {of(x) : x \in ids}
  BY DEF Scored
<1>2. \A x \in ids : of(x).id = x /\ of(x).angle = a /\ of(x).rubric = rubric
                      /\ of(x).ucb = Verdict[x].ucb /\ of(x).kill = Verdict[x].kill
  OBVIOUS
<1> HIDE DEF of, S
<1>3. IsFiniteSet(S)
  <2>1. g \in Surjection(ids, S)
    BY <1>1 DEF Surjection
  <2> HIDE DEF g
  <2> QED
    BY <2>1, FS_Surjection
<1>4. \A o \in S : /\ o.rubric = rubric /\ o.angle = a /\ o.id \in ids
                  /\ o.ucb = Verdict[o.id].ucb /\ o.kill = Verdict[o.id].kill
                  /\ o = of(o.id)
  BY <1>1, <1>2
<1>5. Screened(S)
  BY <1>3, <1>4, ConstantFacts DEF Screened, Angles
<1>6. \A x \in ids : \E o \in S : o.id = x
  BY <1>1, <1>2
<1> QED
  BY <1>4, <1>5, <1>6 DEF S

\* Every step keeps the files' types.
LEMMA TypedStep ==
  ASSUME Typed, [Next]_vars
  PROVE  Typed'
<1> USE DEF files, history, bounds
<1>1. rubric \in Nat /\ rubric + 1 \in Nat \ {0}
  BY DEF Typed
<1>2. ASSUME NEW a \in Angles, ScreenAngle(a) PROVE Typed'
  <2>1. Ids(cards[a]) \in SUBSET Nat
    BY CardIdsFacts
  <2>2. PICK b \in Reply(Ids(cards[a])) :
          Coheres(b, Ids(cards[a])) /\ batch' = [batch EXCEPT ![a] = b]
    BY <1>2 DEF ScreenAngle
  <2>3. b \in BatchOf(rubric)
    BY <1>1, <2>1, <2>2, ReplyFits
  <2>4. batch' \in [Angles -> BatchOf(rubric)]
    BY <2>2, <2>3 DEF Typed
  <2> QED
    BY <1>2, <2>4 DEF Typed, ScreenAngle
<1>3. ASSUME NEW a \in Angles, NEW i \in Parts, ScreenChunk(a, i) PROVE Typed'
  <2> DEFINE own == Ids(ChunksOf(a)[i])
  <2>1. own \in SUBSET Nat
    BY <1>3, CardIdsFacts DEF ScreenChunk
  <2>2. PICK b \in Reply(own) : Coheres(b, own) /\ part' = [part EXCEPT ![a][i] = b]
    BY <1>3 DEF ScreenChunk
  <2> HIDE DEF own
  <2>3. b \in BatchOf(rubric)
    BY <1>1, <2>1, <2>2, ReplyFits
  <2>4. part' \in [Angles -> [Parts -> BatchOf(rubric)]]
    BY <2>2, <2>3 DEF Typed
  <2> QED
    BY <1>3, <2>4 DEF Typed, ScreenChunk
<1>4. ASSUME NEW a \in Angles, MergeParts(a) PROVE Typed'
  <2> DEFINE D == DOMAIN ChunksOf(a)
             ids == UNION {part[a][i].ids : i \in D}
  <2>1. /\ D \subseteq Parts /\ batch' = [batch EXCEPT ![a] = [ids |-> ids, rubric |-> rubric]]
        /\ unlink' = [unlink EXCEPT ![a] = D]
    BY <1>4 DEF MergeParts
  <2> HIDE DEF D
  <2>2. \A i \in D : part[a][i].ids \subseteq Nat
    BY <2>1 DEF Typed, BatchOf
  <2>3. ids \in SUBSET Nat
    BY <2>2
  <2> HIDE DEF ids
  <2>4. [ids |-> ids, rubric |-> rubric] \in BatchOf(rubric)
    BY <1>1, <2>3 DEF BatchOf
  <2>5. batch' \in [Angles -> BatchOf(rubric)] /\ unlink' \in [Angles -> SUBSET Parts]
    BY <2>1, <2>4 DEF Typed
  <2> QED
    BY <1>4, <2>5 DEF Typed, MergeParts
<1>5. ASSUME NEW a \in Angles, DropPart(a) PROVE Typed'
  <2>1. PICK i : /\ part' = [part EXCEPT ![a][i] = NoBatch]
                 /\ unlink' = [unlink EXCEPT ![a] = @ \ {i}]
    BY <1>5 DEF DropPart
  <2>2. NoBatch \in BatchOf(rubric)
    BY <1>1, BatchesFit
  <2>3. part' \in [Angles -> [Parts -> BatchOf(rubric)]]
    BY <2>1, <2>2 DEF Typed
  <2>4. unlink' \in [Angles -> SUBSET Parts]
    BY <2>1 DEF Typed
  <2> QED
    BY <1>5, <2>3, <2>4 DEF Typed, DropPart
<1>6. ASSUME NEW a \in Angles, Rename(a) PROVE Typed'
  <2>1. cards' \in [Angles -> Seq(DOMAIN Verdict)] /\ batch' \in [Angles -> BatchOf(rubric)]
    BY <1>6, RenameTyped
  <2> QED
    BY <1>6, <2>1 DEF Typed, Rename
<1>7. ASSUME NEW a \in Angles, LoopScout(a) PROVE Typed'
  <2>1. PICK new \in SUBSET LoopCards : cards' = [cards EXCEPT ![a] = @ \o SetToSeq(new)]
    BY <1>7 DEF LoopScout
  <2>2. new \in SUBSET DOMAIN Verdict /\ IsFiniteSet(new)
    BY <2>1, ConstantFacts, FS_Subset
  <2>3. cards[a] \o SetToSeq(new) \in Seq(DOMAIN Verdict)
    BY <2>2, CardIdsFacts, SetToSeqFacts, IdsOfBoth
  <2>4. cards' \in [Angles -> Seq(DOMAIN Verdict)]
    BY <2>1, <2>3 DEF Typed
  <2> QED
    BY <1>7, <2>4 DEF Typed, LoopScout
<1>8. CASE EditRubric
  <2>1. rubric' = rubric + 1
    BY <1>8 DEF EditRubric
  <2>2. BatchOf(rubric) \subseteq BatchOf(rubric + 1)
    BY <1>1, BatchesFit
  <2>3. batch \in [Angles -> BatchOf(rubric + 1)]
    BY <2>2 DEF Typed
  <2>4. part \in [Angles -> [Parts -> BatchOf(rubric + 1)]]
    BY <2>2 DEF Typed
  <2> QED
    BY <1>1, <1>8, <2>1, <2>3, <2>4 DEF Typed, EditRubric
<1>9. CASE Rerun
  <2>1. NoBatch \in BatchOf(rubric)
    BY <1>1, BatchesFit
  <2> QED
    BY <1>9, <2>1 DEF Typed, Rerun
<1>10. CASE Interrupt
  BY <1>10 DEF Typed, Interrupt
<1>11. CASE LoopInterrupt
  BY <1>11 DEF Typed, LoopInterrupt
<1>12. CASE Resume
  BY <1>12 DEF Typed, Resume
<1>13. CASE Merge
  BY <1>13 DEF Typed, Merge
<1>14. CASE PauseOnDupes
  BY <1>14 DEF Typed, PauseOnDupes
<1>15. CASE WriteShortlist
  BY <1>15 DEF Typed, WriteShortlist
<1>16. CASE LoopScreen
  BY <1>16 DEF Typed, LoopScreen
<1>17. CASE LoopSeat
  BY <1>17 DEF Typed, LoopSeat
<1>18. CASE UNCHANGED vars
  BY <1>18 DEF Typed, vars
<1> QED
  BY <1>2, <1>3, <1>4, <1>5, <1>6, <1>7, <1>8, <1>9, <1>10, <1>11, <1>12, <1>13, <1>14,
     <1>15, <1>16, <1>17, <1>18 DEF Next, StageStep, AngleStep

\* What build_shortlist writes, and that it has something to write about.
LEMMA WrittenFacts ==
  ASSUME Screened(scores), WriteShortlist
  PROVE  /\ RuleHolds(scores, list') /\ Capped(list')
         /\ list'.finalists # {} /\ scores # {}
         /\ DOMAIN list'.cause = {o.id : o \in scores}
<1> DEFINE S == Seated(Alive(scores))
           added == Guardrail(Alive(scores), S)
<1>1. list' = BuildShortlist(scores) /\ list'.finalists # {}
  BY DEF WriteShortlist
<1>2. Decides(scores, S, added, list') /\ RuleHolds(scores, list')
  BY <1>1, BuildDecides, RuleOfAnyScreening
<1>3. Screened(Alive(scores)) /\ Alive(scores) \subseteq scores
  <2>1. Alive(scores) \in SUBSET scores
    BY DEF Alive
  <2> QED
    BY <2>1, ScreenedPart
<1>4. SeatsOf(Alive(scores), S)
  BY <1>3, SeatedFacts
<1>5. Insures(Alive(scores), S, added)
  BY <1>3, <1>4, SeatCounts, GuardrailInsures DEF SeatsOf
<1>6. S \cup added \subseteq scores /\ Cardinality(S \cup added) <= MaxFinalists
  BY <1>3, <1>4, <1>5 DEF SeatsOf, Insures
<1> HIDE DEF S, added
<1>7. IsFiniteSet(S \cup added) /\ Cardinality(S \cup added) \in Nat
  BY <1>6, FS_Subset, FS_CardinalityType DEF Screened
<1>8. /\ list'.finalists = {o.id : o \in S \cup added}
      /\ DOMAIN list'.cause = {o.id : o \in scores}
  BY <1>2 DEF Decides
<1> DEFINE g == [o \in S \cup added |-> o.id]
<1>9. g \in Surjection(S \cup added, list'.finalists)
  BY <1>8 DEF Surjection
<1>10. /\ IsFiniteSet(list'.finalists)
       /\ Cardinality(list'.finalists) <= Cardinality(S \cup added)
  <2> HIDE DEF g
  <2> QED
    BY <1>7, <1>9, FS_Surjection
<1>11. Cardinality(list'.finalists) \in Nat
  BY <1>10, FS_CardinalityType
<1>12. Cardinality(list'.finalists) <= MaxFinalists
  BY <1>6, <1>7, <1>10, <1>11, ConfigFacts
<1>13. Capped(list')
  BY <1>6, <1>8, <1>10, <1>12 DEF Capped
<1>14. scores # {}
  BY <1>1, <1>6, <1>8
<1> QED
  BY <1>1, <1>2, <1>8, <1>13, <1>14

\* Every step keeps the phases apart.
LEMMA PhasesStep ==
  ASSUME Typed, Phases, Covered, [Next]_vars
  PROVE  Phases'
<1> USE DEF files, history, bounds
<1>1. ASSUME NEW a \in Angles, AngleStep(a) PROVE Phases'
  BY <1>1 DEF Phases, AngleStep, ScreenAngle, ScreenChunk, MergeParts, DropPart
<1>2. ASSUME NEW a \in Angles, Rename(a) PROVE Phases'
  BY <1>2 DEF Phases, Rename
<1>3. ASSUME NEW a \in Angles, LoopScout(a) PROVE Phases'
  BY <1>3 DEF Phases, LoopScout
<1>4. CASE Resume
  BY <1>4 DEF Phases, Resume
<1>5. CASE Merge
  BY <1>5 DEF Phases, Merge, Gathered
<1>6. CASE PauseOnDupes
  BY <1>6 DEF Phases, PauseOnDupes, Gathered
<1>7. CASE WriteShortlist
  <2>1. loop = {}
    BY <1>7 DEF Phases, WriteShortlist
  <2>2. Screened(scores)
    <3>1. scores \in SUBSET (scores \cup loop)
      OBVIOUS
    <3> QED
      BY <3>1, ScreenedPart DEF Covered
  <2>3. list'.finalists # {} /\ scores # {}
    BY <1>7, <2>2, WrittenFacts
  <2>4. list' # NoList
    BY <2>3 DEF NoList
  <2> QED
    BY <1>7, <2>1, <2>3, <2>4 DEF Phases, WriteShortlist
<1>8. CASE LoopScreen
  BY <1>8 DEF Phases, LoopScreen
<1>9. CASE LoopSeat
  <2>1. list # NoList /\ list.finalists # {} /\ scores # {}
    BY <1>9 DEF Phases, LoopSeat
  <2>2. list'.finalists # {}
    BY <1>9, <2>1 DEF LoopSeat
  <2>3. list' # NoList
    BY <2>2 DEF NoList
  <2> QED
    BY <1>9, <2>1, <2>2, <2>3 DEF Phases, LoopSeat
<1>10. CASE Interrupt
  BY <1>10 DEF Phases, Interrupt
<1>11. CASE EditRubric
  BY <1>11 DEF Phases, EditRubric
<1>12. CASE Rerun
  BY <1>12 DEF Phases, Rerun
<1>13. CASE LoopInterrupt
  BY <1>13 DEF Phases, LoopInterrupt
<1>14. CASE UNCHANGED vars
  BY <1>14 DEF Phases, vars
<1> QED
  BY <1>1, <1>2, <1>3, <1>4, <1>5, <1>6, <1>7, <1>8, <1>9, <1>10, <1>11, <1>12,
     <1>13, <1>14 DEF Next, StageStep

\* No options yet.
LEMMA EmptyScreened == Screened({})
BY FS_EmptySet DEF Screened

\* What is merged when every batch stands and no id is in two angles.
LEMMA MergedFacts ==
  ASSUME Typed, Merge
  PROVE  /\ Screened(scores') /\ Covers(scores', cards, {})
         /\ \A o \in scores' : o.rubric = rubric
<1> DEFINE opts(a) == Scored(a, Ids(cards[a]))
           parts == {opts(a) : a \in Angles}
<1>1. \A a \in Angles : batch[a].ids = Ids(cards[a])
  BY DEF Merge, Gathered, BatchStands, Coheres
<1>2. scores' = UNION parts
  BY <1>1 DEF Merge
<1>3. \A a, b \in Angles : a # b => Ids(cards[a]) \cap Ids(cards[b]) = {}
  BY DEF Merge, Dupes
<1>4. \A a \in Angles :
        /\ Screened(opts(a))
        /\ \A o \in opts(a) : o.rubric = rubric /\ o.angle = a /\ o.id \in Ids(cards[a])
        /\ \A x \in Ids(cards[a]) : \E o \in opts(a) : o.id = x
  BY CardIdsFacts, ScoredFacts
<1> HIDE DEF opts
<1>5. IsFiniteSet(scores')
  <2> DEFINE g == [a \in Angles |-> opts(a)]
  <2>1. g \in Surjection(Angles, parts)
    BY DEF Surjection
  <2>2. IsFiniteSet(Angles)
    BY ConfigFacts DEF Angles
  <2>3. IsFiniteSet(parts)
    <3> HIDE DEF g, parts
    <3> QED
      BY <2>1, <2>2, FS_Surjection
  <2>4. \A T \in parts : IsFiniteSet(T)
    BY <1>4 DEF Screened
  <2> HIDE DEF parts
  <2>5. IsFiniteSet(UNION parts)
    BY <2>3, <2>4, FS_UNION
  <2> QED
    BY <1>2, <2>5
<1>6. \A o \in scores' : \E a \in Angles : o \in opts(a)
  BY <1>2
<1>7. \A o \in scores' : /\ o.id \in Nat /\ o.ucb \in Nat
                        /\ o.angle \in DOMAIN Prior /\ o.kill \in BOOLEAN
  BY <1>4, <1>6 DEF Screened
<1>8. ASSUME NEW o \in scores', NEW p \in scores', o.id = p.id PROVE o = p
  <2>1. PICK a \in Angles : o \in opts(a)
    BY <1>6
  <2>2. PICK b \in Angles : p \in opts(b)
    BY <1>6
  <2>3. o.id \in Ids(cards[a]) /\ p.id \in Ids(cards[b])
    BY <1>4, <2>1, <2>2
  <2>4. a = b
    BY <1>3, <1>8, <2>3
  <2> QED
    BY <1>4, <1>8, <2>1, <2>2, <2>4 DEF Screened
<1>9. \A o \in scores' : o.rubric = rubric /\ o.id \in Ids(cards[o.angle])
  BY <1>4, <1>6
<1>10. \A a \in Angles : \A x \in Ids(cards[a]) : \E o \in scores' : o.id = x
  BY <1>2, <1>4
<1> QED
  BY <1>5, <1>7, <1>8, <1>9, <1>10 DEF Screened, Covers

\* A mini-loop's scout adds new cards and nothing else.
LEMMA ScoutedFacts ==
  ASSUME Typed, Covered, Past, scores # {}, loop = {}, NEW a \in Angles, LoopScout(a)
  PROVE  /\ Screened(scores \cup loop') /\ Covers(scores \cup loop', cards', lost)
         /\ Dated(scores \cup loop', rubric, late, scouted')
         /\ scouted \subseteq scouted' /\ scouted' \subseteq Nat
         /\ \A o \in loop' : o.id \in scouted'
         /\ loop' \cap scores = {} /\ Known \subseteq Known'
<1>1. PICK new \in SUBSET (LoopCards \ Known) :
        /\ cards' = [cards EXCEPT ![a] = @ \o SetToSeq(new)]
        /\ loop' = Scored(a, new) /\ scouted' = scouted \cup new
  BY DEF LoopScout
<1>2. new \in SUBSET DOMAIN Verdict /\ IsFiniteSet(new) /\ new \cap Known = {}
  <2>1. new \in SUBSET LoopCards
    OBVIOUS
  <2> QED
    BY <2>1, ConstantFacts, FS_Subset
<1>3. /\ Screened(loop')
      /\ \A o \in loop' : o.rubric = rubric /\ o.angle = a /\ o.id \in new
      /\ \A x \in new : \E o \in loop' : o.id = x
  BY <1>1, <1>2, ScoredFacts
<1>4. /\ Ids(cards'[a]) = Ids(cards[a]) \cup new
      /\ \A b \in Angles : b # a => Ids(cards'[b]) = Ids(cards[b])
  <2>1. cards'[a] = cards[a] \o SetToSeq(new) /\ \A b \in Angles : b # a => cards'[b] = cards[b]
    BY <1>1 DEF Typed
  <2>2. cards[a] \in Seq(DOMAIN Verdict)
    BY CardIdsFacts
  <2>3. SetToSeq(new) \in Seq(DOMAIN Verdict) /\ Ids(SetToSeq(new)) = new
    BY <1>2, SetToSeqFacts
  <2>4. Ids(cards[a] \o SetToSeq(new)) = Ids(cards[a]) \cup Ids(SetToSeq(new))
    BY <2>2, <2>3, IdsOfBoth
  <2> QED
    BY <2>1, <2>3, <2>4
<1>5. Screened(scores) /\ Covers(scores, cards, lost) /\ Dated(scores, rubric, late, scouted)
  <2>1. scores \cup loop = scores
    OBVIOUS
  <2> QED
    BY <2>1 DEF Covered
<1>6. \A o \in scores : /\ o.angle \in Angles /\ o.id \in Ids(cards[o.angle])
                        /\ o.id \notin lost
  BY <1>5 DEF Covers, Screened, Angles
<1>7. \A o \in scores : o.id \in Known
  BY <1>6 DEF Known
<1>8. Screened(scores \cup loop')
  <2>1. IsFiniteSet(scores \cup loop')
    BY <1>3, <1>5, FS_Union DEF Screened
  <2>2. \A o \in scores \cup loop' :
          /\ o.id \in Nat /\ o.ucb \in Nat
          /\ o.angle \in DOMAIN Prior /\ o.kill \in BOOLEAN
    BY <1>3, <1>5 DEF Screened
  <2>3. \A o \in scores, p \in loop' : o.id # p.id
    BY <1>2, <1>3, <1>7
  <2>4. \A o, p \in scores \cup loop' : o.id = p.id => o = p
    BY <1>3, <1>5, <2>3 DEF Screened
  <2> QED
    BY <2>1, <2>2, <2>4 DEF Screened
<1>9. \A o \in scores \cup loop' : o.id \in Ids(cards'[o.angle]) /\ o.id \notin lost
  <2>1. lost \subseteq Known
    BY DEF Past
  <2> QED
    BY <1>2, <1>3, <1>4, <1>6, <2>1
<1>10. ASSUME NEW b \in Angles, NEW x \in Ids(cards'[b]) \ lost
       PROVE  \E o \in scores \cup loop' : o.id = x
  <2>1. x \in Ids(cards[b]) \/ x \in new
    BY <1>4
  <2>2. x \in Ids(cards[b]) => \E o \in scores : o.id = x
    BY <1>5 DEF Covers
  <2> QED
    BY <1>3, <2>1, <2>2
<1>11. Dated(scores \cup loop', rubric, late, scouted')
  <2>1. rubric \in rubric - late .. rubric
    BY DEF Typed, Past
  <2>2. \A o \in scores : /\ o.rubric \in rubric - late .. rubric
                          /\ o.id \notin scouted' => o.rubric = rubric - late
    BY <1>1, <1>5 DEF Dated
  <2>3. \A o \in loop' : o.rubric \in rubric - late .. rubric /\ o.id \in scouted'
    BY <1>1, <1>3, <2>1
  <2> QED
    BY <2>2, <2>3 DEF Dated
<1>12. scouted' \subseteq Nat
  BY <1>1, <1>2, ConstantFacts DEF Past
<1>13. \A o \in loop' : o.id \in scouted' /\ o \notin scores
  BY <1>1, <1>2, <1>3, <1>7
<1>14. Known \subseteq Known'
  BY <1>4 DEF Known
<1>15. scouted \subseteq scouted'
  BY <1>1
<1>16. Screened(scores \cup loop') /\ Covers(scores \cup loop', cards', lost)
  BY <1>8, <1>9, <1>10 DEF Covers
<1> QED
  BY <1>11, <1>12, <1>13, <1>14, <1>15, <1>16

\* What an interrupted mini-loop leaves: before its screening, cards nobody
\* scores; after it, options nobody decides.
LEMMA InterruptedFacts ==
  ASSUME Phases, Covered, Past, LoopInterrupt
  PROVE  /\ Screened(scores) /\ Covers(scores, cards, lost')
         /\ Dated(scores, rubric, late, scouted)
         /\ lost' \cup unseated' \subseteq scouted /\ lost' \subseteq Known
<1> DEFINE left == {o.id : o \in loop}
<1>1. scores # {} /\ list # NoList
  BY DEF LoopInterrupt, Phases
<1>2. Covers(scores \cup loop, cards, lost) /\ Dated(scores \cup loop, rubric, late, scouted)
  BY <1>1 DEF Covered
<1>3. Screened(scores)
  <2>1. scores \in SUBSET (scores \cup loop)
    OBVIOUS
  <2> QED
    BY <2>1, ScreenedPart DEF Covered
<1>4. Dated(scores, rubric, late, scouted)
  BY <1>2 DEF Dated
<1>5. left \subseteq scouted /\ lost \cup unseated \subseteq scouted /\ lost \subseteq Known
  BY DEF Past
<1>6. \A o \in scores \cup loop : o.angle \in Angles
  BY DEF Covered, Screened, Angles
<1>7. left \subseteq Known
  BY <1>2, <1>6 DEF Covers, Known
<1>8. CASE proc = "loop-screen"
  <2>1. lost' = lost \cup left /\ unseated' = unseated
    BY <1>8 DEF LoopInterrupt
  <2>2. \A o \in scores : o.id \notin left
    BY <1>8 DEF Past, Covered, Screened
  <2>3. Covers(scores, cards, lost')
    <3>1. \A o \in scores : o.id \in Ids(cards[o.angle]) /\ o.id \notin lost'
      BY <1>2, <2>1, <2>2 DEF Covers
    <3>2. ASSUME NEW a \in Angles, NEW x \in Ids(cards[a]) \ lost'
          PROVE  \E o \in scores : o.id = x
      <4>1. x \notin lost /\ x \notin left
        BY <2>1
      <4>2. PICK o \in scores \cup loop : o.id = x
        BY <1>2, <4>1 DEF Covers
      <4> QED
        BY <4>1, <4>2
    <3> QED
      BY <3>1, <3>2 DEF Covers
  <2> HIDE DEF left
  <2> QED
    BY <1>3, <1>4, <1>5, <1>7, <2>1, <2>3
<1>9. CASE proc = "loop-seat"
  <2>1. lost' = lost /\ unseated' = unseated \cup left
    BY <1>9 DEF LoopInterrupt
  <2>2. scores \cup loop = scores
    BY <1>9 DEF Phases
  <2> HIDE DEF left
  <2> QED
    BY <1>2, <1>3, <1>4, <1>5, <2>1, <2>2
<1> QED
  BY <1>8, <1>9 DEF LoopInterrupt

\* Every step keeps the scores those of the cards.
LEMMA CoveredStep ==
  ASSUME Typed, Phases, Covered, Past, [Next]_vars
  PROVE  Covered'
<1> USE DEF files, history, bounds
<1> DEFINE Same == UNCHANGED <<cards, rubric, scores, loop, late, scouted, lost>>
<1>1. ASSUME Same PROVE Covered'
  BY <1>1 DEF Covered, Covers, Dated, Screened
<1>2. CASE Merge
  <2>1. /\ loop = {} /\ loop' = {} /\ cards' = cards /\ rubric' = rubric
        /\ late' = 0 /\ lost' = {}
    BY <1>2 DEF Merge, Gathered, Phases, Past
  <2>2. /\ Screened(scores') /\ Covers(scores', cards, {})
        /\ \A o \in scores' : o.rubric = rubric
    BY <1>2, MergedFacts
  <2>3. scores' \cup loop' = scores'
    BY <2>1
  <2>4. Dated(scores', rubric, 0, scouted')
    BY <2>2 DEF Dated, Typed
  <2> QED
    BY <2>1, <2>2, <2>3, <2>4 DEF Covered
<1>3. ASSUME scores' = {}, loop' = {} PROVE Covered'
  <2>1. scores' \cup loop' = {}
    BY <1>3
  <2> QED
    BY <1>3, <2>1, EmptyScreened DEF Covered
<1>4. ASSUME NEW a \in Angles, Rename(a) PROVE Covered'
  <2>1. scores' = {} /\ loop' = {}
    BY <1>4 DEF Rename, Phases
  <2> QED
    BY <1>3, <2>1
<1>5. CASE EditRubric
  <2>1. /\ loop = {} /\ loop' = {} /\ scores' = scores /\ cards' = cards
        /\ lost' = lost /\ scouted' = scouted /\ rubric' = rubric + 1
    BY <1>5 DEF EditRubric, Phases
  <2>2. CASE scores = {}
    BY <1>3, <2>1, <2>2
  <2>3. CASE scores # {}
    <3>1. late' = late + 1 /\ scores' \cup loop' = scores /\ scores \cup loop = scores
      BY <1>5, <2>1, <2>3 DEF EditRubric
    <3>2. Screened(scores) /\ Covers(scores, cards, lost) /\ Dated(scores, rubric, late, scouted)
      BY <2>3, <3>1 DEF Covered
    <3>3. late \in Nat /\ rubric \in Nat
      BY DEF Past, Typed
    <3>4. Dated(scores, rubric + 1, late + 1, scouted)
      BY <3>2, <3>3 DEF Dated
    <3> QED
      BY <2>1, <3>1, <3>2, <3>4 DEF Covered
  <2> QED
    BY <2>2, <2>3
<1>6. CASE Rerun
  <2>1. scores' = {} /\ loop' = {}
    BY <1>6 DEF Rerun, Phases
  <2> QED
    BY <1>3, <2>1
<1>7. ASSUME NEW a \in Angles, LoopScout(a) PROVE Covered'
  <2>1. /\ loop = {} /\ scores # {} /\ scores' = scores /\ rubric' = rubric
        /\ lost' = lost /\ late' = late
    BY <1>7 DEF LoopScout, Phases
  <2>2. /\ Screened(scores \cup loop') /\ Covers(scores \cup loop', cards', lost)
        /\ Dated(scores \cup loop', rubric, late, scouted')
    BY <1>7, <2>1, ScoutedFacts
  <2> QED
    BY <2>1, <2>2 DEF Covered
<1>8. CASE LoopScreen
  <2>1. /\ scores # {} /\ scores' = scores \cup loop
        /\ UNCHANGED <<loop, cards, rubric, lost, late, scouted>>
    BY <1>8 DEF LoopScreen, Phases
  <2>2. scores' \cup loop' = scores \cup loop
    BY <2>1
  <2> QED
    BY <2>1, <2>2 DEF Covered
<1>9. CASE LoopSeat
  <2>1. /\ loop \subseteq scores /\ scores' = scores /\ loop' = {}
        /\ UNCHANGED <<cards, rubric, lost, late, scouted>>
    BY <1>9 DEF LoopSeat, Phases
  <2>2. scores' \cup loop' = scores \cup loop
    BY <2>1
  <2> QED
    BY <2>1, <2>2 DEF Covered
<1>10. CASE LoopInterrupt
  <2>1. /\ scores' = scores /\ loop' = {}
        /\ UNCHANGED <<cards, rubric, late, scouted>>
    BY <1>10 DEF LoopInterrupt
  <2>2. scores' \cup loop' = scores
    BY <2>1
  <2>3. /\ Screened(scores) /\ Covers(scores, cards, lost')
        /\ Dated(scores, rubric, late, scouted)
    BY <1>10, InterruptedFacts
  <2> QED
    BY <2>1, <2>2, <2>3 DEF Covered
<1>11. ASSUME NEW a \in Angles, AngleStep(a) PROVE Same
  BY <1>11 DEF AngleStep, ScreenAngle, ScreenChunk, MergeParts, DropPart
<1>12. Resume \/ PauseOnDupes \/ WriteShortlist \/ Interrupt \/ UNCHANGED vars => Same
  BY DEF Resume, PauseOnDupes, WriteShortlist, Interrupt, vars
<1> HIDE DEF Same
<1> QED
  BY <1>1, <1>2, <1>4, <1>5, <1>6, <1>7, <1>8, <1>9, <1>10, <1>11, <1>12
     DEF Next, StageStep

\* Every step keeps the histories true.
LEMMA PastStep ==
  ASSUME Typed, Phases, Covered, Past, [Next]_vars
  PROVE  Past'
<1> USE DEF files, history, bounds
<1>1. ASSUME UNCHANGED <<cards, rubric, scores, loop, late, scouted, lost, unseated>>,
             proc' # "loop-screen" \/ proc' = proc
      PROVE  Past'
  BY <1>1 DEF Past, Known
<1>2. CASE Merge
  <2>1. /\ loop = {} /\ proc' = "scored"
        /\ late = 0 /\ scouted = {} /\ lost = {} /\ unseated = {}
    BY <1>2 DEF Merge, Gathered, Phases, Past
  <2> QED
    BY <1>2, <2>1 DEF Merge, Past, Typed
<1>3. ASSUME NEW a \in Angles, Rename(a) PROVE Past'
  <2>1. /\ late = 0 /\ scouted = {} /\ lost = {} /\ unseated = {} /\ loop = {}
        /\ proc' = "idle"
    BY <1>3 DEF Rename, Phases, Past
  <2> QED
    BY <1>3, <2>1 DEF Rename, Past
<1>4. CASE EditRubric
  <2>1. rubric \in Nat /\ late \in Nat /\ late <= rubric /\ rubric' = rubric + 1
    BY <1>4 DEF EditRubric, Typed, Past
  <2>2. late' \in 0 .. rubric'
    BY <1>4, <2>1 DEF EditRubric
  <2>3. scores = {} => late' = late
    BY <1>4 DEF EditRubric
  <2>4. proc' # "loop-screen" /\ Known' = Known
    BY <1>4 DEF EditRubric, Known
  <2> QED
    BY <1>4, <2>2, <2>3, <2>4 DEF EditRubric, Past
<1>5. CASE Rerun
  <2>1. loop' = {} /\ rubric' \in Nat
    BY <1>5 DEF Rerun, Phases, Typed
  <2> QED
    BY <1>5, <2>1 DEF Rerun, Past
<1>6. ASSUME NEW a \in Angles, LoopScout(a) PROVE Past'
  <2>1. /\ loop = {} /\ scores # {}
        /\ UNCHANGED <<rubric, scores, late, lost, unseated>>
    BY <1>6 DEF LoopScout, Phases
  <2>2. /\ scouted \subseteq scouted' /\ scouted' \subseteq Nat
        /\ \A o \in loop' : o.id \in scouted'
        /\ loop' \cap scores = {} /\ Known \subseteq Known'
    BY <1>6, <2>1, ScoutedFacts
  <2> QED
    BY <2>1, <2>2 DEF Past
<1>7. CASE LoopScreen
  <2>1. scores # {} /\ scores' # {}
    BY <1>7 DEF LoopScreen, Phases
  <2> QED
    BY <1>7, <2>1 DEF LoopScreen, Past, Known
<1>8. CASE LoopSeat
  BY <1>8 DEF LoopSeat, Past, Known
<1>9. CASE LoopInterrupt
  <2>1. /\ loop' = {} /\ proc' = "done" /\ scores # {}
        /\ UNCHANGED <<cards, rubric, scores, late, scouted>>
    BY <1>9 DEF LoopInterrupt, Phases
  <2>2. lost' \cup unseated' \subseteq scouted /\ lost' \subseteq Known
    BY <1>9, InterruptedFacts
  <2> QED
    BY <2>1, <2>2 DEF Past, Known
<1>10. ASSUME NEW a \in Angles, AngleStep(a) PROVE Past'
  BY <1>1, <1>10 DEF AngleStep, ScreenAngle, ScreenChunk, MergeParts, DropPart
<1>11. Resume \/ PauseOnDupes \/ WriteShortlist \/ Interrupt \/ UNCHANGED vars => Past'
  BY <1>1 DEF Resume, PauseOnDupes, WriteShortlist, Interrupt, vars
<1> QED
  BY <1>2, <1>3, <1>4, <1>5, <1>6, <1>7, <1>8, <1>9, <1>10, <1>11 DEF Next, StageStep

\* A mini-loop seats at most one of its cards, and none at the cap.
LEMMA LoopSeatFacts ==
  ASSUME Covered, Capped(list), LoopSeat
  PROVE  /\ Capped(list')
         /\ DOMAIN list'.cause = DOMAIN list.cause \cup {o.id : o \in loop}
<1> DEFINE seats == {o.id : o \in {p \in loop : LoopCause(p) = "ucb-above-threshold"}}
           F == list.finalists
<1>1. /\ list'.finalists = F \cup seats
      /\ DOMAIN list'.cause = DOMAIN list.cause \cup {o.id : o \in loop}
  BY DEF LoopSeat
<1>2. Screened(loop)
  <2>1. loop \in SUBSET (scores \cup loop)
    OBVIOUS
  <2> QED
    BY <2>1, ScreenedPart DEF Covered
<1>3. IsFiniteSet(F) /\ Cardinality(F) <= MaxFinalists /\ Cardinality(F) \in Nat
      /\ F \subseteq DOMAIN list.cause
  BY FS_CardinalityType DEF Capped
<1>4. \A o \in loop : LoopCause(o) = "ucb-above-threshold" =>
        ~AtCap /\ ~(\E p \in loop : Above(p, o))
  BY DEF LoopCause
<1>5. seats \subseteq {o.id : o \in loop}
  OBVIOUS
<1>6. IsFiniteSet(F \cup seats) /\ Cardinality(F \cup seats) <= MaxFinalists
  <2>1. CASE seats = {}
    <3>1. F \cup seats = F
      BY <2>1
    <3> QED
      BY <1>3, <3>1, Zenon
  <2>2. CASE seats # {}
    <3>1. PICK o \in loop : LoopCause(o) = "ucb-above-threshold"
      BY <2>2
    <3>2. \A p \in loop : LoopCause(p) = "ucb-above-threshold" => p = o
      BY <1>2, <1>4, <3>1, AboveOrders
    <3>3. seats = {o.id}
      BY <3>1, <3>2
    <3>4. Cardinality(F) < MaxFinalists
      BY <1>3, <1>4, <3>1, ConfigFacts DEF AtCap
    <3> HIDE DEF seats
    <3>5. /\ IsFiniteSet(F \cup {o.id})
          /\ Cardinality(F \cup {o.id})
               = IF o.id \in F THEN Cardinality(F) ELSE Cardinality(F) + 1
      BY <1>3, FS_AddElement
    <3>6. Cardinality(F \cup {o.id}) <= MaxFinalists
      BY <1>3, <3>4, <3>5, ConfigFacts
    <3> QED
      BY <3>3, <3>5, <3>6, Zenon
  <2> QED
    BY <2>1, <2>2
<1> HIDE DEF seats, F
<1>7. F \cup seats \subseteq DOMAIN list'.cause
  BY <1>1, <1>3, <1>5
<1> QED
  BY <1>1, <1>6, <1>7 DEF Capped

\* Every step keeps the list within its cap and complete.
LEMMA ListedStep ==
  ASSUME Typed, Phases, Covered, Past, Listed, [Next]_vars
  PROVE  Listed'
<1> USE DEF files, history, bounds
<1>1. ASSUME UNCHANGED <<list, scores, loop, unseated>> PROVE Listed'
  BY <1>1 DEF Listed, Capped
<1>2. ASSUME list' = NoList PROVE Listed'
  <2>1. Capped(NoList)
    <3>1. NoList.finalists = {}
      BY DEF NoList
    <3>2. Cardinality(NoList.finalists) = 0 /\ IsFiniteSet(NoList.finalists)
      BY <3>1, FS_EmptySet, Zenon
    <3>3. Cardinality(NoList.finalists) <= MaxFinalists
      BY <3>2, ConfigFacts
    <3> QED
      BY <3>1, <3>2, <3>3 DEF Capped
  <2> QED
    BY <1>2, <2>1 DEF Listed
<1>3. CASE Merge
  <2>1. list' = NoList
    BY <1>3 DEF Merge, Gathered, Phases
  <2> QED
    BY <1>2, <2>1
<1>4. CASE WriteShortlist
  <2>1. Screened(scores)
    <3>1. scores \in SUBSET (scores \cup loop)
      OBVIOUS
    <3> QED
      BY <3>1, ScreenedPart DEF Covered
  <2>2. Capped(list') /\ DOMAIN list'.cause = {o.id : o \in scores}
    BY <1>4, <2>1, WrittenFacts
  <2>3. scores' = scores
    BY <1>4 DEF WriteShortlist
  <2> QED
    BY <2>2, <2>3 DEF Listed
<1>5. CASE Rerun
  <2>1. list' = NoList
    BY <1>5 DEF Rerun
  <2> QED
    BY <1>2, <2>1
<1>6. ASSUME NEW a \in Angles, LoopScout(a) PROVE Listed'
  <2>1. loop = {} /\ list' = list /\ scores' = scores /\ unseated' = unseated
    BY <1>6 DEF LoopScout, Phases
  <2> QED
    BY <2>1 DEF Listed, Capped
<1>7. CASE LoopScreen
  <2>1. list' = list /\ scores' = scores \cup loop /\ loop' = loop /\ unseated' = unseated
    BY <1>7 DEF LoopScreen
  <2> QED
    BY <2>1 DEF Listed, Capped
<1>8. CASE LoopSeat
  <2>1. Capped(list') /\ DOMAIN list'.cause = DOMAIN list.cause \cup {o.id : o \in loop}
    BY <1>8, LoopSeatFacts DEF Listed
  <2>2. list # NoList /\ scores' = scores /\ unseated' = unseated
    BY <1>8 DEF LoopSeat, Phases
  <2> QED
    BY <2>1, <2>2 DEF Listed
<1>9. CASE LoopInterrupt
  <2> DEFINE left == {o.id : o \in loop}
  <2>1. /\ list' = list /\ scores' = scores /\ loop' = {}
        /\ unseated' = IF proc = "loop-seat" THEN unseated \cup left ELSE unseated
    BY <1>9 DEF LoopInterrupt
  <2>2. \A o \in scores : list # NoList => o.id \in DOMAIN list.cause \cup unseated \cup left
    BY DEF Listed
  <2>3. proc # "loop-seat" => \A o \in scores : o.id \notin left
    BY <1>9 DEF LoopInterrupt, Past, Covered, Screened
  <2>4. \A o \in scores : list # NoList => o.id \in DOMAIN list.cause \cup unseated'
    BY <2>1, <2>2, <2>3
  <2>5. Capped(list)
    BY DEF Listed
  <2> HIDE DEF left
  <2> QED
    BY <2>1, <2>4, <2>5 DEF Listed
<1>10. ASSUME NEW a \in Angles, AngleStep(a) \/ Rename(a)
       PROVE  UNCHANGED <<list, scores, loop, unseated>>
  BY <1>10 DEF AngleStep, ScreenAngle, ScreenChunk, MergeParts, DropPart, Rename
<1>11. Resume \/ PauseOnDupes \/ Interrupt \/ EditRubric \/ UNCHANGED vars
         => UNCHANGED <<list, scores, loop, unseated>>
  BY DEF Resume, PauseOnDupes, Interrupt, EditRubric, vars
<1> QED
  BY <1>1, <1>3, <1>4, <1>5, <1>6, <1>7, <1>8, <1>9, <1>10, <1>11 DEF Next, StageStep

\* The invariant holds at the start, and every step keeps it.
LEMMA Inductive ==
  /\ Init => IInv
  /\ IInv /\ [Next]_vars => IInv'
<1>1. Init => IInv
  <2> SUFFICES ASSUME Init PROVE IInv
    OBVIOUS
  <2>1. NoBatch \in BatchOf(rubric)
    BY BatchesFit DEF Init
  <2>2. Typed
    BY <2>1, ConstantFacts DEF Init, Typed
  <2>3. Phases
    BY DEF Init, Phases
  <2>4. Covered
    <3>1. scores = {} /\ scores \cup loop = {}
      BY DEF Init
    <3> QED
      BY <3>1, EmptyScreened DEF Covered
  <2>5. Listed
    <3>1. list = NoList /\ list.finalists = {}
      BY DEF Init, NoList
    <3>2. Cardinality(list.finalists) = 0 /\ IsFiniteSet(list.finalists)
      BY <3>1, FS_EmptySet, Zenon
    <3>3. Cardinality(list.finalists) <= MaxFinalists
      BY <3>2, ConfigFacts
    <3> QED
      BY <3>1, <3>2, <3>3 DEF Listed, Capped
  <2>6. Past
    BY DEF Init, Past
  <2> QED
    BY <2>2, <2>3, <2>4, <2>5, <2>6 DEF IInv
<1>2. IInv /\ [Next]_vars => IInv'
  BY TypedStep, PhasesStep, CoveredStep, PastStep, ListedStep DEF IInv
<1> QED
  BY <1>1, <1>2

\* The invariant, of every behaviour.
LEMMA Always == Spec => []IInv
BY Inductive, PTL DEF Spec

-----------------------------------------------------------------------------
(* The theorems about the run.                                             *)

\* Files, phases and verdicts have their types, ids are unique in scores.yaml
\* and every finalist is on the list with a cause, in every reachable state.
THEOREM ScreeningTyped == Spec => []TypeOK
<1>1. IInv => TypeOK
  <2> SUFFICES ASSUME IInv PROVE TypeOK
    OBVIOUS
  <2>1. cards \in [Angles -> Seq(Nat)]
    <3>1. \A a \in Angles : cards[a] \in Seq(Nat)
      BY CardIdsFacts, ConstantFacts, SeqMonotonic DEF IInv
    <3> QED
      BY <3>1 DEF IInv, Typed
  <2>2. /\ \A a \in Angles : IsBatch(batch[a])
        /\ \A a \in Angles, i \in Parts : IsBatch(part[a][i])
    BY DEF IInv, Typed, BatchOf, IsBatch
  <2>3. /\ \A o \in scores : o.angle \in Angles /\ o.ucb \in Nat /\ o.kill \in BOOLEAN
        /\ \A o, p \in scores : o.id = p.id => o = p
    BY DEF IInv, Covered, Screened, Angles
  <2>4. list.finalists \subseteq DOMAIN list.cause
    BY DEF IInv, Listed, Capped
  <2>5. /\ late \in 0 .. rubric
        /\ lost \cup unseated \subseteq scouted /\ scouted \subseteq Nat
    BY DEF IInv, Past
  <2> QED
    BY <2>1, <2>2, <2>3, <2>4, <2>5 DEF TypeOK, IInv, Typed
<1> QED
  BY <1>1, Always, PTL

\* scores.yaml never has a card twice, a card short or a card of another batch,
\* whatever was interrupted, renamed or rerun, but for the cards of a mini-loop
\* that died before its screening, which it never has.  Its scores are on one
\* rubric, that of the moment it was written: an edit from then on leaves them
\* where they are, and only a mini-loop's are on a later one.  And the chunks
\* of chunk_cards are the cards, in order and in balance.
THEOREM ScoredOnce == Spec => []EveryCardOnce
<1>1. IInv => EveryCardOnce
  <2> SUFFICES ASSUME IInv PROVE EveryCardOnce
    OBVIOUS
  <2>1. ASSUME scores # {}, proc # "loop-screen"
        PROVE  /\ \A o \in scores :
                    /\ o.id \in Ids(cards[o.angle])
                    /\ o.rubric \in rubric - late .. rubric
                    /\ o.id \notin scouted => o.rubric = rubric - late
               /\ \A a \in Angles : \A x \in Ids(cards[a]) :
                    Cardinality({o \in scores : o.id = x}) = IF x \in lost THEN 0 ELSE 1
    <3>1. scores \cup loop = scores
      BY <2>1 DEF IInv, Phases
    <3>2. Screened(scores) /\ Covers(scores, cards, lost) /\ Dated(scores, rubric, late, scouted)
      BY <2>1, <3>1 DEF IInv, Covered
    <3>3. ASSUME NEW a \in Angles, NEW x \in Ids(cards[a])
          PROVE  Cardinality({o \in scores : o.id = x}) = IF x \in lost THEN 0 ELSE 1
      <4>1. CASE x \in lost
        <5>1. {o \in scores : o.id = x} = {}
          BY <3>2, <4>1 DEF Covers
        <5>2. Cardinality({}) = 0
          BY FS_EmptySet
        <5>3. Cardinality({o \in scores : o.id = x}) = 0
          BY <5>1, <5>2, Zenon
        <5> QED
          BY <4>1, <5>3
      <4>2. CASE x \notin lost
        <5>1. PICK o \in scores : o.id = x
          BY <3>2, <4>2 DEF Covers
        <5>2. {p \in scores : p.id = x} = {o}
          BY <3>2, <5>1 DEF Screened
        <5>3. Cardinality({o}) = 1
          BY FS_Singleton
        <5>4. Cardinality({p \in scores : p.id = x}) = 1
          BY <5>2, <5>3, Zenon
        <5> QED
          BY <4>2, <5>4
      <4> QED
        BY <4>1, <4>2
    <3> QED
      BY <3>2, <3>3 DEF Covers, Dated
  <2>2. ASSUME NEW n \in 0 .. 9, NEW max \in 1 .. 4
        PROVE  ChunkedRight([i \in 1 .. n |-> i], max)
    <3> DEFINE s == [i \in 1 .. n |-> i]
    <3>1. s \in Seq(Nat)
      <4>1. n \in Nat /\ s \in [1 .. n -> Nat]
        OBVIOUS
      <4> HIDE DEF s
      <4> QED
        BY <4>1, SeqDef
    <3>2. max \in Nat \ {0}
      OBVIOUS
    <3> HIDE DEF s
    <3>3. ChunkedRight(s, max)
      BY <3>1, <3>2, ChunksAreRight
    <3> QED
      BY <3>3 DEF s
  <2> QED
    BY <2>1, <2>2 DEF EveryCardOnce
<1> QED
  BY <1>1, Always, PTL

\* The shortlist keeps its rule for every screening result, decides every
\* scored option, but those of a mini-loop that died in between, and stays
\* under the finalist cap through mini-loops.
THEOREM ShortlistKept == Spec => []ShortlistWithinRules
<1>1. IInv => ShortlistWithinRules
  <2> SUFFICES ASSUME IInv PROVE ShortlistWithinRules
    OBVIOUS
  <2>1. \A options \in Options : RuleHolds(options, BuildShortlist(options))
    BY ConstantFacts, RuleOfAnyScreening
  <2>2. list # NoList =>
          /\ Cardinality(list.finalists) <= MaxFinalists
          /\ \A o \in scores :
               o.id \in DOMAIN list.cause \cup unseated \cup {p.id : p \in loop}
    BY DEF IInv, Listed, Capped
  <2> QED
    BY <2>1, <2>2 DEF ShortlistWithinRules
<1> QED
  BY <1>1, Always, PTL

\* A list S5 writes keeps the rule on the scores it was made from, which are
\* those of the cards of the moment, on the rubric of when they were written.
\* What a mini-loop adds to it leaves every earlier decision, and seats at most
\* the best of its cards, over the floor and within the cap.
WritesByTheRule ==
  /\ WriteShortlist =>
       /\ RuleHolds(scores, list') /\ Covers(scores, cards, lost)
       /\ Dated(scores, rubric, late, scouted)
  /\ LoopSeat =>
       /\ \A x \in DOMAIN list.cause : list'.cause[x] = list.cause[x]
       /\ \A o \in loop : o.id \in list'.finalists \ list.finalists =>
            ~(o.ucb < Threshold) /\ \A p \in loop : ~Above(p, o)
       /\ list.finalists \subseteq list'.finalists
       /\ Cardinality(list'.finalists) <= MaxFinalists

\* Every shortlist.md S5 writes, whatever interruptions, renames and reruns came
\* before, is the rule's on the scores of the cards as they are, but those no
\* mini-loop lived to score; the scores are on the rubric they were made with,
\* not one edited since.  A mini-loop changes no decision of it and seats no
\* more than its best card, over the floor and under the cap; a confirmed
\* kill-risk it does not look at, and the theorem does not say it does.
THEOREM WrittenByTheRule == Spec => [][WritesByTheRule]_vars
<1>1. ASSUME IInv, WriteShortlist
      PROVE  /\ RuleHolds(scores, list') /\ Covers(scores, cards, lost)
             /\ Dated(scores, rubric, late, scouted)
  <2>1. scores \cup loop = scores
    BY <1>1 DEF WriteShortlist, IInv, Phases
  <2>2. Screened(scores)
    BY <1>1, <2>1 DEF IInv, Covered
  <2>3. RuleHolds(scores, list') /\ scores # {}
    BY <1>1, <2>2, WrittenFacts
  <2> QED
    BY <1>1, <2>1, <2>3 DEF IInv, Covered
<1>2. ASSUME IInv, LoopSeat
      PROVE  /\ \A x \in DOMAIN list.cause : list'.cause[x] = list.cause[x]
             /\ \A o \in loop : o.id \in list'.finalists \ list.finalists =>
                  ~(o.ucb < Threshold) /\ \A p \in loop : ~Above(p, o)
             /\ list.finalists \subseteq list'.finalists
             /\ Cardinality(list'.finalists) <= MaxFinalists
  <2> DEFINE seats == {o.id : o \in {p \in loop : LoopCause(p) = "ucb-above-threshold"}}
  <2>1. /\ list'.finalists = list.finalists \cup seats
        /\ \A x \in DOMAIN list.cause : list'.cause[x] = list.cause[x]
    BY <1>2 DEF LoopSeat
  <2>2. Cardinality(list'.finalists) <= MaxFinalists
    BY <1>2, LoopSeatFacts DEF IInv, Listed, Capped
  <2>3. \A o, p \in loop : o.id = p.id => o = p
    BY <1>2 DEF IInv, Covered, Screened
  <2>4. ASSUME NEW o \in loop, o.id \in list'.finalists \ list.finalists
        PROVE  ~(o.ucb < Threshold) /\ \A p \in loop : ~Above(p, o)
    <3>1. o.id \in seats
      BY <2>1, <2>4
    <3>2. LoopCause(o) = "ucb-above-threshold"
      BY <2>3, <3>1
    <3> QED
      BY <3>2 DEF LoopCause
  <2> HIDE DEF seats
  <2> QED
    BY <2>1, <2>2, <2>4
<1>3. IInv /\ [Next]_vars => [WritesByTheRule]_vars
  BY <1>1, <1>2 DEF WritesByTheRule
<1> QED
  BY <1>3, Always, PTL DEF Spec
=============================================================================
