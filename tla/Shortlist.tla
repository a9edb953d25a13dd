------------------------------ MODULE Shortlist ------------------------------
(***************************************************************************)
(* stages/shortlist.py: the rule that turns screened options into          *)
(* finalists.  An option is its id, its angle, its weighted upper          *)
(* confidence bound and whether a kill-risk was confirmed; ids and angles  *)
(* are numbers, in the order their names sort.                             *)
(*                                                                         *)
(* An operator marked "slip" is the operator below it with a plausible     *)
(* mistake.                                                                *)
(***************************************************************************)
EXTENDS Integers, FiniteSets

CONSTANTS
  Prior,        \* angle -> relevance prior
  Threshold, TopK, MaxPerAngle, Margin, MaxFinalists   \* config.yaml

ASSUME ShortlistAssumption ==
  /\ IsFiniteSet(DOMAIN Prior) /\ DOMAIN Prior \subseteq Nat
  /\ Prior \in [DOMAIN Prior -> Nat]
  /\ {Threshold, Margin} \subseteq Nat
  /\ {TopK, MaxPerAngle, MaxFinalists} \subseteq Nat \ {0}

\* "highest UCB first, then by id".
Above(o, p) == o.ucb > p.ucb \/ (o.ucb = p.ucb /\ o.id < p.id)
RankIn(o, set) == Cardinality({p \in set : Above(p, o)}) + 1
Best(set) == CHOOSE o \in set : RankIn(o, set) = 1
AnglesOf(set) == {o.angle : o \in set}

Alive(options) == {o \in options : ~o.kill}

\* (a) and (b): the cut of a survivor, given the finalists seated above it.
\* The UCB of the top_k-th finalist is the cutoff once there is one.
CutWithoutCap(o, seated) ==  \* slip: one angle may crowd out the others
  IF o.ucb < Threshold THEN "below-threshold"
  ELSE IF Cardinality(seated) >= MaxFinalists THEN "below-cutoff"
  ELSE IF \E p \in seated : RankIn(p, seated) = TopK /\ o.ucb < p.ucb - Margin
    THEN "below-cutoff"
  ELSE "ucb-above-threshold"
Cut(o, seated) ==
  IF o.ucb < Threshold THEN "below-threshold"
  ELSE IF Cardinality(seated) >= MaxFinalists THEN "below-cutoff"
  ELSE IF \E p \in seated : RankIn(p, seated) = TopK /\ o.ucb < p.ucb - Margin
    THEN "below-cutoff"
  ELSE IF Cardinality({p \in seated : p.angle = o.angle}) >= MaxPerAngle
    THEN "angle-cap"
  ELSE "ucb-above-threshold"

Seated(alive) ==
  LET seat[o \in alive] ==
        Cut(o, {p \in alive : Above(p, o) /\ seat[p]}) = "ucb-above-threshold"
  IN  {o \in alive : seat[o]}

\* (c2): the angles of the better half by prior.
PriorRank(a) ==
  Cardinality({b \in DOMAIN Prior :
    Prior[b] > Prior[a] \/ (Prior[b] = Prior[a] /\ b < a)}) + 1
TopHalf == {a \in DOMAIN Prior : PriorRank(a) <= (Cardinality(DOMAIN Prior) + 1) \div 2}

\* Breadth insurance: the best option of each unrepresented better angle, in
\* order of prior, while there is room.
Guardrail(alive, seated) ==
  LET top == {o \in seated : RankIn(o, seated) <= TopK}
      owed == (TopHalf \cap AnglesOf(alive)) \ AnglesOf(seated)
      room == MaxFinalists - Cardinality(seated)
      granted == {a \in owed :
        Cardinality({b \in owed : PriorRank(b) < PriorRank(a)}) < room}
  IN  IF Cardinality(AnglesOf(top)) > 2 THEN {}
      ELSE {Best({o \in alive : o.angle = a}) : a \in granted}

\* build_shortlist: every option gets its decision and its cause.
BuildShortlist(options) ==
  LET decided[seated \in SUBSET options] ==
        LET added == Guardrail(Alive(options), seated)
            cause(o) == IF o.kill THEN "kill-risk-confirmed"
                        ELSE IF o \in added THEN "diversity-guardrail-add"
                        ELSE Cut(o, {p \in seated : Above(p, o)})
        IN  [finalists |-> {o.id : o \in seated \cup added},
             cause |-> [id \in {o.id : o \in options} |->
                         cause(CHOOSE o \in options : o.id = id)]]
  IN  decided[Seated(Alive(options))]

-----------------------------------------------------------------------------
\* What the rule is for: finitely many options, one record an id.
Screened(options) ==
  /\ IsFiniteSet(options)
  /\ \A o \in options : /\ o.id \in Nat /\ o.ucb \in Nat
                        /\ o.angle \in DOMAIN Prior /\ o.kill \in BOOLEAN
  /\ \A o, p \in options : o.id = p.id => o = p

\* The rule as the code applies it, of any shortlist of the options.  It is
\* the documented one but for the floor: shortlist.py:13-14 and README.md say
\* that "nothing advances" below the threshold, while the breadth insurance
\* of clause (c), documented and coded, seats an angle's best option without
\* a look at it.
RuleHolds(options, list) ==
  LET final == {o \in options : o.id \in list.finalists}
      earned == {o \in final : list.cause[o.id] = "ucb-above-threshold"}
      top == {o \in earned : RankIn(o, earned) <= TopK}
  IN  \* A confirmed kill-risk eliminates regardless of score.
      /\ \A o \in final : ~o.kill
      /\ Cardinality(final) <= MaxFinalists
      /\ \A a \in AnglesOf(final) :
           Cardinality({o \in final : o.angle = a}) <= MaxPerAngle
      \* Only breadth insurance advances below the floor.
      /\ \A o \in final : o.ucb < Threshold =>
           list.cause[o.id] = "diversity-guardrail-add"
      \* Relative: in the top k, or a dark horse close behind it.
      /\ \A o \in earned : o \in top \/
           \E p \in top : RankIn(p, earned) = TopK /\ o.ucb >= p.ucb - Margin
      \* Optimism: who is passed over for a lower bound had a full angle.
      /\ \A o \in Alive(options) \ final, p \in earned :
           o.ucb > p.ucb =>
             Cardinality({q \in earned : q.angle = o.angle}) = MaxPerAngle
      \* Breadth: a narrow top leaves no better angle out while there is room.
      /\ Cardinality(AnglesOf(top)) <= 2 /\ Cardinality(final) < MaxFinalists =>
           TopHalf \cap AnglesOf(Alive(options)) \subseteq AnglesOf(final)
=============================================================================
