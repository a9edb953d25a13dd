--------------------------- MODULE DeepDiveProofs ---------------------------
(***************************************************************************)
(* What S6 keeps for any finalists, claims, criteria, caps, replies, and   *)
(* any number of interruptions and reruns.                                 *)
(*                                                                         *)
(* A task's step moves one finalist and is taken while no other task is    *)
(* inside a block without an await.  So the proof says what each step does *)
(* to its own finalist (one lemma per action) and once what it leaves of   *)
(* all the others (Elsewhere).                                             *)
(***************************************************************************)
EXTENDS DeepDive, FiniteSetTheorems, TLAPS

DossierType ==
  [round: Nat, rev: Nat, low: SUBSET Claims, tagged: SUBSET Claims, stamp: BOOLEAN]
ReportType == [made: BOOLEAN, contra: SUBSET Claims]

\* Every contradiction of this set has an entry in the ledger.
Ledgered(f, contra) == \A c \in contra : \E e \in ledger : e.of = f /\ e.claim = c

\* What holds of a finalist where its task is between two writes.
Place(f) ==
  /\ pc[f] \in {"rescore", "append"} =>
       log[f].status = "in-progress" /\ dossier[f].round = NextRound(f)
  /\ pc[f] = "append" => dossier[f].stamp /\ held.screen \in [Criteria -> Scores]
  /\ pc[f] \in {"report", "record"} =>
       /\ log[f].status # "in-progress" /\ log[f].sampled = {}
       /\ held.contra \subseteq SampleOf(f) /\ Ledgered(f, held.contra)
  /\ pc[f] = "record" => report[f].made /\ report[f].contra = held.contra
  /\ pc[f] = "final" =>
       log[f].status # "in-progress" /\ log[f].contra # {} /\ ~log[f].revised

\* The dossier is at most one round ahead of the log, and not once the log
\* has its verdict.
Paced(f) ==
  /\ paid[f] = dossier[f].round
  /\ log[f].status = "in-progress" =>
       /\ log[f].n < Cap /\ dossier[f].round \in {log[f].n, NextRound(f)}
       /\ redone[f] = 0
  /\ log[f].status # "in-progress" => log[f].n <= Cap /\ dossier[f].round = log[f].n
  /\ dossier[f].rev =
       redone[f] + IF log[f].revised \/ pc[f] = "final" THEN 1 ELSE 0

\* What the log records is on the other files.
Recorded(f) ==
  /\ log[f].status # "in-progress" /\ (log[f].contra = {} \/ log[f].revised) =>
       log[f].of = Text(dossier[f])
  /\ log[f].sampled # {} =>
       /\ report[f].made /\ report[f].contra = log[f].contra
       /\ Ledgered(f, log[f].contra) /\ MovedClaimsVerified(f)
  /\ log[f].status = "budget-capped" => dossier[f].stamp

\* One task at a time holds something, none when the process is not diving,
\* and the board exists only once S6 is whole.
Quiet ==
  /\ held = [screen |-> held.screen, contra |-> held.contra]
  /\ \A f, g \in Finalists : pc[f] \in Midway /\ pc[g] \in Midway => f = g
  /\ proc # "diving" => \A f \in Finalists : pc[f] = "loop"
  /\ \A f \in DOMAIN scores : proc # "diving" /\ Settled(f) /\ scores[f] = log[f].of

\* The inductive invariant.
IInv ==
  /\ TypeOK /\ Quiet
  /\ \A f \in Finalists : Place(f) /\ Paced(f) /\ Recorded(f)

\* A finalist's own files are valid and agree with where its task is.
Own(f) ==
  /\ dossier[f] \in DossierType /\ LogOK(log[f]) /\ report[f] \in ReportType
  /\ pc[f] \in Points /\ paid[f] \in Nat /\ redone[f] \in Nat
  /\ Place(f) /\ Paced(f) /\ Recorded(f)

-----------------------------------------------------------------------------
(* The operators of depth.py.                                              *)

LEMMA ConstantFacts ==
  /\ IsFiniteSet(Claims) /\ Section \in [Criteria -> SUBSET Claims]
  /\ Cap \in Nat /\ Cap > 0
  /\ \A f \in Finalists :
       /\ Baseline[f] \in [Criteria -> Scores]
       /\ Screens[f] \subseteq [Criteria -> Scores] /\ Drafts[f] \subseteq Draft
BY DeepDiveAssumption DEF DeepDiveAssumption

\* A fifth of a set, rounded up, can be drawn from it, so the draw of
\* verifier_sample is a subset of what it draws from.
LEMMA DrawnFacts ==
  ASSUME NEW rest \in SUBSET Claims
  PROVE  Drawn(rest) \in SUBSET rest
<1> DEFINE n == Cardinality(rest)
           m == (n + 4) \div 5
<1>1. IsFiniteSet(rest)
  BY ConstantFacts, FS_Subset
<1>2. n \in Nat /\ ExistsBijection(1 .. n, rest)
  BY <1>1, FS_CardinalityType
<1>3. m \in Nat /\ m <= n
  BY <1>2
<1>4. PICK b \in Bijection(1 .. n, rest) : TRUE
  BY <1>2 DEF ExistsBijection
<1> HIDE DEF n, m
<1> DEFINE d == {b[i] : i \in 1 .. m}
           r == [i \in 1 .. m |-> b[i]]
<1>5. /\ b \in [1 .. n -> rest]
      /\ \A i, j \in 1 .. n : b[i] = b[j] => i = j
  BY <1>4 DEF Bijection, Injection, IsInjective
<1>6. 1 .. m \subseteq 1 .. n
  BY <1>2, <1>3
<1>7. d \in SUBSET rest
  BY <1>5, <1>6
<1>8. r \in Bijection(1 .. m, d)
  BY <1>5, <1>6 DEF Bijection, Injection, IsInjective, Surjection
<1>9. Cardinality(d) = m
  <2>1. IsFiniteSet(1 .. m) /\ Cardinality(1 .. m) = m
    BY <1>3, FS_Interval
  <2> QED
    BY <1>8, <2>1, FS_Bijection DEF ExistsBijection
<1> HIDE DEF d
<1> QED
  BY <1>7, <1>9 DEF Drawn, m, n

\* The sample is of the dossier's claims and covers what the last round moved.
LEMMA SampleFacts ==
  ASSUME NEW f \in Finalists, dossier[f].tagged \subseteq Claims
  PROVE  /\ SampleOf(f) \subseteq Claims
         /\ \A k \in Moved(log[f].prev, log[f].last) : Section[k] \subseteq SampleOf(f)
<1> DEFINE moved == Moved(log[f].prev, log[f].last)
           effective == EffectiveLoadBearing(dossier[f], moved)
<1>1. moved \subseteq Criteria
  BY DEF Moved
<1> HIDE DEF moved
<1>2. effective \subseteq Claims /\ \A k \in moved : Section[k] \subseteq effective
  BY <1>1, ConstantFacts DEF EffectiveLoadBearing
<1> HIDE DEF effective
<1>3. Drawn(Claims \ effective) \subseteq Claims
  BY DrawnFacts
<1>4. SampleOf(f) = effective \cup Drawn(Claims \ effective)
  BY DEF SampleOf, VerifierSample, effective, moved
<1> QED
  BY <1>2, <1>3, <1>4 DEF moved

\* A round goes on only below the cap.
LEMMA VerdictFacts ==
  ASSUME NEW f \in Finalists, NEW screen, log[f].n \in Nat
  PROVE  /\ Verdict(f, screen) \in {"in-progress", "converged", "budget-capped"}
         /\ Verdict(f, screen) = "in-progress" => NextRound(f) < Cap
<1>1. \A delta, blocked : \A r \in Nat :
        /\ ShouldStop(delta, blocked, r) \in {"in-progress", "converged", "budget-capped"}
        /\ ShouldStop(delta, blocked, r) = "in-progress" => r < Cap
  <2> TAKE delta, blocked
  <2> TAKE r \in Nat
  <2> HIDE DEF Stable
  <2> QED
    BY ConstantFacts DEF ShouldStop
<1>2. NextRound(f) \in Nat
  BY DEF NextRound
<1> QED
  BY <1>1, <1>2 DEF Verdict

-----------------------------------------------------------------------------
(* Own, Quiet and the rest of TypeOK are IInv.                             *)

\* The parts of TypeOK that are about no single finalist.
Shared ==
  /\ ledger \subseteq [of: Finalists, claim: Claims, dive: Nat]
  /\ DOMAIN scores \in {{}, Finalists} /\ scores \in [DOMAIN scores -> Nat \X Nat]
  /\ proc \in {"idle", "diving", "done"}
  /\ held.contra \subseteq Claims
  /\ dive \in Nat /\ faults \in Nat

\* Every variable that is a function is one over the finalists.
Shape ==
  /\ dossier = [f \in Finalists |-> dossier[f]]
  /\ DOMAIN log = Finalists
  /\ report = [f \in Finalists |-> report[f]]
  /\ pc = [f \in Finalists |-> pc[f]]
  /\ paid = [f \in Finalists |-> paid[f]]
  /\ redone = [f \in Finalists |-> redone[f]]

LEMMA Parts == IInv <=> Shared /\ Shape /\ Quiet /\ \A f \in Finalists : Own(f)
<1>1. ASSUME IInv PROVE Shared /\ Shape /\ Quiet /\ \A f \in Finalists : Own(f)
  BY <1>1 DEF IInv, TypeOK, Shared, Shape, Own, DossierType, ReportType
<1>2. ASSUME Shared, Shape, Quiet, \A f \in Finalists : Own(f) PROVE IInv
  <2>1. TypeOK
    <3>1. dossier \in [Finalists -> DossierType]
      BY <1>2 DEF Shape, Own
    <3>2. report \in [Finalists -> ReportType]
      BY <1>2 DEF Shape, Own
    <3>3. /\ pc \in [Finalists -> Points]
          /\ paid \in [Finalists -> Nat] /\ redone \in [Finalists -> Nat]
      BY <1>2 DEF Shape, Own
    <3>4. DOMAIN log = Finalists /\ \A f \in Finalists : LogOK(log[f])
      BY <1>2 DEF Shape, Own
    <3> QED
      BY <1>2, <3>1, <3>2, <3>3, <3>4 DEF TypeOK, Shared, DossierType, ReportType
  <2> QED
    BY <1>2, <2>1 DEF IInv, Own
<1> QED
  BY <1>1, <1>2

\* The same, one step on.
LEMMA NextParts ==
  (Shared /\ Shape /\ Quiet /\ \A f \in Finalists : Own(f))' => IInv'
BY Parts, PTL

\* A finalist nothing was done about, as at the start and after a rerun.
Untouched(f) ==
  /\ dossier[f] = NoDossier /\ log[f] = NoRounds(f) /\ report[f] = NoReport
  /\ pc[f] = "loop" /\ paid[f] = 0 /\ redone[f] = 0

LEMMA Fresh == \A f \in Finalists : Untouched(f) => Own(f)
<1> SUFFICES ASSUME NEW f \in Finalists, Untouched(f) PROVE Own(f)
  OBVIOUS
<1> USE DEF Untouched
<1>1. dossier[f] \in DossierType /\ report[f] \in ReportType
  BY DEF NoDossier, NoReport, DossierType, ReportType
<1>2. LogOK(log[f])
  BY ConstantFacts DEF NoRounds, LogOK
<1>3. Place(f)
  BY DEF Place
<1>4. Paced(f)
  BY ConstantFacts DEF Paced, NoDossier, NoRounds, NextRound
<1>5. Recorded(f)
  BY DEF Recorded, NoRounds
<1> QED
  BY <1>1, <1>2, <1>3, <1>4, <1>5 DEF Own, Points

LEMMA NextFresh ==
  (\A f \in Finalists : Untouched(f))' => (\A f \in Finalists : Own(f))'
<1>1. (\A f \in Finalists : Untouched(f)) => \A f \in Finalists : Own(f)
  BY Fresh
<1> QED
  BY <1>1, PTL

LEMMA InitInvariant == Init => IInv
<1> SUFFICES ASSUME Init PROVE IInv
  OBVIOUS
<1>1. Shared /\ Shape /\ Quiet
  BY DEF Init, Shared, Shape, Quiet, NothingHeld, Midway
<1>2. \A f \in Finalists : Untouched(f)
  BY DEF Init, Untouched
<1> QED
  BY <1>1, <1>2, Fresh, Parts

-----------------------------------------------------------------------------
(* A task's step.                                                          *)

\* What a step of f's task leaves of everything else.
Elsewhere(f) ==
  /\ Alone(f) /\ UNCHANGED <<scores, proc, redone, dive, faults>>
  /\ ledger \subseteq ledger' /\ ledger' \subseteq [of: Finalists, claim: Claims, dive: Nat]
  /\ held' = [screen |-> held'.screen, contra |-> held'.contra]
  /\ held'.contra \subseteq Claims
  /\ Shape'
  /\ \A g \in Finalists \ {f} :
       /\ dossier'[g] = dossier[g] /\ log'[g] = log[g] /\ report'[g] = report[g]
       /\ pc'[g] = pc[g] /\ paid'[g] = paid[g]

\* A finalist whose task is not inside a block keeps what held of it.
LEMMA OthersKept ==
  ASSUME NEW f \in Finalists, Elsewhere(f), NEW g \in Finalists \ {f}, Own(g)
  PROVE  Own(g)'
<1>1. /\ dossier'[g] = dossier[g] /\ log'[g] = log[g] /\ report'[g] = report[g]
      /\ pc'[g] = pc[g] /\ paid'[g] = paid[g] /\ pc[g] \notin Midway
      /\ redone' = redone /\ ledger \subseteq ledger'
  BY DEF Elsewhere, Alone
<1>2. dossier'[g] \in DossierType /\ report'[g] \in ReportType /\ LogOK(log[g])'
  BY <1>1 DEF Own, LogOK, DossierType, ReportType
<1>3. Place(g)'
  BY <1>1 DEF Own, Place, Midway, NextRound
<1>4. Paced(g)'
  BY <1>1 DEF Own, Paced, NextRound
<1>5. Recorded(g)'
  BY <1>1 DEF Own, Recorded, Ledgered, MovedClaimsVerified, Moved, Text
<1> QED
  BY <1>1, <1>2, <1>3, <1>4, <1>5 DEF Own, DossierType, ReportType

LEMMA TaskStepKeeps ==
  ASSUME IInv, NEW f \in Finalists, Elsewhere(f), Own(f)'
  PROVE  IInv'
<1>1. Shared /\ Quiet /\ \A g \in Finalists : Own(g)
  BY Parts
<1>2. (\A g \in Finalists : Own(g))'
  BY <1>1, OthersKept
<1>3. Shared' /\ Shape'
  BY <1>1 DEF Shared, Elsewhere
<1>4. Quiet'
  <2>1. proc' = "diving" /\ DOMAIN scores' = {}
    BY <1>1 DEF Elsewhere, Alone, Quiet
  <2>2. \A g \in Finalists : pc'[g] \in Midway => g = f
    BY DEF Elsewhere, Alone
  <2> QED
    BY <2>1, <2>2 DEF Quiet, Elsewhere
<1> QED
  BY <1>2, <1>3, <1>4, NextParts

LEMMA RescoringKeeps ==
  ASSUME IInv, NEW f \in Finalists, Rescoring(f)
  PROVE  IInv'
<1>1. Own(f) /\ Shape /\ Shared /\ Quiet
  BY Parts
<1>2. Elsewhere(f)
  BY <1>1 DEF Rescoring, spent, AtLoop, Goto, Elsewhere, Shape, Shared, Quiet, files
<1>3. /\ dossier'[f] = dossier[f] /\ log'[f] = log[f] /\ report'[f] = report[f]
      /\ paid'[f] = paid[f] /\ pc'[f] = "rescore" /\ pc[f] = "loop"
      /\ redone' = redone /\ ledger' = ledger
      /\ log[f].status = "in-progress" /\ Ahead(f)
  BY <1>1 DEF Rescoring, spent, AtLoop, Goto, Shape, files
<1>4. (dossier[f] \in DossierType /\ report[f] \in ReportType /\ LogOK(log[f]))'
  BY <1>1, <1>3 DEF Own, LogOK, DossierType, ReportType
<1>5. Place(f)'
  BY <1>1, <1>3 DEF Own, Place, Paced, Ahead, NextRound, LogOK
<1>6. Paced(f)'
  BY <1>1, <1>3 DEF Own, Paced, NextRound
<1>7. Recorded(f)'
  BY <1>1, <1>3 DEF Own, Recorded, Ledgered, MovedClaimsVerified, Moved, Text
<1>8. Own(f)'
  BY <1>1, <1>3, <1>4, <1>5, <1>6, <1>7 DEF Own, Points
<1> QED
  BY <1>2, <1>8, TaskStepKeeps

LEMMA ResearchKeeps ==
  ASSUME IInv, NEW f \in Finalists, Research(f)
  PROVE  IInv'
<1>1. Own(f) /\ Shape /\ Shared /\ Quiet
  BY Parts
<1>2. Elsewhere(f)
  BY <1>1 DEF Research, spent, AtLoop, Goto, Elsewhere, Shape, Shared, Quiet
<1>3. PICK d \in Drafts[f] :
        dossier' = [dossier EXCEPT ![f] =
          [round |-> NextRound(f), rev |-> 0, low |-> d.low, tagged |-> d.tagged,
           stamp |-> d.stamp]]
  BY DEF Research
<1>4. /\ dossier'[f] = [round |-> NextRound(f), rev |-> 0, low |-> d.low,
                        tagged |-> d.tagged, stamp |-> d.stamp]
      /\ log'[f] = log[f] /\ report'[f] = report[f]
      /\ paid'[f] = paid[f] + 1 /\ pc'[f] = "rescore" /\ pc[f] = "loop"
      /\ redone' = redone /\ ledger' = ledger
      /\ log[f].status = "in-progress" /\ ~Ahead(f)
  BY <1>1, <1>3 DEF Research, spent, AtLoop, Goto, Shape
<1>5. log[f].n \in Nat /\ NextRound(f) = log[f].n + 1 /\ dossier[f].round = log[f].n
  BY <1>1, <1>4 DEF Own, LogOK, Paced, Ahead, NextRound, DossierType
<1>6. d \in Draft
  BY ConstantFacts
<1>7. (dossier[f] \in DossierType /\ report[f] \in ReportType /\ LogOK(log[f]))'
  BY <1>1, <1>4, <1>5, <1>6 DEF Own, LogOK, DossierType, ReportType, Draft
<1>8. Place(f)'
  BY <1>4, <1>5 DEF Place, NextRound
<1>9. Paced(f)' /\ paid'[f] \in Nat /\ redone'[f] \in Nat
  <2>1. redone'[f] = 0 /\ ~log[f].revised
    BY <1>1, <1>4 DEF Own, Paced, LogOK
  <2> QED
    BY <1>1, <1>4, <1>5, <2>1, ConstantFacts DEF Own, Paced, NextRound, LogOK
<1>10. Recorded(f)'
  BY <1>1, <1>4 DEF Own, Recorded, LogOK
<1>11. Own(f)'
  BY <1>4, <1>7, <1>8, <1>9, <1>10 DEF Own, Points
<1> QED
  BY <1>2, <1>11, TaskStepKeeps

\* A round is appended after its dossier, with the verdict on it.
LEMMA AppendedOwn ==
  ASSUME IInv, NEW f \in Finalists, pc[f] \in {"rescore", "append"},
         NEW screen \in [Criteria -> Scores],
         NEW status \in {"in-progress", "converged", "budget-capped"},
         status = "in-progress" => NextRound(f) < Cap,
         status = "budget-capped" => dossier[f].stamp,
         log' = Appended(f, screen, status), pc'[f] = "loop",
         UNCHANGED <<dossier, report, spent>>
  PROVE  Own(f)'
<1>1. Own(f) /\ Shape /\ Shared
  BY Parts
<1> DEFINE L == [log[f] EXCEPT !.n = NextRound(f), !.prev = log[f].last, !.last = screen,
                               !.of = Text(dossier[f]), !.status = status]
<1>2. log' = [log EXCEPT ![f] = L]
  BY DEF Appended
<1> HIDE DEF L
<1>10. log'[f] = L
  BY <1>1, <1>2 DEF Shape
<1>3. /\ log[f].status = "in-progress" /\ log[f].n \in Nat /\ log[f].n < Cap
      /\ dossier[f].round = log[f].n + 1
      /\ log[f].sampled = {} /\ log[f].contra = {} /\ ~log[f].revised
  BY <1>1 DEF Own, Place, Paced, LogOK, NextRound
<1>4. log'[f] = [n |-> log[f].n + 1, prev |-> log[f].last, last |-> screen,
                 of |-> Text(dossier[f]), status |-> status,
                 sampled |-> {}, contra |-> {}, revised |-> FALSE]
  BY <1>1, <1>10, <1>3 DEF Own, LogOK, L, NextRound
<1>5. Text(dossier[f]) \in Nat \X Nat
  BY <1>1 DEF Own, DossierType, Text
<1>6. (dossier[f] \in DossierType /\ report[f] \in ReportType /\ LogOK(log[f]))'
  BY <1>1, <1>3, <1>4, <1>5 DEF Own, LogOK, DossierType, ReportType
<1>7. Place(f)'
  BY DEF Place
<1>8. Paced(f)'
  <2>1. redone'[f] = redone[f] /\ redone[f] = 0 /\ pc[f] # "final" /\ ~log[f].revised
    BY <1>1, <1>3 DEF Own, Paced, LogOK, spent
  <2> QED
    BY <1>1, <1>3, <1>4, <2>1, ConstantFacts DEF Own, Paced, NextRound, Place, spent
<1>9. Recorded(f)'
  BY <1>4 DEF Recorded, Text
<1> QED
  BY <1>1, <1>6, <1>7, <1>8, <1>9 DEF Own, Points, spent

LEMMA RescoreKeeps ==
  ASSUME IInv, NEW f \in Finalists, Rescore(f)
  PROVE  IInv'
<1>1. Own(f) /\ Shape /\ Shared /\ Quiet
  BY Parts
<1>2. PICK screen \in Screens[f] :
        /\ Verdict(f, screen) # "budget-capped"
        /\ log' = Appended(f, screen, Verdict(f, screen))
  BY DEF Rescore
<1>3. Elsewhere(f)
  BY <1>1, <1>2 DEF Rescore, spent, Appended, Goto, Elsewhere, Shape, Shared, Quiet
<1>4. screen \in [Criteria -> Scores]
  BY ConstantFacts
<1>5. /\ Verdict(f, screen) \in {"in-progress", "converged", "budget-capped"}
      /\ Verdict(f, screen) = "in-progress" => NextRound(f) < Cap
  BY <1>1, VerdictFacts DEF Own, LogOK
<1>6. pc'[f] = "loop" /\ pc[f] = "rescore" /\ UNCHANGED <<dossier, report, spent>>
  BY <1>1 DEF Rescore, spent, Goto, Shape
<1>7. Own(f)'
  BY <1>2, <1>4, <1>5, <1>6, AppendedOwn
<1> QED
  BY <1>3, <1>7, TaskStepKeeps

LEMMA AppendCappedKeeps ==
  ASSUME IInv, NEW f \in Finalists, AppendCapped(f)
  PROVE  IInv'
<1>1. Own(f) /\ Shape /\ Shared /\ Quiet
  BY Parts
<1>2. Elsewhere(f)
  BY <1>1 DEF AppendCapped, spent, Appended, Goto, Elsewhere, Shape, Shared, Quiet, NothingHeld
<1>3. /\ pc'[f] = "loop" /\ pc[f] = "append" /\ UNCHANGED <<dossier, report, spent>>
      /\ log' = Appended(f, held.screen, "budget-capped")
  BY <1>1 DEF AppendCapped, spent, Goto, Shape
<1>4. dossier[f].stamp /\ held.screen \in [Criteria -> Scores]
  BY <1>1, <1>3 DEF Own, Place
<1>5. Own(f)'
  BY <1>3, <1>4, AppendedOwn
<1> QED
  BY <1>2, <1>5, TaskStepKeeps

LEMMA StampDossierKeeps ==
  ASSUME IInv, NEW f \in Finalists, StampDossier(f)
  PROVE  IInv'
<1>1. Own(f) /\ Shape /\ Shared /\ Quiet
  BY Parts
<1>2. PICK screen \in Screens[f] : held' = [held EXCEPT !.screen = screen]
  BY DEF StampDossier
<1>3. held' = [screen |-> screen, contra |-> held.contra]
  BY <1>1, <1>2 DEF Quiet
<1>4. Elsewhere(f)
  BY <1>1, <1>3 DEF StampDossier, spent, Goto, Elsewhere, Shape, Shared
<1>5. /\ dossier'[f] = [dossier[f] EXCEPT !.stamp = TRUE]
      /\ log'[f] = log[f] /\ report'[f] = report[f]
      /\ paid'[f] = paid[f] /\ pc'[f] = "append" /\ pc[f] = "rescore"
      /\ redone' = redone /\ ledger' = ledger /\ held'.screen \in [Criteria -> Scores]
  BY <1>1, <1>3, ConstantFacts DEF StampDossier, spent, Goto, Shape
<1>6. /\ dossier'[f] \in DossierType /\ dossier'[f].stamp
      /\ dossier'[f].round = dossier[f].round /\ dossier'[f].rev = dossier[f].rev
  BY <1>1, <1>5 DEF Own, DossierType
<1>7. (dossier[f] \in DossierType /\ report[f] \in ReportType /\ LogOK(log[f]))'
  BY <1>1, <1>5, <1>6 DEF Own, LogOK, DossierType, ReportType
<1>8. Place(f)'
  BY <1>1, <1>5, <1>6 DEF Own, Place, NextRound
<1>9. Paced(f)'
  BY <1>1, <1>5, <1>6 DEF Own, Paced, NextRound
<1>10. Recorded(f)'
  BY <1>1, <1>5 DEF Own, Recorded, Place, LogOK
<1>11. Own(f)'
  BY <1>1, <1>5, <1>7, <1>8, <1>9, <1>10 DEF Own, Points
<1> QED
  BY <1>4, <1>11, TaskStepKeeps

LEMMA VerifyKeeps ==
  ASSUME IInv, NEW f \in Finalists, Verify(f)
  PROVE  IInv'
<1>1. Own(f) /\ Shape /\ Shared /\ Quiet
  BY Parts
<1>2. PICK contra \in SUBSET Adjudicable(f) :
        /\ ledger' = ledger \cup Disputed(f, contra)
        /\ held' = [held EXCEPT !.contra = contra]
  BY DEF Verify
<1>3. contra \subseteq SampleOf(f) /\ contra \subseteq Claims
  BY <1>1, SampleFacts DEF Adjudicable, Own, DossierType
<1>4. held' = [screen |-> held.screen, contra |-> contra]
  BY <1>1, <1>2 DEF Quiet
<1>5. ledger' \subseteq [of: Finalists, claim: Claims, dive: Nat]
  BY <1>1, <1>2, <1>3 DEF Shared, Disputed
<1>6. Elsewhere(f)
  BY <1>1, <1>2, <1>3, <1>4, <1>5 DEF Verify, spent, AtLoop, Goto, Elsewhere, Shape
<1>7. /\ dossier'[f] = dossier[f] /\ log'[f] = log[f] /\ report'[f] = report[f]
      /\ paid'[f] = paid[f] /\ pc'[f] = "report" /\ pc[f] = "loop" /\ redone' = redone
      /\ log[f].status # "in-progress" /\ log[f].sampled = {}
  BY <1>1 DEF Verify, spent, AtLoop, Goto, Shape
<1>8. \A c \in contra : \E e \in ledger' : e.of = f /\ e.claim = c
  <2> SUFFICES ASSUME NEW c \in contra PROVE \E e \in ledger' : e.of = f /\ e.claim = c
    OBVIOUS
  <2>1. CASE \A e \in ledger : e.of # f \/ e.claim # c
    <3>1. [of |-> f, claim |-> c, dive |-> dive] \in ledger'
      BY <1>2, <2>1 DEF Disputed
    <3> QED
      BY <3>1
  <2>2. CASE \E e \in ledger : e.of = f /\ e.claim = c
    BY <1>2, <2>2
  <2> QED
    BY <2>1, <2>2
<1>9. (dossier[f] \in DossierType /\ report[f] \in ReportType /\ LogOK(log[f]))'
  BY <1>1, <1>7 DEF Own, LogOK, DossierType, ReportType
<1>10. SampleOf(f)' = SampleOf(f)
  BY <1>7 DEF SampleOf
<1>11. Place(f)'
  BY <1>3, <1>4, <1>7, <1>8, <1>10 DEF Place, Ledgered
<1>12. Paced(f)'
  BY <1>1, <1>7 DEF Own, Paced, NextRound
<1>13. Recorded(f)'
  BY <1>1, <1>7 DEF Own, Recorded, Text
<1>14. Own(f)'
  BY <1>1, <1>7, <1>9, <1>11, <1>12, <1>13 DEF Own, Points
<1> QED
  BY <1>6, <1>14, TaskStepKeeps

LEMMA WriteReportKeeps ==
  ASSUME IInv, NEW f \in Finalists, WriteReport(f)
  PROVE  IInv'
<1>1. Own(f) /\ Shape /\ Shared /\ Quiet
  BY Parts
<1>2. Elsewhere(f)
  BY <1>1 DEF WriteReport, spent, Goto, Elsewhere, Shape, Shared, Quiet
<1>3. /\ dossier'[f] = dossier[f] /\ log'[f] = log[f]
      /\ report'[f] = [made |-> TRUE, contra |-> held.contra]
      /\ paid'[f] = paid[f] /\ pc'[f] = "record" /\ pc[f] = "report" /\ redone' = redone
      /\ ledger' = ledger /\ held' = held
  BY <1>1 DEF WriteReport, spent, Goto, Shape
<1>4. /\ log[f].status # "in-progress" /\ log[f].sampled = {}
      /\ held.contra \subseteq SampleOf(f) /\ Ledgered(f, held.contra)
  BY <1>1, <1>3 DEF Own, Place
<1>5. (dossier[f] \in DossierType /\ report[f] \in ReportType /\ LogOK(log[f]))'
  BY <1>1, <1>3 DEF Own, LogOK, DossierType, ReportType, Shared
<1>6. SampleOf(f)' = SampleOf(f)
  BY <1>3 DEF SampleOf
<1>7. Place(f)'
  BY <1>3, <1>4, <1>6 DEF Place, Ledgered
<1>8. Paced(f)'
  BY <1>1, <1>3 DEF Own, Paced, NextRound
<1>9. Recorded(f)'
  BY <1>1, <1>3, <1>4 DEF Own, Recorded, Text
<1>10. Own(f)'
  BY <1>1, <1>3, <1>5, <1>7, <1>8, <1>9 DEF Own, Points
<1> QED
  BY <1>2, <1>10, TaskStepKeeps

LEMMA RecordVerificationKeeps ==
  ASSUME IInv, NEW f \in Finalists, RecordVerification(f)
  PROVE  IInv'
<1>1. Own(f) /\ Shape /\ Shared /\ Quiet
  BY Parts
<1>2. Elsewhere(f)
  BY <1>1 DEF RecordVerification, spent, Goto, Elsewhere, Shape, Shared, Quiet, NothingHeld
<1>3. /\ dossier'[f] = dossier[f] /\ report'[f] = report[f] /\ paid'[f] = paid[f]
      /\ log'[f] = [log[f] EXCEPT !.sampled = SampleOf(f), !.contra = held.contra]
      /\ pc'[f] = "loop" /\ pc[f] = "record" /\ redone' = redone /\ ledger' = ledger
  BY <1>1 DEF RecordVerification, spent, Goto, Shape
<1>4. /\ log[f].status # "in-progress" /\ log[f].sampled = {} /\ log[f].contra = {}
      /\ log[f].revised = FALSE
      /\ held.contra \subseteq SampleOf(f) /\ Ledgered(f, held.contra)
      /\ report[f].made /\ report[f].contra = held.contra
  BY <1>1, <1>3 DEF Own, Place, LogOK
<1>5. /\ SampleOf(f) \subseteq Claims
      /\ \A k \in Moved(log[f].prev, log[f].last) : Section[k] \subseteq SampleOf(f)
  BY <1>1, SampleFacts DEF Own, DossierType
<1>6. /\ log'[f].n = log[f].n /\ log'[f].prev = log[f].prev /\ log'[f].last = log[f].last
      /\ log'[f].of = log[f].of /\ log'[f].status = log[f].status
      /\ log'[f].sampled = SampleOf(f) /\ log'[f].contra = held.contra
      /\ log'[f].revised = FALSE
  BY <1>1, <1>3, <1>4 DEF Own, LogOK
<1>7. LogOK(log[f])'
  <2>1. log'[f] = [n |-> log[f].n, prev |-> log[f].prev, last |-> log[f].last,
                   of |-> log[f].of, status |-> log[f].status,
                   sampled |-> SampleOf(f), contra |-> held.contra, revised |-> FALSE]
    BY <1>1, <1>3, <1>4 DEF Own, LogOK
  <2> QED
    BY <1>1, <1>4, <1>5, <2>1 DEF Own, LogOK
<1>8. (dossier[f] \in DossierType /\ report[f] \in ReportType)'
  BY <1>1, <1>3 DEF Own, DossierType, ReportType
<1>9. Place(f)'
  BY <1>3 DEF Place
<1>10. Paced(f)'
  BY <1>1, <1>3, <1>4, <1>6 DEF Own, Paced, NextRound
<1>11. MovedClaimsVerified(f)'
  BY <1>5, <1>6 DEF MovedClaimsVerified, Moved
<1>12. Recorded(f)'
  BY <1>1, <1>3, <1>4, <1>6, <1>11 DEF Own, Recorded, Text, Ledgered
<1>13. Own(f)'
  BY <1>1, <1>3, <1>7, <1>8, <1>9, <1>10, <1>12 DEF Own, Points
<1> QED
  BY <1>2, <1>13, TaskStepKeeps

LEMMA ReviseKeeps ==
  ASSUME IInv, NEW f \in Finalists, Revise(f)
  PROVE  IInv'
<1>1. Own(f) /\ Shape /\ Shared /\ Quiet
  BY Parts
<1>2. Elsewhere(f)
  BY <1>1 DEF Revise, spent, AtLoop, Goto, Elsewhere, Shape, Shared, Quiet
<1>3. PICK d \in Drafts[f] :
        dossier' = [dossier EXCEPT ![f] =
          [@ EXCEPT !.rev = dossier[f].rev + 1, !.low = d.low, !.tagged = d.tagged,
                    !.stamp = StampAfterRevision(f, d)]]
  BY DEF Revise
<1>4. d \in Draft
  BY ConstantFacts
<1>5. dossier'[f] = [round |-> dossier[f].round, rev |-> dossier[f].rev + 1,
                     low |-> d.low, tagged |-> d.tagged,
                     stamp |-> StampAfterRevision(f, d)]
  BY <1>1, <1>3 DEF Shape, Own, DossierType
<1>6. /\ log'[f] = log[f] /\ report'[f] = report[f] /\ paid'[f] = paid[f]
      /\ pc'[f] = "final" /\ pc[f] = "loop" /\ redone' = redone /\ ledger' = ledger
      /\ log[f].contra # {} /\ ~log[f].revised
  BY <1>1 DEF Revise, spent, AtLoop, Goto, Shape
<1>7. log[f].status # "in-progress"
  BY <1>1, <1>6 DEF Own, LogOK
<1>8. (dossier[f] \in DossierType /\ report[f] \in ReportType /\ LogOK(log[f]))'
  BY <1>1, <1>4, <1>5, <1>6 DEF Own, LogOK, DossierType, ReportType, Draft,
                                StampAfterRevision
<1>9. Place(f)'
  BY <1>6, <1>7 DEF Place
<1>10. Paced(f)'
  <2>1. dossier[f].rev = redone[f] /\ redone[f] \in Nat
    BY <1>1, <1>6 DEF Own, Paced
  <2> QED
    BY <1>1, <1>5, <1>6, <1>7, <2>1 DEF Own, Paced, NextRound
<1>11. Recorded(f)'
  <2>1. ASSUME log[f].status = "budget-capped" PROVE dossier'[f].stamp
    <3>1. StampAfterRevision(f, d) = TRUE
      BY <2>1, <1>4 DEF StampAfterRevision, Draft
    <3> QED
      BY <1>5, <3>1
  <2>2. MovedClaimsVerified(f) => MovedClaimsVerified(f)'
    BY <1>6 DEF MovedClaimsVerified, Moved
  <2> QED
    BY <1>1, <1>6, <2>1, <2>2 DEF Own, Recorded, Ledgered
<1>12. Own(f)'
  BY <1>1, <1>6, <1>8, <1>9, <1>10, <1>11 DEF Own, Points
<1> QED
  BY <1>2, <1>12, TaskStepKeeps

LEMMA FinalRescoreKeeps ==
  ASSUME IInv, NEW f \in Finalists, FinalRescore(f)
  PROVE  IInv'
<1>1. Own(f) /\ Shape /\ Shared /\ Quiet
  BY Parts
<1>2. Elsewhere(f)
  BY <1>1 DEF FinalRescore, spent, Goto, Elsewhere, Shape, Shared, Quiet
<1>3. /\ dossier'[f] = dossier[f] /\ report'[f] = report[f] /\ paid'[f] = paid[f]
      /\ log'[f] = [log[f] EXCEPT !.revised = TRUE, !.of = Text(dossier[f])]
      /\ pc'[f] = "loop" /\ pc[f] = "final" /\ redone' = redone /\ ledger' = ledger
  BY <1>1 DEF FinalRescore, spent, Goto, Shape
<1>4. log[f].status # "in-progress" /\ log[f].contra # {}
  BY <1>1, <1>3 DEF Own, Place
<1>5. log'[f] = [n |-> log[f].n, prev |-> log[f].prev, last |-> log[f].last,
                 of |-> Text(dossier[f]), status |-> log[f].status,
                 sampled |-> log[f].sampled, contra |-> log[f].contra, revised |-> TRUE]
  BY <1>1, <1>3 DEF Own, LogOK
<1>6. Text(dossier[f]) \in Nat \X Nat
  BY <1>1 DEF Own, DossierType, Text
<1>7. LogOK(log[f])'
  BY <1>1, <1>4, <1>5, <1>6 DEF Own, LogOK
<1>8. (dossier[f] \in DossierType /\ report[f] \in ReportType)'
  BY <1>1, <1>3 DEF Own, DossierType, ReportType
<1>9. Place(f)'
  BY <1>3 DEF Place
<1>10. Paced(f)'
  BY <1>1, <1>3, <1>4, <1>5 DEF Own, Paced, NextRound
<1>11. Recorded(f)'
  BY <1>1, <1>3, <1>5
     DEF Own, Recorded, Ledgered, MovedClaimsVerified, Moved, Text
<1>12. Own(f)'
  BY <1>1, <1>3, <1>7, <1>8, <1>9, <1>10, <1>11 DEF Own, Points
<1> QED
  BY <1>2, <1>12, TaskStepKeeps

-----------------------------------------------------------------------------
(* The stage's own steps: the files about a finalist stay as they are, or  *)
(* all of them go.                                                         *)

LEMMA FilesKept ==
  ASSUME NEW f \in Finalists, Own(f), UNCHANGED <<dossier, log, report, ledger, paid>>,
         \/ pc'[f] = pc[f] /\ held' = held /\ redone' = redone
         \/ /\ pc'[f] = "loop"
            /\ redone'[f] = redone[f] + IF pc[f] = "final" THEN 1 ELSE 0
  PROVE  Own(f)'
<1>1. (dossier[f] \in DossierType /\ report[f] \in ReportType /\ LogOK(log[f]))'
  BY DEF Own, LogOK, DossierType, ReportType
<1>2. SampleOf(f)' = SampleOf(f)
  BY DEF SampleOf
<1>3. Place(f)'
  <2>1. CASE pc'[f] = pc[f] /\ held' = held
    BY <1>2, <2>1 DEF Own, Place, NextRound, Ledgered
  <2>2. CASE pc'[f] = "loop"
    BY <2>2 DEF Place
  <2> QED
    BY <2>1, <2>2
<1>4. Paced(f)' /\ redone'[f] \in Nat
  <2>1. pc[f] = "final" => ~log[f].revised /\ log[f].status # "in-progress"
    BY DEF Own, Place
  <2> QED
    BY <2>1 DEF Own, Paced, NextRound
<1>5. Recorded(f)'
  BY DEF Own, Recorded, Ledgered, MovedClaimsVerified, Moved, Text
<1> QED
  BY <1>1, <1>3, <1>4, <1>5 DEF Own, Points

\* A pause, wherever the tasks are.
LEMMA PauseKeeps ==
  ASSUME IInv, BackToIdle, faults' = faults + 1, UNCHANGED <<files, paid, dive>>,
         \A f \in DOMAIN scores : Settled(f) /\ scores[f] = log[f].of
  PROVE  IInv'
<1>1. Shape /\ Shared /\ Quiet /\ \A f \in Finalists : Own(f)
  BY Parts
<1>2. Shape' /\ Shared'
  BY <1>1 DEF BackToIdle, NothingHeld, Shape, Shared, files
<1>3. Quiet'
  BY <1>1 DEF BackToIdle, NothingHeld, Quiet, Midway, Settled, files
<1>4. ASSUME NEW f \in Finalists PROVE Own(f)'
  BY <1>1, FilesKept DEF BackToIdle, Shared, files
<1> QED
  BY <1>2, <1>3, <1>4, NextParts

LEMMA ResumeKeeps == ASSUME IInv, Resume PROVE IInv'
<1>1. Shape /\ Shared /\ Quiet /\ \A f \in Finalists : Own(f)
  BY Parts
<1>2. Shape' /\ Shared'
  BY <1>1 DEF Resume, spent, Shape, Shared, files
<1>3. proc' = "diving" => DOMAIN scores = {}
  BY <1>1 DEF Resume, spent, Quiet, Shared
<1>4. Quiet'
  BY <1>1, <1>3 DEF Resume, spent, Quiet, Settled, files
<1>5. ASSUME NEW f \in Finalists PROVE Own(f)'
  BY <1>1, FilesKept DEF Resume, spent, Shared, files
<1> QED
  BY <1>2, <1>4, <1>5, NextParts

LEMMA SettleKeeps == ASSUME IInv, Settle PROVE IInv'
<1>1. Shape /\ Shared /\ Quiet /\ \A f \in Finalists : Own(f)
  BY Parts
<1>2. scores' \in [Finalists -> Nat \X Nat]
  BY <1>1 DEF Settle, spent, Own, LogOK
<1>3. Shape' /\ Shared'
  BY <1>1, <1>2 DEF Settle, spent, Shape, Shared
<1>4. Quiet'
  BY <1>1 DEF Settle, spent, Quiet, Settled
<1>5. ASSUME NEW f \in Finalists PROVE Own(f)'
  BY <1>1, FilesKept DEF Settle, spent, Shared
<1> QED
  BY <1>3, <1>4, <1>5, NextParts

LEMMA AgentFailsKeeps ==
  ASSUME IInv, NEW f \in Finalists, AgentFails(f) PROVE IInv'
<1>1. \A g \in DOMAIN scores : Settled(g) /\ scores[g] = log[g].of
  BY DEF IInv, Quiet
<1> QED
  BY <1>1, PauseKeeps DEF AgentFails

LEMMA KillKeeps == ASSUME IInv, Kill PROVE IInv'
<1>1. \A g \in DOMAIN scores : Settled(g) /\ scores[g] = log[g].of
  BY DEF IInv, Quiet
<1> QED
  BY <1>1, PauseKeeps DEF Kill

LEMMA RerunKeeps == ASSUME IInv, Rerun PROVE IInv'
<1>1. Shape /\ Shared /\ Quiet
  BY Parts
<1>2. \A f \in Finalists : pc[f] = "loop"
  BY <1>1 DEF Rerun, Quiet
<1>3. Shape' /\ Shared'
  BY <1>1 DEF Rerun, Shape, Shared
<1>4. Quiet'
  BY <1>1, <1>2 DEF Rerun, Quiet, Midway
<1>5. (\A f \in Finalists : Untouched(f))'
  BY <1>1, <1>2 DEF Rerun, Untouched, Shared, NoRounds
<1>6. (\A f \in Finalists : Own(f))'
  BY <1>5, NextFresh
<1> QED
  BY <1>3, <1>4, <1>6, NextParts

LEMMA NextInvariant == IInv /\ [Next]_vars => IInv'
<1> SUFFICES ASSUME IInv, [Next]_vars PROVE IInv'
  OBVIOUS
<1>1. ASSUME NEW f \in Finalists, TaskStep(f) PROVE IInv'
  BY <1>1, RescoringKeeps, ResearchKeeps, RescoreKeeps, StampDossierKeeps,
     AppendCappedKeeps, VerifyKeeps, WriteReportKeeps, RecordVerificationKeeps,
     ReviseKeeps, FinalRescoreKeeps DEF TaskStep
<1>2. ASSUME NEW f \in Finalists, AgentFails(f) PROVE IInv'
  BY <1>2, AgentFailsKeeps
<1>3. CASE Resume
  BY <1>3, ResumeKeeps
<1>4. CASE Settle
  BY <1>4, SettleKeeps
<1>5. CASE Kill
  BY <1>5, KillKeeps
<1>6. CASE Rerun
  BY <1>6, RerunKeeps
<1>7. CASE UNCHANGED vars
  <2>1. Shape /\ Shared /\ Quiet /\ \A f \in Finalists : Own(f)
    BY Parts
  <2>2. Shape' /\ Shared' /\ Quiet'
    BY <1>7, <2>1 DEF vars, files, spent, Shape, Shared, Quiet, Settled
  <2>3. ASSUME NEW f \in Finalists PROVE Own(f)'
    BY <1>7, <2>1, FilesKept DEF vars, files, spent, Shared
  <2> QED
    BY <2>2, <2>3, NextParts
<1> QED
  BY <1>1, <1>2, <1>3, <1>4, <1>5, <1>6, <1>7 DEF Next

-----------------------------------------------------------------------------
(* The theorems.                                                           *)

\* The inductive invariant holds in every reachable state.
THEOREM Invariant == Spec => []IInv
<1>1. Init => IInv
  BY InitInvariant
<1>2. IInv /\ [Next]_vars => IInv'
  BY NextInvariant
<1> QED
  BY <1>1, <1>2, PTL DEF Spec

\* Whatever is killed or fails between two writes of a dive, the round log,
\* the dossier, the report and the board stay valid under their schemas: a
\* terminal status has a round, a verification a terminal status, a
\* contradiction a sampled claim and a revision a contradiction.
THEOREM TypeCorrect == Spec => []TypeOK
<1>1. IInv => TypeOK
  BY DEF IInv
<1> QED
  BY <1>1, Invariant, PTL

\* However often a dive is interrupted, no analyst round is bought twice or
\* beyond the cap, and every targeted revision but the recorded one was cut
\* off between the dossier it wrote and the log entry of its re-score.
THEOREM DepthIsBounded == Spec => []DepthBounded
<1>1. IInv => DepthBounded
  <2> SUFFICES ASSUME IInv, NEW f \in Finalists
               PROVE  /\ paid[f] = dossier[f].round /\ paid[f] <= Cap
                      /\ log[f].n <= paid[f] /\ paid[f] <= log[f].n + 1
                      /\ dossier[f].rev =
                           redone[f] + IF log[f].revised \/ pc[f] = "final" THEN 1 ELSE 0
    BY DEF DepthBounded
  <2>1. Own(f) /\ Shared
    BY Parts
  <2>2. dossier[f].rev \in Nat /\ dossier[f].round \in Nat /\ log[f].n \in Nat
    BY <2>1 DEF Own, DossierType, LogOK
  <2> QED
    BY <2>1, <2>2, ConstantFacts DEF Own, Paced, NextRound, Shared
<1> QED
  BY <1>1, Invariant, PTL

\* A dive the cap ended carries its UNRESOLVED stamp in every state, so also
\* between any two writes and after a revision replaced the dossier.
THEOREM CapVisible == Spec => []CapStaysVisible
<1>1. IInv => CapStaysVisible
  BY DEF IInv, Recorded, CapStaysVisible
<1> QED
  BY <1>1, Invariant, PTL

\* A settled finalist's score was given to the dossier on disk, its report and
\* the claims verified are those its log records, each contradiction recorded
\* has an entry of its id in the ledger, whichever dive wrote it, and the board
\* is of settled finalists only.
THEOREM SettledWhole == Spec => []SettledIsWhole
<1>1. IInv => SettledIsWhole
  <2> SUFFICES ASSUME IInv PROVE SettledIsWhole
    OBVIOUS
  <2>1. ASSUME NEW f \in Finalists, Settled(f)
        PROVE  /\ log[f].of = Text(dossier[f])
               /\ report[f].made /\ report[f].contra = log[f].contra
               /\ Ledgered(f, log[f].contra) /\ MovedClaimsVerified(f)
    BY <2>1 DEF IInv, Recorded, Settled
  <2>2. \A f \in DOMAIN scores : Settled(f) /\ scores[f] = log[f].of
    BY DEF IInv, Quiet
  <2> QED
    BY <2>1, <2>2 DEF SettledIsWhole, Ledgered
<1> QED
  BY <1>1, Invariant, PTL
=============================================================================
