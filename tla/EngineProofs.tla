---------------------------- MODULE EngineProofs ----------------------------
(***************************************************************************)
(* What the engine guarantees for every cap, notify mode and crash         *)
(* pattern.  The inductive invariant is IInv: the types, what a process    *)
(* may assume about state.json at each of its program points (Phase), and  *)
(* the order of the gates.  What is on disk behind the run follows from    *)
(* three more, one for each promise: Reached (the outputs), Fresh and      *)
(* Dived (the finalists), Kept (the decisions).                            *)
(***************************************************************************)
EXTENDS Engine, FiniteSetTheorems, TLAPS

InLoop == {"slots", "rediv", "dive", "archive", "loop-save"}
AtDecision == {"decided", "save"} \cup InLoop

GateFiles == \A g \in Gates : gfile[g] \in Answers[g] \cup {"absent", "template"}

\* state.json names a pending gate exactly at a gate, and the right one.
Pending ==
  /\ st.status = "gate-pending" <=> st.pending # "none"
  /\ \A g \in Gates : st.pending = g => st.stage = GateStage[g]
  /\ pc = "advance" => st.status = "running"

\* A process that holds a decision is at that decision's gate.
Deciding ==
  /\ pc \in AtDecision => st.pending \in Gates /\ dec \in Answers[st.pending]
  /\ pc \in AtDecision => dec \in Decisions
  /\ pc \in InLoop => dec \in LoopDecisions /\ st.iters < MaxGateCLoops
  /\ pc = "save" => dec \in {"approve", "edit", "hint"}
  /\ pc \in {"slots", "rediv", "dive"} => 7 \in written
  /\ pc = "dive" => undived > 0

\* What holds between any two writes.
Phase == GateFiles /\ Pending /\ Deciding

\* An invalidation never moves a run forward.
Backwards == Invalidating => target <= st.stage

\* The inductive invariant, where no rerun names a stage ahead of the run.
IInv == TypeOK /\ Phase /\ Backwards /\ GateOrder

-----------------------------------------------------------------------------
(* Facts about the constant tables.                                        *)

LEMMA GateStages ==
  /\ Gates = {"A", "B", "C"}
  /\ GateStage["A"] = 1 /\ GateStage["B"] = 4 /\ GateStage["C"] = 7
  /\ \A g \in Gates : GateStage[g] \in 0..8 /\ GateStage[g] + 1 \in 0..8
BY DEF Gates, GateStage

\* A decision tells its gate: hints and edits are Gate A's, loops Gate C's.
LEMMA AnswerFacts ==
  /\ \A g \in Gates : Answers[g] \subseteq {"draft"} \cup Decisions
  /\ \A g \in Gates : "hint" \in Answers[g] \/ "edit" \in Answers[g] => g = "A"
  /\ \A g \in Gates : Answers[g] \cap LoopDecisions # {} => g = "C"
  /\ \A g \in Gates : "approve" \in Answers[g]
BY DEF Gates, Answers, Decisions, LoopDecisions

LEMMA InitInvariant == Init => IInv
<1> SUFFICES ASSUME Init PROVE IInv
  OBVIOUS
<1> USE GateStages DEF Init
<1>1. StateOK
  BY DEF StateOK, State, Stages, Statuses, GateStatuses
<1>2. DiskOK
  <2>1. "absent" \in FileContents
    BY DEF FileContents
  <2>2. gfile \in [Gates -> FileContents]
    BY <2>1
  <2>3. archived \in [1..MaxGateCLoops -> FileContents]
    BY <2>1
  <2>4. written \subseteq Stages /\ stale \subseteq written /\ undived \in Nat
    OBVIOUS
  <2>5. /\ hint \in BOOLEAN /\ mapEdited \in BOOLEAN /\ proposal \in BOOLEAN
        /\ covered \in BOOLEAN /\ drawn \in BOOLEAN /\ moved \in BOOLEAN
        /\ jumped \subseteq Gates
    OBVIOUS
  <2> QED
    BY <2>2, <2>3, <2>4, <2>5 DEF DiskOK
<1>3. ProcessOK /\ FaultsOK
  <2>1. pc \in Points /\ target \in Stages /\ todo \in Stages
    BY DEF Points, Stages
  <2>2. merged \in BOOLEAN /\ dec = "none"
    OBVIOUS
  <2>3. FaultsOK
    BY DEF FaultsOK
  <2> QED
    BY <2>1, <2>2, <2>3 DEF ProcessOK
<1>4. Phase /\ Backwards
  BY DEF Phase, GateFiles, Pending, Deciding, Backwards, AtDecision, InLoop,
     Invalidating
<1>5. GateOrder
  BY DEF GateOrder
<1> QED
  BY <1>1, <1>2, <1>3, <1>4, <1>5 DEF IInv, TypeOK

-----------------------------------------------------------------------------
(* Types.  Each part of the state is written by a few actions and carried  *)
(* over by the others.                                                     *)

\* state.json is saved by these steps only.
LEMMA StateSavers ==
  [Next]_vars =>
    \/ UNCHANGED st
    \/ Resume \/ Advance
    \/ PauseOnAgentError /\ (st.status = "running" \/ pc \in AtDecision)
    \/ \E g \in Gates : EnterGate(g) \/ SaveApproval(g)
    \/ SaveRerunRequest \/ SaveLoop \/ SaveInvalidation
<1> SUFFICES ASSUME [Next]_vars, st' # st
             PROVE  \/ Resume \/ Advance
                    \/ /\ PauseOnAgentError
                       /\ st.status = "running" \/ pc \in AtDecision
                    \/ \E g \in Gates : EnterGate(g) \/ SaveApproval(g)
                    \/ SaveRerunRequest \/ SaveLoop \/ SaveInvalidation
  OBVIOUS
<1>1. \A s \in Stages : ~Rerun(s)
  BY DEF Rerun
<1>2. ~Halt /\ ~RefuseDecision /\ ~ApplyDecision /\ ~DeleteOutputs /\ ~Crash
  BY DEF Halt, RefuseDecision, ApplyDecision, DeleteOutputs, Crash
<1>3. StageStep => PauseOnAgentError /\ st.status = "running"
  BY DEF StageStep, SkipStage, InputsMissing, StageSucceeds, StageInterrupted,
     StageFails, AtStage
<1>4. GateStep => \E g \in Gates : EnterGate(g) \/ SaveApproval(g)
  BY DEF GateStep, StayAtGate, ReadDecision, DeleteGateFile
<1>5. LoopStep => (PauseOnAgentError /\ pc \in AtDecision) \/ SaveLoop
  BY DEF LoopStep, RefuseLoop, ApplyFeedback, ApplyFeedbackToDives, BoardsStand,
     SeatChampion, MergeChampion, LoopFails, ArchiveDecision, ReopenGateC,
     LoopAsked, AtDecision, InLoop
<1>6. \A g \in Gates : \A d \in Answers[g] : ~HumanWrites(g, d)
  BY DEF HumanWrites
<1>7. ~UNCHANGED vars
  BY DEF vars
<1> QED
  BY <1>1, <1>2, <1>3, <1>4, <1>5, <1>6, <1>7 DEF Next, ProcessStep

LEMMA StateTypeStep ==
  ASSUME TypeOK, Phase, [Next]_vars
  PROVE  StateOK'
<1> USE DEF TypeOK, StateOK, State
<1>1. CASE UNCHANGED st
  BY <1>1
<1>2. CASE Resume
  BY <1>2 DEF Resume, Statuses
<1>3. CASE Advance
  <2>1. CASE st.stage = 8
    BY <1>3, <2>1 DEF Advance, Statuses
  <2>2. CASE st.stage # 8
    <3>1. st.stage + 1 \in Stages
      BY <2>2 DEF Stages
    <3> QED
      BY <1>3, <2>2, <3>1 DEF Advance, Statuses
  <2> QED
    BY <2>1, <2>2
<1>4. CASE PauseOnAgentError
  BY <1>4 DEF PauseOnAgentError, Statuses
<1>5. ASSUME NEW g \in Gates, EnterGate(g) PROVE StateOK'
  BY <1>5 DEF EnterGate, Statuses, GateStatuses
<1>6. ASSUME NEW g \in Gates, SaveApproval(g) PROVE StateOK'
  <2>1. GateStage[g] + 1 \in Stages
    BY GateStages DEF Stages
  <2>2. [st.gates EXCEPT ![g] = "approved"] \in [Gates -> GateStatuses]
    BY DEF GateStatuses
  <2> QED
    BY <1>6, <2>1, <2>2 DEF SaveApproval, StageAfter, Statuses
<1>7. CASE SaveRerunRequest
  <2>1. [st.gates EXCEPT !["A"] = "rerun-requested"] \in [Gates -> GateStatuses]
    BY DEF GateStatuses
  <2>2. 1 \in Stages
    BY DEF Stages
  <2> QED
    BY <1>7, <2>1, <2>2 DEF SaveRerunRequest, Statuses
<1>8. CASE SaveLoop
  <2>1. st.iters + 1 \in Nat /\ st.rediv + 1 \in Nat
    OBVIOUS
  <2>2. CASE Rediverges
    BY <1>8, <2>1, <2>2 DEF SaveLoop, LoopInvalidates, RedivergenceRuns
  <2>3. CASE ~Rediverges
    BY <1>8, <2>1, <2>3 DEF SaveLoop, LoopInvalidates, RedivergenceRuns
  <2> QED
    BY <2>2, <2>3
<1>9. CASE SaveInvalidation
  <2>1. [g \in Gates |-> IF GateStage[g] >= target THEN "not-reached"
                                                   ELSE st.gates[g]]
          \in [Gates -> GateStatuses]
    BY DEF GateStatuses
  <2> QED
    BY <1>9, <2>1 DEF SaveInvalidation, GatesReset, ProcessOK, Statuses
<1> QED
  BY <1>1, <1>2, <1>3, <1>4, <1>5, <1>6, <1>7, <1>8, <1>9, StateSavers

\* The stages' outputs, the gates' files and the finalists.
files == <<written, stale, gfile, archived, undived>>

\* They are touched by these steps only.
LEMMA FileWriters ==
  [Next]_vars =>
    \/ UNCHANGED files
    \/ \E s \in Stages : StageSucceeds(s)
    \/ \E g \in Gates : \/ EnterGate(g) \/ StayAtGate(g) \/ ReadDecision(g)
                        \/ DeleteGateFile(g)
                        \/ \E d \in Answers[g] : HumanWrites(g, d)
    \/ SeatChampion \/ MergeChampion
    \/ ArchiveDecision \/ ReopenGateC \/ DeleteOutputs
<1> SUFFICES ASSUME [Next]_vars, ~UNCHANGED files
             PROVE  \/ \E s \in Stages : StageSucceeds(s)
                    \/ \E g \in Gates :
                         \/ EnterGate(g) \/ StayAtGate(g) \/ ReadDecision(g)
                         \/ DeleteGateFile(g)
                         \/ \E d \in Answers[g] : HumanWrites(g, d)
                    \/ SeatChampion \/ MergeChampion
                    \/ ArchiveDecision \/ ReopenGateC \/ DeleteOutputs
  OBVIOUS
<1> USE DEF files, disk, boards
<1>1. \A s \in Stages : ~Rerun(s)
  BY DEF Rerun
<1>2. /\ ~Resume /\ ~Halt /\ ~Advance /\ ~RefuseDecision /\ ~ApplyDecision
      /\ ~SaveRerunRequest /\ ~SaveInvalidation /\ ~Crash
  BY DEF Resume, Halt, Advance, RefuseDecision, ApplyDecision, SaveRerunRequest,
     SaveInvalidation, Crash, CutShort
<1>3. StageStep => \E s \in Stages : StageSucceeds(s)
  BY DEF StageStep, SkipStage, InputsMissing, StageInterrupted, StageFails,
     CutShort
<1>4. GateStep => \E g \in Gates : \/ EnterGate(g) \/ StayAtGate(g)
                                   \/ ReadDecision(g) \/ DeleteGateFile(g)
  BY DEF GateStep, SaveApproval
<1>5. LoopStep => \/ SeatChampion \/ MergeChampion
                  \/ ArchiveDecision \/ ReopenGateC
  BY DEF LoopStep, RefuseLoop, ApplyFeedback, ApplyFeedbackToDives, BoardsStand,
     LoopFails, SaveLoop
<1>6. ~UNCHANGED vars
  BY DEF vars
<1> QED
  BY <1>1, <1>2, <1>3, <1>4, <1>5, <1>6 DEF Next, ProcessStep

FilesOK ==
  /\ written \subseteq Stages /\ stale \subseteq written
  /\ gfile \in [Gates -> FileContents]
  /\ archived \in [1..MaxGateCLoops -> FileContents]
  /\ undived \in Nat

FlagsOK ==
  /\ hint \in BOOLEAN /\ mapEdited \in BOOLEAN /\ proposal \in BOOLEAN
  /\ covered \in BOOLEAN /\ drawn \in BOOLEAN /\ moved \in BOOLEAN
  /\ jumped \subseteq Gates

LEMMA FilesTypeStep ==
  ASSUME TypeOK, Phase, [Next]_vars
  PROVE  FilesOK'
<1> USE DEF TypeOK, DiskOK, FilesOK
<1>1. CASE UNCHANGED files
  BY <1>1 DEF files
<1>2. ASSUME NEW s \in Stages, StageSucceeds(s) PROVE FilesOK'
  BY <1>2 DEF StageSucceeds, CheckedOutputs
<1>3. ASSUME NEW g \in Gates, EnterGate(g) PROVE FilesOK'
  BY <1>3 DEF EnterGate, FileContents, boards
<1>4. ASSUME NEW g \in Gates, StayAtGate(g) PROVE FilesOK'
  BY <1>4 DEF StayAtGate, OnFile, FileContents, boards
<1>5. ASSUME NEW g \in Gates, ReadDecision(g) PROVE FilesOK'
  BY <1>5 DEF ReadDecision, DecisionRead, FileContents, Decisions, boards
<1>6. ASSUME NEW g \in Gates, DeleteGateFile(g) PROVE FilesOK'
  BY <1>6 DEF DeleteGateFile, FileContents, boards
<1>7. ASSUME NEW g \in Gates, NEW d \in Answers[g], HumanWrites(g, d)
      PROVE FilesOK'
  <2>1. d \in FileContents
    BY AnswerFacts DEF FileContents
  <2> QED
    BY <1>7, <2>1 DEF HumanWrites, boards
<1>8. CASE SeatChampion
  BY <1>8 DEF SeatChampion
<1>9. CASE MergeChampion
  BY <1>9 DEF MergeChampion, Phase, Deciding
<1>10. CASE ArchiveDecision
  <2>1. "absent" \in FileContents /\ gfile["C"] \in FileContents
    BY GateStages DEF FileContents
  <2> QED
    BY <1>10, <2>1 DEF ArchiveDecision, boards
<1>11. CASE ReopenGateC
  BY <1>11 DEF ReopenGateC, FileContents, boards
<1>12. CASE DeleteOutputs
  BY <1>12 DEF DeleteOutputs
<1> QED
  BY <1>1, <1>2, <1>3, <1>4, <1>5, <1>6, <1>7, <1>8, <1>9, <1>10, <1>11, <1>12,
     FileWriters

LEMMA FlagsTypeStep ==
  ASSUME TypeOK, [Next]_vars
  PROVE  FlagsOK'
<1> USE DEF TypeOK, DiskOK, FlagsOK, disk, boards
<1>1. CASE StageStep
  <2> PICK s \in Stages : \/ SkipStage(s) \/ InputsMissing(s) \/ StageSucceeds(s)
                          \/ StageInterrupted(s) \/ StageFails(s)
    BY <1>1 DEF StageStep
  <2>1. CASE StageSucceeds(s)
    BY <2>1 DEF StageSucceeds, HintAfter
  <2>2. CASE SkipStage(s) \/ InputsMissing(s) \/ StageInterrupted(s)
    BY <2>2 DEF SkipStage, InputsMissing, StageInterrupted
  <2>3. CASE StageFails(s)
    BY <2>3 DEF StageFails, CutShort
  <2> QED
    BY <2>1, <2>2, <2>3
<1>2. CASE GateStep
  BY <1>2 DEF GateStep, EnterGate, StayAtGate, ReadDecision, SaveApproval,
     DeleteGateFile
<1>3. CASE RefuseLoop \/ ApplyFeedback \/ ApplyFeedbackToDives \/ BoardsStand
  BY <1>3 DEF RefuseLoop, ApplyFeedback, ApplyFeedbackToDives, BoardsStand,
     BoardMoved
<1>4. CASE SeatChampion \/ MergeChampion \/ LoopFails \/ ArchiveDecision
  BY <1>4 DEF SeatChampion, MergeChampion, LoopFails, ArchiveDecision, BoardMoved
<1>5. CASE SaveLoop \/ ReopenGateC \/ Halt \/ Advance \/ Resume
  BY <1>5 DEF SaveLoop, ReopenGateC, Halt, Advance, Resume
<1>6. CASE RefuseDecision \/ ApplyDecision \/ SaveRerunRequest \/ DeleteOutputs
  BY <1>6 DEF RefuseDecision, ApplyDecision, SaveRerunRequest, DeleteOutputs
<1>7. CASE SaveInvalidation
  BY <1>7 DEF SaveInvalidation
<1>8. CASE (\E s \in Stages : Rerun(s)) \/ UNCHANGED vars
  BY <1>8 DEF Rerun, vars
<1>9. CASE \E g \in Gates : \E d \in Answers[g] : HumanWrites(g, d)
  BY <1>9 DEF HumanWrites
<1>10. CASE Crash
  BY <1>10 DEF Crash, CutShort
<1> QED
  BY <1>1, <1>2, <1>3, <1>4, <1>5, <1>6, <1>7, <1>8, <1>9, <1>10
  DEF Next, ProcessStep, LoopStep

LEMMA DiskTypeStep ==
  ASSUME TypeOK, Phase, [Next]_vars
  PROVE  DiskOK'
BY FilesTypeStep, FlagsTypeStep DEF DiskOK, FilesOK, FlagsOK

LEMMA ProcessTypeStep ==
  ASSUME TypeOK, Phase, [Next]_vars
  PROVE  ProcessOK'
<1> USE DEF TypeOK, ProcessOK, local
<1>1. CASE UNCHANGED vars \/ \E g \in Gates : \E d \in Answers[g] : HumanWrites(g, d)
  BY <1>1 DEF vars, HumanWrites
<1>2. CASE Resume \/ Halt \/ Advance \/ SaveInvalidation
  BY <1>2 DEF Resume, Halt, Advance, SaveInvalidation, Points, Stages
<1>3. CASE \E s \in Stages : Rerun(s)
  BY <1>3 DEF Rerun, Points
<1>4. CASE StageStep
  BY <1>4 DEF StageStep, SkipStage, InputsMissing, StageSucceeds,
     StageInterrupted, StageFails, PauseOnAgentError, Points
<1>5. CASE GateStep
  <2>1. ASSUME NEW g \in Gates, EnterGate(g) \/ StayAtGate(g) \/ SaveApproval(g)
        PROVE  ProcessOK'
    BY <2>1 DEF EnterGate, StayAtGate, SaveApproval, Points
  <2>2. ASSUME NEW g \in Gates, ReadDecision(g) PROVE ProcessOK'
    BY <2>2 DEF ReadDecision, Points
  <2>3. ASSUME NEW g \in Gates, DeleteGateFile(g) PROVE ProcessOK'
    BY <2>3 DEF DeleteGateFile, DeleteNext, Points, Stages
  <2> QED
    BY <1>5, <2>1, <2>2, <2>3 DEF GateStep
<1>6. CASE \/ RefuseLoop \/ ApplyFeedback \/ ApplyFeedbackToDives
           \/ BoardsStand \/ SeatChampion
  BY <1>6 DEF RefuseLoop, ApplyFeedback, ApplyFeedbackToDives, BoardsStand,
     SeatChampion, Points
<1>7. CASE MergeChampion \/ LoopFails \/ ArchiveDecision \/ ReopenGateC
  BY <1>7 DEF MergeChampion, LoopFails, PauseOnAgentError, ArchiveDecision,
     ReopenGateC, Points
<1>8. CASE SaveLoop
  <2>1. pc' \in {"inv", "reopen"} /\ target' \in {0, 7} /\ todo' \in {0, 7}
    BY <1>8 DEF SaveLoop, LoopInvalidates, RedivergenceRuns
  <2>2. merged' \in BOOLEAN /\ dec' = "none"
    BY <1>8 DEF SaveLoop, LoopInvalidates, RedivergenceRuns
  <2>3. pc' \in Points /\ target' \in Stages /\ todo' \in Stages
    BY <2>1 DEF Points, Stages
  <2> QED
    BY <2>2, <2>3
<1>9. CASE RefuseDecision \/ ApplyDecision
  BY <1>9 DEF RefuseDecision, ApplyDecision, Points
<1>10. CASE SaveRerunRequest
  BY <1>10 DEF SaveRerunRequest, Points, Stages
<1>11. CASE DeleteOutputs
  <2>1. pc' \in {"inv", "inv-gate", "inv-save"}
    BY <1>11 DEF DeleteOutputs, DeleteNext
  <2>2. todo' \in Stages
    BY <1>11 DEF DeleteOutputs, DeleteNext, Stages
  <2> QED
    BY <1>11, <2>1, <2>2 DEF DeleteOutputs, Points
<1>12. CASE Crash
  <2>1. merged' \in BOOLEAN /\ dec' = "none"
    BY <1>12 DEF Crash
  <2>2. pc' \in Points /\ target' \in Stages /\ todo' \in Stages
    BY <1>12 DEF Crash, Points, Stages
  <2> QED
    BY <2>1, <2>2
<1> QED
  BY <1>1, <1>2, <1>3, <1>4, <1>5, <1>6, <1>7, <1>8, <1>9, <1>10, <1>11, <1>12
  DEF Next, ProcessStep, LoopStep

LEMMA FaultsStep ==
  ASSUME TypeOK, [Next]_vars
  PROVE  FaultsOK'
<1> USE DEF TypeOK, FaultsOK
<1>1. CASE UNCHANGED faults
  BY <1>1
<1>2. CASE faults' = [faults EXCEPT !.crashes = @ + 1]
  BY <1>2
<1>3. CASE faults' = [faults EXCEPT !.failures = @ + 1]
  BY <1>3
<1>4. CASE faults' = [faults EXCEPT !.reruns = @ + 1]
  BY <1>4
<1>5. CASE StageStep
  BY <1>1, <1>3, <1>5 DEF StageStep, SkipStage, InputsMissing, StageSucceeds,
     StageInterrupted, StageFails, PauseOnAgentError
<1>6. CASE GateStep
  BY <1>1, <1>6 DEF GateStep, EnterGate, StayAtGate, ReadDecision, SaveApproval,
     DeleteGateFile
<1>7. CASE LoopStep
  BY <1>1, <1>3, <1>7 DEF LoopStep, RefuseLoop, ApplyFeedback,
     ApplyFeedbackToDives, BoardsStand, SeatChampion, MergeChampion, LoopFails,
     PauseOnAgentError, ArchiveDecision, SaveLoop, ReopenGateC
<1>8. CASE Resume \/ Halt \/ Advance \/ RefuseDecision \/ ApplyDecision
  BY <1>1, <1>8 DEF Resume, Halt, Advance, RefuseDecision, ApplyDecision
<1>9. CASE SaveRerunRequest \/ DeleteOutputs \/ SaveInvalidation
  BY <1>1, <1>9 DEF SaveRerunRequest, DeleteOutputs, SaveInvalidation
<1>10. CASE Crash \/ \E s \in Stages : Rerun(s)
  BY <1>2, <1>4, <1>10 DEF Crash, Rerun
<1>11. CASE \E g \in Gates : \E d \in Answers[g] : HumanWrites(g, d)
  BY <1>1, <1>11 DEF HumanWrites
<1>12. CASE UNCHANGED vars
  BY <1>1, <1>12 DEF vars
<1> QED
  BY <1>5, <1>6, <1>7, <1>8, <1>9, <1>10, <1>11, <1>12 DEF Next, ProcessStep

LEMMA TypeStep ==
  ASSUME TypeOK, Phase, [Next]_vars
  PROVE  TypeOK'
BY StateTypeStep, DiskTypeStep, ProcessTypeStep, FaultsStep DEF TypeOK

-----------------------------------------------------------------------------
(* What a process may assume between two writes.                           *)

LEMMA GateFilesStep ==
  ASSUME TypeOK, Phase, [Next]_vars
  PROVE  GateFiles'
<1> USE DEF TypeOK, DiskOK, Phase, GateFiles
<1>1. CASE UNCHANGED gfile
  BY <1>1
<1>2. CASE \E g \in Gates : gfile' = [gfile EXCEPT ![g] = "absent"]
  BY <1>2
<1>3. CASE \E g \in Gates : gfile' = [gfile EXCEPT ![g] = "template"]
  BY <1>3
<1>4. ASSUME NEW g \in Gates, NEW d \in Answers[g],
             gfile' = [gfile EXCEPT ![g] = d]
      PROVE  GateFiles'
  BY <1>4
<1>5. ASSUME NEW g \in Gates, ReadDecision(g)
      PROVE  GateFiles'
  <2>1. dec' \in Answers[g]
    BY <1>5, AnswerFacts DEF ReadDecision, DecisionRead, OnFile, Decisions,
       LoopDecisions
  <2> QED
    BY <1>4, <1>5, <2>1 DEF ReadDecision, DecisionRead
<1>6. ASSUME NEW g \in Gates, EnterGate(g) \/ StayAtGate(g)
      PROVE  GateFiles'
  BY <1>1, <1>3, <1>6 DEF EnterGate, StayAtGate, OnFile
<1>7. CASE ReopenGateC
  BY <1>1, <1>3, <1>7, GateStages DEF ReopenGateC
<1>8. CASE ArchiveDecision \/ \E g \in Gates : DeleteGateFile(g)
  BY <1>2, <1>8, GateStages DEF ArchiveDecision, DeleteGateFile
<1>9. ASSUME NEW g \in Gates, NEW d \in Answers[g], HumanWrites(g, d)
      PROVE  GateFiles'
  BY <1>4, <1>9 DEF HumanWrites
<1>10. CASE \/ \E s \in Stages : StageSucceeds(s)
            \/ SeatChampion \/ MergeChampion \/ DeleteOutputs
            \/ UNCHANGED files
  BY <1>1, <1>10 DEF StageSucceeds, SeatChampion, MergeChampion, DeleteOutputs,
     files
<1> QED
  BY <1>5, <1>6, <1>7, <1>8, <1>9, <1>10, FileWriters

\* A process holds a decision, or is invalidating, only after these steps.
LEMMA ProgramPoints ==
  [Next]_vars =>
    \/ UNCHANGED vars
    \/ \E g \in Gates : \E d \in Answers[g] : HumanWrites(g, d)
    \/ pc' = "decided" /\ \E g \in Gates : ReadDecision(g)
    \/ pc' = "save" /\ ApplyDecision
    \/ pc' = "slots" /\ ApplyFeedback
    \/ pc' \in {"rediv", "archive"} /\ ApplyFeedbackToDives
    \/ pc' = "archive" /\ (BoardsStand \/ MergeChampion)
    \/ pc' = "dive" /\ SeatChampion
    \/ pc' = "loop-save" /\ ArchiveDecision
    \/ pc' = "advance" /\ \E s \in Stages : SkipStage(s) \/ StageSucceeds(s)
    \/ pc' = "inv" /\ ((\E s \in Stages : Rerun(s)) \/ SaveRerunRequest)
    \/ pc' \in {"inv", "reopen"} /\ SaveLoop
    \/ /\ pc' \in {"inv", "inv-gate", "inv-save"}
       /\ DeleteOutputs \/ \E g \in Gates : DeleteGateFile(g)
    \/ pc' \in {"idle", "run", "reopen"}
<1>1. StageStep => \/ pc' = "idle"
                   \/ /\ pc' = "advance"
                      /\ \E s \in Stages : SkipStage(s) \/ StageSucceeds(s)
  BY DEF StageStep, SkipStage, InputsMissing, StageSucceeds, StageInterrupted,
     StageFails, PauseOnAgentError
<1>2. GateStep => \/ pc' \in {"run", "idle"}
                  \/ pc' = "decided" /\ \E g \in Gates : ReadDecision(g)
                  \/ /\ pc' \in {"inv", "inv-gate", "inv-save"}
                     /\ \E g \in Gates : DeleteGateFile(g)
  BY DEF GateStep, EnterGate, StayAtGate, ReadDecision, SaveApproval,
     DeleteGateFile, DeleteNext
<1>3. LoopStep =>
        \/ pc' = "idle"
        \/ pc' = "slots" /\ ApplyFeedback
        \/ pc' \in {"rediv", "archive"} /\ ApplyFeedbackToDives
        \/ pc' = "archive" /\ (BoardsStand \/ MergeChampion)
        \/ pc' = "dive" /\ SeatChampion
        \/ pc' = "loop-save" /\ ArchiveDecision
        \/ pc' \in {"inv", "reopen"} /\ SaveLoop
  BY DEF LoopStep, RefuseLoop, ApplyFeedback, ApplyFeedbackToDives, BoardsStand,
     SeatChampion, MergeChampion, LoopFails, PauseOnAgentError, ArchiveDecision,
     SaveLoop, ReopenGateC
<1>4. /\ Resume \/ Halt \/ Advance \/ SaveInvalidation \/ RefuseDecision \/ Crash
           => pc' \in {"idle", "run"}
      /\ ApplyDecision => pc' = "save"
      /\ SaveRerunRequest \/ (\E s \in Stages : Rerun(s)) => pc' = "inv"
      /\ DeleteOutputs => pc' \in {"inv", "inv-gate", "inv-save"}
  BY DEF Resume, Halt, Advance, SaveInvalidation, RefuseDecision, Crash,
     ApplyDecision, SaveRerunRequest, Rerun, DeleteOutputs, DeleteNext
<1> QED
  BY <1>1, <1>2, <1>3, <1>4 DEF Next, ProcessStep

\* A loop is decided at Gate C, a hint at Gate A.
LEMMA DecisionGate ==
  ASSUME Phase, pc \in AtDecision
  PROVE  /\ st.status = "gate-pending"
         /\ dec \in LoopDecisions => st.pending = "C" /\ st.stage = 7
         /\ dec \in {"edit", "hint"} => st.pending = "A" /\ st.stage = 1
BY AnswerFacts, GateStages DEF Phase, Pending, Deciding

LEMMA PendingStep ==
  ASSUME TypeOK, Phase, [Next]_vars
  PROVE  Pending'
<1> USE DEF TypeOK, StateOK, State, Phase, Pending
<1>1. CASE UNCHANGED st /\ (pc' = "advance" => st.status = "running")
  BY <1>1
<1>2. CASE UNCHANGED st /\ pc' = "advance" /\ pc # "advance"
  <2>1. PICK s \in Stages : SkipStage(s) \/ StageSucceeds(s)
    BY <1>2, ProgramPoints DEF vars, HumanWrites
  <2> QED
    BY <1>1, <1>2, <2>1 DEF SkipStage, StageSucceeds, AtStage
<1>3. CASE Resume
  BY <1>3 DEF Resume
<1>4. CASE Advance
  BY <1>4, GateStages DEF Advance, OpensGate
<1>5. CASE PauseOnAgentError
  BY <1>5, GateStages DEF PauseOnAgentError
<1>6. ASSUME NEW g \in Gates, EnterGate(g) PROVE Pending'
  BY <1>6, GateStages DEF EnterGate, OpensGate
<1>7. ASSUME NEW g \in Gates, SaveApproval(g) PROVE Pending'
  BY <1>7, GateStages DEF SaveApproval
<1>8. CASE SaveRerunRequest
  BY <1>8, GateStages DEF SaveRerunRequest
<1>9. CASE SaveLoop
  BY <1>9 DEF SaveLoop, LoopInvalidates, RedivergenceRuns
<1>10. CASE SaveInvalidation
  BY <1>10, GateStages DEF SaveInvalidation
<1> QED
  BY <1>1, <1>2, <1>3, <1>4, <1>5, <1>6, <1>7, <1>8, <1>9, <1>10, StateSavers

LEMMA DecidingStep ==
  ASSUME TypeOK, Phase, [Next]_vars
  PROVE  Deciding'
<1> USE DEF Phase, Deciding, AtDecision, InLoop
<1>1. CASE pc' \notin AtDecision
  BY <1>1
<1>2. CASE UNCHANGED vars
  BY <1>2 DEF vars, disk, boards, local
<1>3. ASSUME NEW g \in Gates, NEW d \in Answers[g], HumanWrites(g, d)
      PROVE  Deciding'
  BY <1>3 DEF HumanWrites, boards, local
<1>4. ASSUME NEW g \in Gates, ReadDecision(g) PROVE Deciding'
  BY <1>4, AnswerFacts
  DEF ReadDecision, DecisionRead, AtGate, AutoApproves, OnFile, GateFiles,
      Decisions, LoopDecisions
<1>5. CASE ApplyDecision
  BY <1>5 DEF ApplyDecision, local
<1>6. ~LoopProblem => st.iters < MaxGateCLoops
  BY CapsAssumption DEF LoopProblem, TypeOK, StateOK, State
<1>7. CASE ApplyFeedback
  BY <1>6, <1>7 DEF ApplyFeedback, LoopAsked, LoopDecisions, LoopProblem, local
<1>8. CASE BoardsStand
  BY <1>6, <1>8 DEF BoardsStand, AtMiniLoop, LoopAsked, LoopDecisions, local
<1>9. CASE SeatChampion
  <2>1. undived' > 0 /\ 7 \in written /\ UNCHANGED written
    BY <1>9 DEF SeatChampion, AtMiniLoop, LoopProblem, TypeOK, DiskOK
  <2> QED
    BY <1>6, <1>9, <2>1 DEF SeatChampion, AtMiniLoop, LoopAsked, LoopDecisions,
       local
<1>10. CASE ApplyFeedbackToDives
  BY <1>10 DEF ApplyFeedbackToDives, local
<1>11. CASE MergeChampion \/ ArchiveDecision
  BY <1>11 DEF MergeChampion, ArchiveDecision, local
<1> QED
  BY <1>1, <1>2, <1>3, <1>4, <1>5, <1>7, <1>8, <1>9, <1>10, <1>11, ProgramPoints

LEMMA BackwardsStep ==
  ASSUME ~RerunAhead, TypeOK, Phase, Backwards, [Next]_vars
  PROVE  Backwards'
<1> USE DEF Backwards, Invalidating
<1>1. CASE pc' \notin {"inv", "inv-gate", "inv-save"}
  BY <1>1
<1>2. CASE UNCHANGED <<st, target>> /\ Invalidating
  BY <1>2 DEF Phase
<1>3. CASE UNCHANGED vars \/ \E g \in Gates : \E d \in Answers[g] : HumanWrites(g, d)
  BY <1>3 DEF vars, local, HumanWrites, Phase
<1>4. ASSUME NEW s \in Stages, Rerun(s) PROVE Backwards'
  BY <1>4 DEF Rerun
<1>5. CASE SaveRerunRequest
  BY <1>5 DEF SaveRerunRequest, TypeOK, StateOK, State
<1>6. CASE SaveLoop /\ pc' = "inv"
  <2>1. st.stage = 7
    BY <1>6, DecisionGate DEF SaveLoop, AtDecision, InLoop, Phase, Deciding
  <2> QED
    BY <1>6, <2>1 DEF SaveLoop, LoopInvalidates, RedivergenceRuns, TypeOK, StateOK, State
<1>7. CASE DeleteOutputs \/ \E g \in Gates : DeleteGateFile(g)
  BY <1>2, <1>7 DEF DeleteOutputs, DeleteGateFile
<1> QED
  BY <1>1, <1>2, <1>3, <1>4, <1>5, <1>6, <1>7, ProgramPoints

LEMMA PhaseStep ==
  ASSUME TypeOK, Phase, [Next]_vars
  PROVE  Phase'
BY GateFilesStep, PendingStep, DecidingStep DEF Phase

\* TypeOK, for every cap, crash pattern, notify mode and rerun: no sequence of
\* engine steps leaves state.json or the gate files outside what their readers
\* expect.
THEOREM TypeCorrect == Spec => []TypeOK
<1>1. Init => TypeOK /\ Phase
  BY InitInvariant DEF IInv
<1>2. (TypeOK /\ Phase) /\ [Next]_vars => (TypeOK /\ Phase)'
  BY TypeStep, PhaseStep
<1> QED
  BY <1>1, <1>2, PTL DEF Spec

-----------------------------------------------------------------------------
(* The order of the gates.                                                 *)

LEMMA GateOrderStep ==
  ASSUME TypeOK, Phase, Backwards, GateOrder, [Next]_vars
  PROVE  GateOrder'
<1> USE GateStages DEF GateOrder, TypeOK, StateOK, State
<1>1. CASE UNCHANGED st
  BY <1>1
<1>2. CASE Resume \/ PauseOnAgentError \/ SaveLoop
  BY <1>2 DEF Resume, PauseOnAgentError, SaveLoop, LoopInvalidates, RedivergenceRuns
<1>3. CASE Advance
  BY <1>3 DEF Advance, OpensGate, Stages
<1>4. ASSUME NEW g \in Gates, EnterGate(g) PROVE GateOrder'
  <2>1. st'.stage = GateStage[g] /\ st.stage = GateStage[g]
    BY <1>4 DEF EnterGate, OpensGate
  <2>2. \A h \in Gates : st'.gates[h] = IF h = g THEN "pending" ELSE st.gates[h]
    BY <1>4 DEF EnterGate
  <2> QED
    BY <2>1, <2>2
<1>5. ASSUME NEW g \in Gates, SaveApproval(g) PROVE GateOrder'
  <2>1. st.stage = GateStage[g]
    BY <1>5 DEF SaveApproval, StageAfter, Phase, Pending
  <2>2. st'.stage = GateStage[g] + 1
    BY <1>5 DEF SaveApproval, StageAfter
  <2>3. \A h \in Gates : st'.gates[h] = IF h = g THEN "approved" ELSE st.gates[h]
    BY <1>5 DEF SaveApproval, StageAfter
  <2> QED
    BY <2>1, <2>2, <2>3
<1>6. CASE SaveRerunRequest
  <2>1. st.stage = 1
    BY <1>6, DecisionGate DEF SaveRerunRequest, AtDecision
  <2> QED
    BY <1>6, <2>1 DEF SaveRerunRequest
<1>7. CASE SaveInvalidation
  <2>1. target <= st.stage /\ target \in 0..8 /\ st.stage \in 0..8
    BY <1>7 DEF SaveInvalidation, GatesReset, Backwards, Invalidating, ProcessOK, Stages
  <2> QED
    BY <1>7, <2>1 DEF SaveInvalidation, GatesReset
<1> QED
  BY <1>1, <1>2, <1>3, <1>4, <1>5, <1>6, <1>7, StateSavers

\* IInv is inductive as long as no rerun names a stage ahead of the run.
THEOREM Inductive == ASSUME ~RerunAhead PROVE Spec => []IInv
<1>1. Init => IInv
  BY InitInvariant
<1>2. IInv /\ [Next]_vars => IInv'
  BY TypeStep, PhaseStep, BackwardsStep, GateOrderStep DEF IInv
<1> QED
  BY <1>1, <1>2, PTL DEF Spec

\* GateOrder: whatever crashes, fails, loops or is rerun, a gate's approval is
\* in force exactly while the run is past it.
THEOREM GatesInOrder == ASSUME ~RerunAhead PROVE Spec => []GateOrder
<1>1. IInv => GateOrder
  BY DEF IInv
<1> QED
  BY <1>1, Inductive, PTL

-----------------------------------------------------------------------------
(* Approvals stand on decisions.                                           *)

\* A gate becomes approved by the saving of its decision only.
LEMMA NewApproval ==
  ASSUME TypeOK, [Next]_vars, NEW g \in Gates,
         st.gates[g] # "approved", st'.gates[g] = "approved"
  PROVE  SaveApproval(g)
<1> USE DEF TypeOK, StateOK, State
<1>1. ~UNCHANGED st
  OBVIOUS
<1>2. ~Resume /\ ~PauseOnAgentError /\ ~SaveLoop
  BY DEF Resume, PauseOnAgentError, SaveLoop, LoopInvalidates, RedivergenceRuns
<1>3. ~Advance
  BY DEF Advance
<1>4. ~SaveInvalidation
  <2>1. SaveInvalidation =>
          st'.gates = [h \in Gates |-> IF GateStage[h] >= target
                                         THEN "not-reached" ELSE st.gates[h]]
    BY DEF SaveInvalidation, GatesReset
  <2> QED
    BY <2>1
<1>5. ~SaveRerunRequest
  <2>1. SaveRerunRequest =>
          st'.gates = [st.gates EXCEPT !["A"] = "rerun-requested"]
    BY DEF SaveRerunRequest
  <2> QED
    BY <2>1
<1>6. ASSUME NEW h \in Gates, EnterGate(h) PROVE FALSE
  <2>1. st'.gates = [st.gates EXCEPT ![h] = "pending"]
    BY <1>6 DEF EnterGate
  <2> QED
    BY <2>1
<1>7. PICK h \in Gates : SaveApproval(h)
  BY <1>1, <1>2, <1>3, <1>4, <1>5, <1>6, StateSavers
<1>8. h = g
  BY <1>7 DEF SaveApproval, StageAfter
<1> QED
  BY <1>7, <1>8

\* With no edit in flight, what the process decided is what is on file.
DecisionOnFile ==
  pc \in AtDecision \ {"loop-save"} => gfile[st.pending] = dec

LEMMA DecisionOnFileStep ==
  ASSUME ~EditsInFlight, TypeOK, Phase, DecisionOnFile, [Next]_vars
  PROVE  DecisionOnFile'
<1> USE DEF DecisionOnFile, AtDecision, InLoop, TypeOK, DiskOK
<1>1. CASE pc' \notin AtDecision \ {"loop-save"}
  BY <1>1
<1>2. CASE UNCHANGED vars
  BY <1>2 DEF vars, disk, local
<1>3. ASSUME NEW g \in Gates, NEW d \in Answers[g], HumanWrites(g, d)
      PROVE  DecisionOnFile'
  BY <1>3 DEF HumanWrites
<1>4. ASSUME NEW g \in Gates, ReadDecision(g) PROVE DecisionOnFile'
  BY <1>4 DEF ReadDecision, DecisionRead, AtGate
<1>5. CASE \/ ApplyDecision \/ ApplyFeedback \/ ApplyFeedbackToDives
           \/ BoardsStand \/ SeatChampion
  BY <1>5 DEF ApplyDecision, ApplyFeedback, ApplyFeedbackToDives, BoardsStand,
     SeatChampion, AtMiniLoop, LoopAsked, disk, local
<1>6. CASE MergeChampion
  BY <1>6 DEF MergeChampion
<1> QED
  BY <1>1, <1>2, <1>3, <1>4, <1>5, <1>6, ProgramPoints

\* ApprovalIsDecided: however resumes, crashes and reruns fall, a gate passes
\* only on the decision its file carries.
THEOREM ApprovalsDecided == ASSUME ~EditsInFlight PROVE Spec => ApprovalIsDecided
<1> DEFINE J == TypeOK /\ Phase /\ DecisionOnFile
           Decided == \A g \in Gates :
             st.gates[g] # "approved" /\ st'.gates[g] = "approved"
               => st.pending = g /\ gfile[g] \in {"approve", "edit"}
<1>1. Init => J
  BY InitInvariant DEF IInv, Init, DecisionOnFile, AtDecision, InLoop
<1>2. J /\ [Next]_vars => J'
  BY TypeStep, PhaseStep, DecisionOnFileStep
<1>3. J /\ [Next]_vars => [Decided]_vars
  <2> SUFFICES ASSUME J, [Next]_vars, NEW g \in Gates,
                      st.gates[g] # "approved", st'.gates[g] = "approved"
               PROVE  st.pending = g /\ gfile[g] \in {"approve", "edit"}
    BY DEF Decided
  <2>1. SaveApproval(g)
    BY NewApproval
  <2> QED
    BY <2>1 DEF SaveApproval, StageAfter, DecisionOnFile, Phase, Deciding, AtDecision
<1> QED
  BY <1>1, <1>2, <1>3, PTL DEF Spec, ApprovalIsDecided

-----------------------------------------------------------------------------
(* The engine implements the life cycle.  The mapping reads state.json     *)
(* only, so a step that does not save it is a stutter.                     *)

\* The abstract step each saving step takes.
LEMMA RefinementStep ==
  ASSUME IInv, [Next]_vars, IInv'
  PROVE  [L!LNext]_(L!lvars)
<1> DEFINE at == IF st.status = "done" THEN 9 ELSE st.stage
           approved == {GateStage[g] : g \in {h \in Gates : st.gates[h] = "approved"}}
<1> USE GateStages
        DEF IInv, TypeOK, StateOK, State, Phase, Pending, L!lvars
<1>1. CASE UNCHANGED st
  BY <1>1
<1>2. CASE Resume
  BY <1>2 DEF Resume
<1>3. CASE Advance
  <2>1. st.stage \notin {1, 4, 7}
    BY <1>3 DEF Advance, OpensGate
  <2>2. CASE st.stage = 8
    BY <1>3, <2>1, <2>2 DEF Advance, L!LNext, L!Finish, L!GateStages
  <2>3. CASE st.stage # 8
    BY <1>3, <2>1, <2>3 DEF Advance, L!LNext, L!Finish, L!GateStages, Stages
  <2> QED
    BY <2>2, <2>3
<1>4. CASE PauseOnAgentError /\ (st.status = "running" \/ pc \in AtDecision)
  <2>1. st.status \in {"running", "gate-pending"}
    BY <1>4, DecisionGate
  <2>2. /\ at' = at /\ at = st.stage /\ st'.status # "gate-pending"
        /\ approved' = approved /\ st'.iters = st.iters
    BY <1>4, <2>1 DEF PauseOnAgentError
  <2>3. approved' = {t \in approved : t < st.stage}
    BY <2>2 DEF GateOrder, Stages
  <2>4. st.stage \in 0..8 /\ st.stage <= at
    BY <2>2 DEF Stages
  <2>5. PICK s \in 0..8 : s = st.stage
    BY <2>4
  <2>6. L!GoBack(s)
    BY <2>2, <2>3, <2>4, <2>5 DEF L!GoBack
  <2> QED
    BY <2>6 DEF L!LNext
<1>5. ASSUME NEW g \in Gates, EnterGate(g) PROVE L!LNext
  <2>1. /\ st.stage = GateStage[g] /\ st.status = "running"
        /\ st'.stage = st.stage /\ st'.status = "gate-pending"
        /\ st'.iters = st.iters
        /\ \A h \in Gates : st'.gates[h] = IF h = g THEN "pending" ELSE st.gates[h]
    BY <1>5 DEF EnterGate, OpensGate
  <2>2. st.gates[g] # "approved"
    BY <2>1 DEF GateOrder, Stages
  <2>3. approved' = approved
    BY <2>1, <2>2
  <2> QED
    BY <2>1, <2>3 DEF L!LNext, L!Finish, L!GateStages
<1>6. ASSUME NEW g \in Gates, SaveApproval(g) PROVE L!LNext
  <2>1. /\ st.stage = GateStage[g] /\ st.status = "gate-pending"
        /\ st'.stage = st.stage + 1 /\ st'.status = "running"
        /\ st'.iters = st.iters
        /\ \A h \in Gates : st'.gates[h] = IF h = g THEN "approved" ELSE st.gates[h]
    BY <1>6 DEF SaveApproval, StageAfter
  <2>2. approved' = approved \cup {GateStage[g]}
    BY <2>1
  <2> QED
    BY <2>1, <2>2 DEF L!LNext, L!Approve
<1>7. CASE SaveRerunRequest
  <2>1. st.stage = 1 /\ st.status = "gate-pending"
    BY <1>7, DecisionGate DEF SaveRerunRequest, AtDecision
  <2>2. /\ st'.stage = 1 /\ st'.status = "running" /\ st'.iters = st.iters
        /\ \A h \in Gates : st'.gates[h] = IF h = "A" THEN "rerun-requested"
                                                      ELSE st.gates[h]
    BY <1>7 DEF SaveRerunRequest
  <2>3. approved' = {t \in approved : t < 1}
    BY <2>1, <2>2 DEF GateOrder
  <2>4. L!GoBack(1)
    BY <2>1, <2>2, <2>3 DEF L!GoBack
  <2> QED
    BY <2>4 DEF L!LNext
<1>8. CASE SaveLoop
  <2>1. st.stage = 7 /\ st.status = "gate-pending" /\ st.iters < MaxGateCLoops
    BY <1>8, DecisionGate DEF SaveLoop, AtDecision, InLoop, Deciding
  <2>2. /\ st'.stage = 7 /\ st'.status = "gate-pending"
        /\ st'.iters = st.iters + 1 /\ st'.gates = st.gates
    BY <1>8, <2>1 DEF SaveLoop, LoopInvalidates, RedivergenceRuns
  <2> QED
    BY <2>1, <2>2 DEF L!LNext, L!Loop
<1>9. CASE SaveInvalidation
  <2>1. /\ target \in 0..8 /\ target <= at
        /\ st'.stage = target /\ st'.status = "running" /\ st'.iters = st.iters
        /\ \A h \in Gates : st'.gates[h] = IF GateStage[h] >= target
                                             THEN "not-reached" ELSE st.gates[h]
    BY <1>9 DEF SaveInvalidation, GatesReset, Backwards, Invalidating, ProcessOK, Stages
  <2>2. approved' = {t \in approved : t < target}
    BY <2>1
  <2>3. PICK s \in 0..8 : s = target
    BY <2>1
  <2>4. L!GoBack(s)
    BY <2>1, <2>2, <2>3 DEF L!GoBack
  <2> QED
    BY <2>4 DEF L!LNext
<1> QED
  BY <1>1, <1>2, <1>3, <1>4, <1>5, <1>6, <1>7, <1>8, <1>9, StateSavers

\* LifecycleSpec: as its owner sees it, the run goes through the stages in
\* order, passes a gate on an approval only, loops within the cap, and going
\* back withdraws what it goes back over.
THEOREM EngineImplementsLifecycle ==
  ASSUME ~RerunAhead PROVE Spec => LifecycleSpec
<1>1. Init => L!LInit
  BY GateStages DEF Init, L!LInit
<1>2. IInv /\ [Next]_vars /\ IInv' => [L!LNext]_(L!lvars)
  BY RefinementStep
<1> QED
  BY <1>1, <1>2, Inductive, PTL DEF Spec, LifecycleSpec, L!LSpec

-----------------------------------------------------------------------------
(* The Gate-C counters and the archive.                                    *)

\* The loops counted so far that accepted a re-divergence.
Accepted == {n \in 1..MaxGateCLoops : n <= st.iters /\ archived[n] \in {"rediv", "both"}}

\* A loop in progress fits the caps, and its decision is archived before it
\* is counted.
LoopInProgress ==
  /\ pc \in InLoop /\ Rediverges => st.rediv < MaxRedivergence
  /\ pc = "loop-save" => archived[st.iters + 1] = dec

LEMMA AcceptedFinite == IsFiniteSet(Accepted)
<1>1. IsFiniteSet(1..MaxGateCLoops)
  BY CapsAssumption, FS_Interval
<1> QED
  BY <1>1, FS_Subset DEF Accepted

\* Only SaveLoop moves the counters, only ArchiveDecision the archive.
LEMMA LoopWriters ==
  ASSUME TypeOK, [Next]_vars
  PROVE  /\ (st'.iters = st.iters /\ st'.rediv = st.rediv) \/ SaveLoop
         /\ UNCHANGED archived \/ ArchiveDecision
<1>1. (st'.iters = st.iters /\ st'.rediv = st.rediv) \/ SaveLoop
  <2> USE DEF TypeOK, StateOK, State
  <2>1. CASE Resume \/ PauseOnAgentError \/ SaveRerunRequest
    BY <2>1 DEF Resume, PauseOnAgentError, SaveRerunRequest
  <2>2. CASE Advance
    BY <2>2 DEF Advance
  <2>3. CASE SaveInvalidation
    BY <2>3 DEF SaveInvalidation
  <2>4. ASSUME NEW g \in Gates, EnterGate(g) \/ SaveApproval(g)
        PROVE  st'.iters = st.iters /\ st'.rediv = st.rediv
    BY <2>4 DEF EnterGate, SaveApproval
  <2> QED
    BY <2>1, <2>2, <2>3, <2>4, StateSavers
<1>2. UNCHANGED archived \/ ArchiveDecision
  BY FileWriters DEF files, StageSucceeds, EnterGate, StayAtGate, ReadDecision,
     DeleteGateFile, HumanWrites, SeatChampion, MergeChampion, ReopenGateC,
     DeleteOutputs
<1> QED
  BY <1>1, <1>2

LEMMA LoopInProgressStep ==
  ASSUME ~EditsInFlight, TypeOK, Phase, DecisionOnFile, LoopInProgress,
         [Next]_vars
  PROVE  LoopInProgress'
<1> USE DEF LoopInProgress, InLoop, Rediverges
<1>1. CASE pc' \notin InLoop
  BY <1>1
<1>2. CASE UNCHANGED vars
  BY <1>2 DEF vars, disk, local
<1>3. ASSUME NEW g \in Gates, NEW d \in Answers[g], HumanWrites(g, d)
      PROVE  LoopInProgress'
  BY <1>3 DEF HumanWrites
<1>4. ~LoopProblem /\ Rediverges => st.rediv < MaxRedivergence
  BY CapsAssumption DEF LoopProblem, TypeOK, StateOK, State
<1>5. CASE ApplyFeedback \/ ApplyFeedbackToDives \/ BoardsStand \/ SeatChampion
  BY <1>4, <1>5 DEF ApplyFeedback, ApplyFeedbackToDives, BoardsStand,
     SeatChampion, AtMiniLoop, disk, local
<1>6. CASE MergeChampion
  BY <1>6 DEF MergeChampion
<1>7. CASE ArchiveDecision
  <2>1. /\ st.iters < MaxGateCLoops /\ st.iters + 1 \in 1..MaxGateCLoops
        /\ gfile["C"] = dec
    BY <1>7, DecisionGate, CapsAssumption
    DEF ArchiveDecision, Phase, Deciding, AtDecision, DecisionOnFile, TypeOK,
        StateOK, State
  <2>2. archived'[st.iters + 1] = dec
    BY <1>7, <2>1 DEF ArchiveDecision, TypeOK, DiskOK
  <2> QED
    BY <1>7, <2>2 DEF ArchiveDecision, local
<1> QED
  BY <1>1, <1>2, <1>3, <1>5, <1>6, <1>7, ProgramPoints

LEMMA LoopTrailStep ==
  ASSUME TypeOK, Phase, LoopInProgress, LoopTrail, [Next]_vars
  PROVE  LoopTrail'
<1> USE DEF TypeOK, StateOK, State
<1>1. LoopTrail = /\ st.iters <= MaxGateCLoops
                  /\ \A n \in 1..MaxGateCLoops :
                       n <= st.iters => archived[n] \in LoopDecisions
                  /\ st.rediv = Cardinality(Accepted)
                  /\ st.rediv <= MaxRedivergence
  BY DEF LoopTrail, Accepted
<1>2. CASE st'.iters = st.iters /\ st'.rediv = st.rediv /\ UNCHANGED archived
  BY <1>2 DEF LoopTrail
<1>3. CASE ArchiveDecision
  <2>1. st' = st /\ \A n \in 1..MaxGateCLoops :
                      n <= st.iters => archived'[n] = archived[n]
    BY <1>3 DEF ArchiveDecision, DiskOK
  <2>2. Accepted' = Accepted
    BY <2>1 DEF Accepted
  <2> QED
    BY <1>1, <2>1, <2>2 DEF LoopTrail, Accepted
<1>4. CASE SaveLoop
  <2> DEFINE n0 == st.iters + 1
  <2>1. /\ st'.iters = n0 /\ archived' = archived
        /\ st'.rediv = IF Rediverges THEN st.rediv + 1 ELSE st.rediv
    BY <1>4 DEF SaveLoop, LoopInvalidates, RedivergenceRuns, disk
  <2>2. n0 \in 1..MaxGateCLoops /\ archived[n0] = dec
    BY <1>4, CapsAssumption
    DEF SaveLoop, Phase, Deciding, InLoop, LoopInProgress
  <2>3. dec \in LoopDecisions /\ (Rediverges => st.rediv < MaxRedivergence)
    BY <1>4 DEF SaveLoop, Phase, Deciding, InLoop, LoopInProgress
  <2>4. Accepted' = IF Rediverges THEN Accepted \cup {n0} ELSE Accepted
    BY <2>1, <2>2 DEF Accepted, Rediverges
  <2>5. n0 \notin Accepted
    BY DEF Accepted
  <2>6. Cardinality(Accepted \cup {n0}) = Cardinality(Accepted) + 1
    BY <2>5, AcceptedFinite, FS_AddElement
  <2>7. st'.rediv = Cardinality(Accepted')
    BY <1>1, <2>1, <2>4, <2>6 DEF LoopTrail
  <2>8. \A n \in 1..MaxGateCLoops :
          n <= st'.iters => archived'[n] \in LoopDecisions
    BY <2>1, <2>2, <2>3 DEF LoopTrail
  <2>9. st'.iters <= MaxGateCLoops /\ st'.rediv <= MaxRedivergence
    BY <2>1, <2>2, <2>3, CapsAssumption DEF LoopTrail
  <2> QED
    BY <2>7, <2>8, <2>9 DEF LoopTrail, Accepted
<1> QED
  BY <1>2, <1>3, <1>4, LoopWriters DEF SaveLoop, ArchiveDecision

\* LoopTrail: both Gate-C caps hold and the archive tells the same story as
\* the counters, through every crash between a loop's work and its save.
THEOREM LoopsAccounted == ASSUME ~EditsInFlight PROVE Spec => []LoopTrail
<1> DEFINE J == /\ TypeOK /\ Phase /\ DecisionOnFile
                /\ LoopInProgress /\ LoopTrail
<1>1. Init => J
  <2> SUFFICES ASSUME Init PROVE J
    OBVIOUS
  <2>1. TypeOK /\ Phase /\ DecisionOnFile /\ LoopInProgress
    BY InitInvariant
    DEF IInv, Init, DecisionOnFile, LoopInProgress, AtDecision, InLoop
  <2>2. Accepted = {} /\ Cardinality({}) = 0
    BY FS_EmptySet DEF Init, Accepted
  <2>3. st.iters = 0 /\ st.rediv = 0
    BY DEF Init
  <2>4. LoopTrail
    BY <2>2, <2>3, CapsAssumption DEF LoopTrail, Accepted
  <2> QED
    BY <2>1, <2>4
<1>2. J /\ [Next]_vars => J'
  BY TypeStep, PhaseStep, DecisionOnFileStep, LoopInProgressStep, LoopTrailStep
<1> QED
  BY <1>1, <1>2, PTL DEF Spec

-----------------------------------------------------------------------------
(* What is on disk behind the run.  These theorems assume the windows the  *)
(* runs engine_crashed_rerun and engine_lost_dive are about away: nothing  *)
(* dies with an invalidation half done that the run pointer does not know  *)
(* of yet, or with a champion half merged.                                 *)

Deleting == {"inv", "inv-gate", "inv-save"}

\* What an invalidation in progress will still delete.
ToGo(s) ==
  \/ pc = "inv" /\ s >= todo
  \/ pc = "inv-gate" /\ s > todo

\* The outputs on disk are those of the stages the run is past, and of no
\* other; an invalidation only deletes from its target on.
Reached ==
  /\ \A s \in written : s <= st.stage
  /\ ~Invalidating => \A s \in Stages : s < st.stage => s \in written
  /\ ~Invalidating /\ st.status \in {"gate-pending", "done"} => st.stage \in written
  /\ st.status = "done" => st.stage = 8
  /\ pc = "advance" => st.stage \in written
  /\ Invalidating =>
       /\ pc # "inv-save" => target <= todo
       /\ \A s \in Stages : s < target => s \in written
       /\ \A s \in written : s < target \/ ToGo(s)

\* A step that leaves the outputs and the place of the run alone keeps them.
LEMMA ReachedKept ==
  ASSUME Reached, written' = written, st'.stage = st.stage,
         Invalidating => pc' = pc /\ target' = target /\ todo' = todo,
         ~Invalidating => pc' \notin Deleting,
         pc' = "advance" => pc = "advance",
         st'.status \in {st.status, "running", "paused-attention"}
  PROVE  Reached'
BY DEF Reached, Invalidating, Deleting, ToGo

LEMMA ReachedStageStep ==
  ASSUME TypeOK, Phase, Reached, StageStep
  PROVE  Reached'
<1> PICK s \in Stages : \/ SkipStage(s) \/ InputsMissing(s) \/ StageSucceeds(s)
                        \/ StageInterrupted(s) \/ StageFails(s)
  BY DEF StageStep
<1>1. AtStage(s)
  BY DEF SkipStage, InputsMissing, StageSucceeds, StageInterrupted, StageFails
<1>2. st.stage = s /\ st.status = "running" /\ pc = "run" /\ ~Invalidating
  BY <1>1 DEF AtStage, Invalidating
<1>3. CASE SkipStage(s)
  BY <1>2, <1>3 DEF SkipStage, IsComplete, disk, Reached, Invalidating
<1>4. CASE InputsMissing(s) \/ StageInterrupted(s)
  <2>1. /\ st' = st /\ written' = written /\ pc' = "idle"
    BY <1>4 DEF InputsMissing, StageInterrupted, disk
  <2> QED
    BY <1>2, <2>1, ReachedKept DEF Deleting
<1>5. CASE StageSucceeds(s)
  BY <1>2, <1>5 DEF StageSucceeds, CheckedOutputs, Reached, Invalidating, Stages
<1>6. CASE StageFails(s)
  <2>1. /\ st'.stage = st.stage /\ st'.status = "paused-attention"
        /\ written' = written /\ pc' = "idle"
    BY <1>6 DEF StageFails, PauseOnAgentError, CutShort, TypeOK, StateOK, State
  <2> QED
    BY <1>2, <2>1, ReachedKept DEF Deleting
<1> QED
  BY <1>3, <1>4, <1>5, <1>6

LEMMA ReachedGateStep ==
  ASSUME TypeOK, Phase, Reached, GateStep
  PROVE  Reached'
<1> USE DEF TypeOK, StateOK, State
<1> PICK g \in Gates : \/ EnterGate(g) \/ StayAtGate(g) \/ ReadDecision(g)
                       \/ SaveApproval(g) \/ DeleteGateFile(g)
  BY DEF GateStep
<1>1. CASE EnterGate(g)
  BY <1>1 DEF EnterGate, Reached, Invalidating
<1>2. CASE StayAtGate(g) \/ ReadDecision(g)
  <2>1. /\ st' = st /\ written' = written /\ pc' \in {"idle", "decided"}
        /\ ~Invalidating
    BY <1>2 DEF StayAtGate, ReadDecision, AtGate, Invalidating
  <2> QED
    BY <2>1, ReachedKept DEF Deleting
<1>3. CASE SaveApproval(g)
  <2>1. /\ st.stage = GateStage[g] /\ st.status = "gate-pending"
        /\ st'.stage = st.stage + 1 /\ st'.status = "running"
        /\ pc = "save" /\ pc' = "run" /\ written' = written
    BY <1>3, GateStages DEF SaveApproval, StageAfter, Phase, Pending, disk
  <2>2. st.stage \in 0..8 /\ written \subseteq 0..8
    BY DEF Stages, DiskOK
  <2> QED
    BY <2>1, <2>2 DEF Reached, Invalidating, Stages
<1>4. CASE DeleteGateFile(g)
  <2>1. /\ st' = st /\ written' = written /\ target' = target /\ pc = "inv-gate"
    BY <1>4 DEF DeleteGateFile
  <2>2. todo \in 0..8 /\ written \subseteq 0..8 /\ DeleteNext
    BY <1>4 DEF DeleteGateFile, ProcessOK, DiskOK, Stages
  <2>3. \/ todo = 8 /\ pc' = "inv-save"
        \/ todo < 8 /\ todo' = todo + 1 /\ pc' = "inv"
    BY <2>2 DEF DeleteNext
  <2>4. CASE todo = 8
    BY <2>1, <2>2, <2>3, <2>4 DEF Reached, Invalidating, ToGo, Stages
  <2>5. CASE todo < 8
    BY <2>1, <2>2, <2>3, <2>5 DEF Reached, Invalidating, ToGo, Stages, ProcessOK
  <2> QED
    BY <2>3, <2>4, <2>5
<1> QED
  BY <1>1, <1>2, <1>3, <1>4

LEMMA ReachedLoopStep ==
  ASSUME TypeOK, Phase, Reached, LoopStep
  PROVE  Reached'
<1> USE DEF TypeOK, StateOK, State
<1>1. CASE SaveLoop
  <2>1. st.stage = 7 /\ st.status = "gate-pending" /\ pc = "loop-save"
    BY <1>1, DecisionGate DEF SaveLoop, AtDecision, InLoop, Phase, Deciding
  <2>2. /\ st'.stage = st.stage /\ st'.status = st.status /\ written' = written
        /\ \/ pc' = "inv" /\ target' = 7 /\ todo' = 7
           \/ pc' = "reopen"
    BY <1>1 DEF SaveLoop, LoopInvalidates, RedivergenceRuns, disk
  <2> QED
    BY <2>1, <2>2 DEF Reached, Invalidating, ToGo, DiskOK, Stages
<1>2. CASE LoopFails
  <2>1. /\ st'.stage = st.stage /\ st'.status = "paused-attention"
        /\ written' = written /\ pc' = "idle"
        /\ pc \in {"decided", "rediv", "dive"}
    BY <1>2 DEF LoopFails, LoopAsked, PauseOnAgentError, disk
  <2> QED
    BY <2>1, ReachedKept DEF Invalidating, Deleting
<1>3. CASE \/ RefuseLoop \/ ApplyFeedback \/ ApplyFeedbackToDives
           \/ BoardsStand \/ SeatChampion
           \/ MergeChampion \/ ArchiveDecision \/ ReopenGateC
  <2>1. /\ st' = st /\ written' = written
        /\ pc \in {"decided", "slots", "rediv", "dive", "archive", "reopen"}
        /\ pc' \in {"idle", "slots", "rediv", "archive", "dive", "loop-save"}
    BY <1>3 DEF RefuseLoop, ApplyFeedback, ApplyFeedbackToDives, BoardsStand,
       SeatChampion, MergeChampion, ArchiveDecision, ReopenGateC, AtMiniLoop,
       LoopAsked, disk
  <2> QED
    BY <2>1, ReachedKept DEF Invalidating, Deleting
<1> QED
  BY <1>1, <1>2, <1>3 DEF LoopStep

LEMMA ReachedStep ==
  ASSUME ~RerunAhead, CrashPoints \cap Deleting = {},
         TypeOK, Phase, Backwards, Reached, [Next]_vars
  PROVE  Reached'
<1> USE DEF TypeOK, StateOK, State
<1>1. CASE Resume
  BY <1>1, ReachedKept DEF Resume, disk, Invalidating, Deleting
<1>2. ASSUME NEW s \in Stages, Rerun(s) PROVE Reached'
  BY <1>2 DEF Rerun, disk, Reached, Invalidating, ToGo, DiskOK, Stages
<1>3. CASE Halt \/ RefuseDecision \/ ApplyDecision
  <2>1. /\ st' = st /\ written' = written /\ pc \in {"run", "decided"}
        /\ pc' \in {"idle", "save"}
    BY <1>3 DEF Halt, RefuseDecision, ApplyDecision, disk
  <2> QED
    BY <2>1, ReachedKept DEF Invalidating, Deleting
<1>4. CASE Advance
  <2>1. /\ pc = "advance" /\ pc' = "run" /\ written' = written
        /\ st.stage \in 0..8 /\ st.status = "running" /\ written \subseteq 0..8
    BY <1>4 DEF Advance, disk, Phase, Pending, Stages, DiskOK
  <2>2. \/ st.stage = 8 /\ st'.stage = 8 /\ st'.status = "done"
        \/ st.stage < 8 /\ st'.stage = st.stage + 1 /\ st'.status = "running"
    BY <1>4, <2>1 DEF Advance
  <2> QED
    BY <2>1, <2>2 DEF Reached, Invalidating, Stages
<1>5. CASE SaveRerunRequest
  <2>1. st.stage = 1 /\ pc = "save"
    BY <1>5, DecisionGate DEF SaveRerunRequest, AtDecision
  <2>2. /\ st'.stage = 1 /\ st'.status = "running" /\ written' = written
        /\ pc' = "inv" /\ target' = 1 /\ todo' = 1
    BY <1>5 DEF SaveRerunRequest, disk
  <2> QED
    BY <2>1, <2>2 DEF Reached, Invalidating, ToGo, DiskOK, Stages
<1>6. CASE DeleteOutputs
  <2>1. /\ st' = st /\ written' = written \ {todo} /\ target' = target
        /\ pc = "inv"
    BY <1>6 DEF DeleteOutputs
  <2>2. \/ pc' = "inv-gate" /\ todo' = todo
        \/ todo = 8 /\ pc' = "inv-save"
        \/ todo < 8 /\ todo' = todo + 1 /\ pc' = "inv"
    BY <1>6 DEF DeleteOutputs, DeleteNext, ProcessOK, Stages
  <2> QED
    BY <2>1, <2>2 DEF Reached, Invalidating, ToGo, DiskOK, ProcessOK, Stages
<1>7. CASE SaveInvalidation
  <2>1. /\ st'.stage = target /\ st'.status = "running" /\ written' = written
        /\ pc = "inv-save" /\ pc' = "run"
    BY <1>7 DEF SaveInvalidation
  <2> QED
    BY <2>1 DEF Reached, Invalidating, ToGo, DiskOK, ProcessOK, Stages
<1>8. ASSUME NEW g \in Gates, NEW d \in Answers[g], HumanWrites(g, d)
      PROVE  Reached'
  BY <1>8 DEF HumanWrites, local, Reached, Invalidating, ToGo
<1>9. CASE Crash
  <2>1. st' = st /\ written' = written /\ pc' = "idle"
    BY <1>9 DEF Crash, CutShort, disk
  <2>2. CASE Rewound
    BY <2>1, <2>2 DEF Rewound, Reached, Invalidating
  <2>3. CASE pc \notin Deleting
    BY <2>1, <2>3, ReachedKept DEF Invalidating, Deleting
  <2> QED
    BY <1>9, <2>2, <2>3 DEF Crash, MayCrash
<1>10. CASE UNCHANGED vars
  BY <1>10 DEF vars, disk, local, Reached, Invalidating, ToGo
<1> QED
  BY <1>1, <1>2, <1>3, <1>4, <1>5, <1>6, <1>7, <1>8, <1>9, <1>10,
     ReachedStageStep, ReachedGateStep, ReachedLoopStep
  DEF Next, ProcessStep

LEMMA InitReached == Init => Reached
<1> SUFFICES ASSUME Init PROVE Reached
  OBVIOUS
<1>1. /\ st.stage = 0 /\ st.status = "running" /\ written = {} /\ pc = "idle"
      /\ \A s \in 0..8 : ~(s < 0)
  BY DEF Init
<1> QED
  BY <1>1 DEF Reached, Invalidating, Stages

LEMMA ReachedAlways ==
  ASSUME ~RerunAhead, CrashPoints \cap Deleting = {}
  PROVE  Spec => [](IInv /\ Reached)
<1>1. Init => Reached
  BY InitReached
<1>2. IInv /\ Reached /\ [Next]_vars => Reached'
  BY ReachedStep DEF IInv
<1> QED
  BY <1>1, <1>2, Inductive, PTL DEF Spec

\* S7's cases were all made on the board it ran on, and only a Gate-C loop
\* moves that board afterwards.
Drawn == 7 \in written => drawn \/ moved

LEMMA DrawnStep ==
  ASSUME TypeOK, Drawn, [Next]_vars
  PROVE  Drawn'
<1> USE DEF Drawn
<1>1. CASE UNCHANGED <<written, drawn, moved>>
  BY <1>1
<1>2. CASE CutShort(7) \/ \E s \in Stages : CutShort(s)
  BY <1>2 DEF CutShort
<1>3. CASE StageStep
  BY <1>1, <1>2, <1>3 DEF StageStep, SkipStage, InputsMissing, StageSucceeds,
     StageInterrupted, StageFails, CheckedOutputs, disk, boards
<1>4. CASE GateStep
  BY <1>1, <1>4 DEF GateStep, EnterGate, StayAtGate, ReadDecision, SaveApproval,
     DeleteGateFile, disk, boards
<1>5. CASE ApplyFeedbackToDives \/ MergeChampion \/ DeleteOutputs
  BY <1>5 DEF ApplyFeedbackToDives, MergeChampion, DeleteOutputs, BoardMoved
<1>6. CASE \/ RefuseLoop \/ ApplyFeedback \/ BoardsStand \/ SeatChampion
           \/ LoopFails \/ ArchiveDecision \/ SaveLoop \/ ReopenGateC
  BY <1>1, <1>6 DEF RefuseLoop, ApplyFeedback, BoardsStand, SeatChampion,
     LoopFails, ArchiveDecision, SaveLoop, ReopenGateC, disk, boards
<1>7. CASE \/ Resume \/ Halt \/ Advance \/ RefuseDecision \/ ApplyDecision
           \/ SaveRerunRequest \/ SaveInvalidation \/ UNCHANGED vars
  BY <1>1, <1>7 DEF Resume, Halt, Advance, RefuseDecision, ApplyDecision,
     SaveRerunRequest, SaveInvalidation, vars, disk, boards
<1>8. CASE \/ \E s \in Stages : Rerun(s)
           \/ \E g \in Gates : \E d \in Answers[g] : HumanWrites(g, d)
  BY <1>1, <1>8 DEF Rerun, HumanWrites, disk, boards
<1>9. CASE Crash
  BY <1>1, <1>2, <1>9 DEF Crash, disk, boards
<1> QED
  BY <1>3, <1>4, <1>5, <1>6, <1>7, <1>8, <1>9 DEF Next, ProcessStep, LoopStep

\* OutputsBehindRun: whatever fails, loops, crashes or is rerun, where the run
\* stands every earlier stage's outputs are on disk, its own once its gate is
\* open, and S7's cases unless a loop moved their board, as long as no process
\* dies inside an invalidation that goes back.
THEOREM OutputsBehind ==
  ASSUME ~RerunAhead, CrashPoints \cap Deleting = {}
  PROVE  Spec => []OutputsBehindRun
<1>1. Init => Drawn
  BY DEF Init, Drawn
<1>2. IInv /\ Drawn /\ [Next]_vars => Drawn'
  BY DrawnStep DEF IInv
<1>3. Reached /\ Drawn => OutputsBehindRun
  BY DEF Reached, Drawn, OutputsBehindRun
<1> QED
  BY <1>1, <1>2, <1>3, ReachedAlways, PTL DEF Spec

-----------------------------------------------------------------------------
(* The finalists: the tournament is over the ones there are, and no        *)
(* champion is left undived.                                               *)

\* Only a merged champion makes an output stale, the tournament's, and the
\* loop that merged it invalidates the tournament before it ends.
Fresh ==
  stale # {} =>
    /\ stale = {7} /\ st.stage = 7
    /\ \/ pc \in {"archive", "loop-save"} /\ merged
       \/ pc = "inv" /\ todo = 7 /\ st.status = "gate-pending"

LEMMA FreshStep ==
  ASSUME CrashPoints \cap (Deleting \cup {"archive", "loop-save"}) = {},
         TypeOK, Phase, Reached, Fresh, [Next]_vars
  PROVE  Fresh'
<1> USE DEF TypeOK, StateOK, State
<1>1. CASE stale' = {}
  BY <1>1 DEF Fresh
<1>2. ASSUME NEW s \in Stages, StageSucceeds(s) PROVE stale' = {}
  <2>1. stale = {} /\ st.stage = s /\ pc = "run"
    BY <1>2 DEF StageSucceeds, AtStage, Fresh
  <2>2. \A t \in written : ~(t > s)
    BY <2>1 DEF Reached, DiskOK, Stages
  <2> QED
    BY <1>2, <2>1, <2>2 DEF StageSucceeds
<1>3. CASE MergeChampion
  <2>1. st.stage = 7 /\ stale = {}
    BY <1>3, DecisionGate DEF MergeChampion, AtDecision, InLoop, Phase, Deciding, Fresh
  <2> QED
    BY <1>3, <2>1 DEF MergeChampion, Fresh
<1>4. CASE DeleteOutputs
  BY <1>4 DEF DeleteOutputs, Fresh
<1>5. CASE stale = {} /\ stale' = stale
  BY <1>5 DEF Fresh
<1>6. CASE stale # {} /\ stale' = stale /\ ~UNCHANGED vars
  <2>1. /\ stale = {7} /\ st.stage = 7
        /\ \/ pc \in {"archive", "loop-save"} /\ merged
           \/ pc = "inv" /\ todo = 7 /\ st.status = "gate-pending"
    BY <1>6 DEF Fresh
  <2>2. \/ ArchiveDecision \/ SaveLoop \/ DeleteOutputs
        \/ \E g \in Gates : \E d \in Answers[g] : HumanWrites(g, d)
    <3>1. ~StageStep /\ ~Resume /\ ~Halt /\ ~Advance
      BY <2>1 DEF StageStep, SkipStage, InputsMissing, StageSucceeds,
         StageInterrupted, StageFails, AtStage, Resume, Halt, Advance
    <3>2. ~GateStep
      BY <2>1 DEF GateStep, EnterGate, StayAtGate, ReadDecision, SaveApproval,
         DeleteGateFile, AtGate
    <3>3. ~RefuseDecision /\ ~ApplyDecision /\ ~SaveRerunRequest /\ ~SaveInvalidation
      BY <2>1 DEF RefuseDecision, ApplyDecision, SaveRerunRequest, SaveInvalidation
    <3>4. LoopStep => ArchiveDecision \/ SaveLoop
      BY <2>1 DEF LoopStep, RefuseLoop, ApplyFeedback, ApplyFeedbackToDives,
         BoardsStand, SeatChampion, MergeChampion, LoopFails, AtMiniLoop,
         LoopAsked, ReopenGateC
    <3>5. ~Crash /\ \A s \in Stages : ~Rerun(s)
      BY <2>1 DEF Crash, MayCrash, Rewound, Invalidating, Rerun, Deleting
    <3> QED
      BY <1>6, <3>1, <3>2, <3>3, <3>4, <3>5 DEF Next, ProcessStep
  <2>3. CASE ArchiveDecision
    BY <1>6, <2>1, <2>3 DEF ArchiveDecision, local, Fresh
  <2>4. CASE SaveLoop
    <3>1. st.status = "gate-pending" /\ pc = "loop-save"
      BY <2>4, DecisionGate DEF SaveLoop, AtDecision, InLoop
    <3> QED
      BY <1>6, <2>1, <2>4, <3>1
      DEF SaveLoop, LoopInvalidates, RedivergenceRuns, Fresh
  <2>5. ASSUME NEW g \in Gates, NEW d \in Answers[g], HumanWrites(g, d)
        PROVE  Fresh'
    BY <1>6, <2>1, <2>5 DEF HumanWrites, local, Fresh
  <2> QED
    BY <1>4, <2>2, <2>3, <2>4, <2>5
<1>7. CASE UNCHANGED vars
  BY <1>7 DEF vars, disk, local, Fresh
<1>8. stale' = stale \/ MergeChampion \/ DeleteOutputs
        \/ \E s \in Stages : StageSucceeds(s)
  BY FileWriters DEF files, EnterGate, StayAtGate, ReadDecision, DeleteGateFile,
     HumanWrites, SeatChampion, ArchiveDecision, ReopenGateC
<1> QED
  BY <1>1, <1>2, <1>3, <1>4, <1>5, <1>6, <1>7, <1>8

\* FreshTournament: as long as no process dies between a champion's merge and
\* the invalidation it asks for, Gate C and the report see a tournament over
\* the finalists as they are.
THEOREM TournamentFresh ==
  ASSUME ~RerunAhead, CrashPoints \cap (Deleting \cup {"archive", "loop-save"}) = {}
  PROVE  Spec => []FreshTournament
<1>1. Init => Fresh
  BY DEF Init, Fresh
<1>2. IInv /\ Reached /\ Fresh /\ [Next]_vars => Fresh'
  BY FreshStep DEF IInv
<1>3. Fresh => FreshTournament
  BY DEF Fresh, FreshTournament
<1>4. CrashPoints \cap Deleting = {}
  OBVIOUS
<1>5. Spec => [](IInv /\ Reached)
  BY <1>4, ReachedAlways
<1> QED
  BY <1>1, <1>2, <1>3, <1>5, PTL DEF Spec

\* A champion is undived while it dives only.
Dived == undived # 0 => pc = "dive" /\ undived = 1

LEMMA DivedStep ==
  ASSUME "dive" \notin CrashPoints, "dive" \notin FailPoints,
         TypeOK, Phase, Dived, [Next]_vars
  PROVE  Dived'
<1>1. CASE undived' = 0
  BY <1>1 DEF Dived
<1>2. CASE SeatChampion
  BY <1>2 DEF SeatChampion, AtMiniLoop, LoopAsked, Dived
<1>3. CASE MergeChampion
  BY <1>3 DEF MergeChampion, Phase, Deciding, Dived
<1>4. CASE undived # 0 /\ undived' = undived
  <2>1. pc = "dive" /\ undived = 1
    BY <1>4 DEF Dived
  <2>2. MergeChampion \/ pc' = pc
    <3>1. ~StageStep /\ ~Resume /\ ~Halt /\ ~Advance
      BY <2>1 DEF StageStep, SkipStage, InputsMissing, StageSucceeds,
         StageInterrupted, StageFails, AtStage, Resume, Halt, Advance
    <3>2. ~GateStep
      BY <2>1 DEF GateStep, EnterGate, StayAtGate, ReadDecision, SaveApproval,
         DeleteGateFile, AtGate
    <3>3. /\ ~RefuseDecision /\ ~ApplyDecision /\ ~SaveRerunRequest
          /\ ~DeleteOutputs /\ ~SaveInvalidation
      BY <2>1 DEF RefuseDecision, ApplyDecision, SaveRerunRequest, DeleteOutputs,
         SaveInvalidation
    <3>4. LoopStep => MergeChampion
      BY <2>1 DEF LoopStep, RefuseLoop, ApplyFeedback, ApplyFeedbackToDives,
         BoardsStand, SeatChampion, LoopFails, PauseOnAgentError, AtMiniLoop,
         LoopAsked, ArchiveDecision, SaveLoop, ReopenGateC
    <3>5. ~Crash /\ \A s \in Stages : ~Rerun(s)
      BY <2>1 DEF Crash, MayCrash, Rewound, Invalidating, Rerun
    <3> QED
      BY <3>1, <3>2, <3>3, <3>4, <3>5 DEF Next, ProcessStep, HumanWrites, vars
  <2> QED
    BY <1>3, <1>4, <2>1, <2>2 DEF Dived
<1>5. \/ undived' = undived \/ undived' = 0 \/ SeatChampion \/ MergeChampion
  BY FileWriters DEF files, StageSucceeds, EnterGate, StayAtGate, ReadDecision,
     DeleteGateFile, HumanWrites, ArchiveDecision, ReopenGateC, DeleteOutputs,
     boards
<1> QED
  BY <1>1, <1>2, <1>3, <1>4, <1>5

\* S8 only started on boards whose cases were made, and they stay made: what
\* moves the boards again takes the report away first.
Reported == 8 \in written => covered

LEMMA ReportedStep ==
  ASSUME CrashPoints \cap Deleting = {}, TypeOK, Phase, Reached, Reported,
         [Next]_vars
  PROVE  Reported'
<1> USE DEF Reported
<1>1. CASE covered' = covered /\ (8 \in written' => 8 \in written)
  BY <1>1
<1>2. CASE StageStep
  <2> PICK s \in Stages : \/ SkipStage(s) \/ InputsMissing(s) \/ StageSucceeds(s)
                          \/ StageInterrupted(s) \/ StageFails(s)
    BY <1>2 DEF StageStep
  <2>1. CASE StageSucceeds(s)
    <3>1. CASE s = 7
      <4>1. 8 \notin written
        BY <2>1, <3>1 DEF StageSucceeds, AtStage, Reached
      <4> QED
        BY <2>1, <3>1, <4>1 DEF StageSucceeds, CheckedOutputs
    <3>2. CASE s # 7
      BY <2>1, <3>2 DEF StageSucceeds, CheckedOutputs, InputsReady
    <3> QED
      BY <3>1, <3>2
  <2>2. CASE SkipStage(s) \/ InputsMissing(s) \/ StageInterrupted(s)
    BY <1>1, <2>2 DEF SkipStage, InputsMissing, StageInterrupted, disk, boards
  <2>3. CASE StageFails(s)
    BY <1>1, <2>3 DEF StageFails, CutShort
  <2> QED
    BY <2>1, <2>2, <2>3
<1>3. CASE ApplyFeedback
  <2>1. st.stage = 7
    BY <1>3, DecisionGate DEF ApplyFeedback, LoopAsked, AtDecision
  <2>2. 8 \notin written
    BY <2>1 DEF Reached
  <2> QED
    BY <1>3, <2>2 DEF ApplyFeedback
<1>4. CASE GateStep
  BY <1>1, <1>4 DEF GateStep, EnterGate, StayAtGate, ReadDecision, SaveApproval,
     DeleteGateFile, disk, boards
<1>5. CASE ApplyFeedbackToDives \/ MergeChampion \/ DeleteOutputs \/ SeatChampion
  BY <1>1, <1>5 DEF ApplyFeedbackToDives, MergeChampion, DeleteOutputs,
     SeatChampion
<1>6. CASE \/ RefuseLoop \/ BoardsStand \/ LoopFails \/ ArchiveDecision
           \/ SaveLoop \/ ReopenGateC
  BY <1>1, <1>6 DEF RefuseLoop, BoardsStand, LoopFails, ArchiveDecision, SaveLoop,
     ReopenGateC, disk, boards
<1>7. CASE \/ Resume \/ Halt \/ Advance \/ RefuseDecision \/ ApplyDecision
           \/ SaveRerunRequest \/ SaveInvalidation \/ UNCHANGED vars
  BY <1>1, <1>7 DEF Resume, Halt, Advance, RefuseDecision, ApplyDecision,
     SaveRerunRequest, SaveInvalidation, vars, disk, boards
<1>8. CASE \/ \E s \in Stages : Rerun(s)
           \/ \E g \in Gates : \E d \in Answers[g] : HumanWrites(g, d)
  BY <1>1, <1>8 DEF Rerun, HumanWrites, disk, boards
<1>9. CASE Crash
  BY <1>1, <1>9 DEF Crash, CutShort, disk, boards
<1> QED
  BY <1>2, <1>3, <1>4, <1>5, <1>6, <1>7, <1>8, <1>9 DEF Next, ProcessStep, LoopStep

\* DoneIsWhole: a finished run has every stage's outputs, no finalist that was
\* never dived and no case S8 asks for that was never made, unless it dies
\* inside an invalidation that goes back or its champion's dive is cut short
\* (the runs engine_crashed_rerun and engine_lost_dive).
THEOREM DoneWhole ==
  ASSUME ~RerunAhead, CrashPoints \cap Deleting = {},
         "dive" \notin CrashPoints, "dive" \notin FailPoints
  PROVE  Spec => []DoneIsWhole
<1>1. Init => Dived /\ Reported
  BY DEF Init, Dived, Reported
<1>2. IInv /\ Dived /\ [Next]_vars => Dived'
  BY DivedStep DEF IInv
<1>3. IInv /\ Reached /\ Reported /\ [Next]_vars => Reported'
  BY ReportedStep DEF IInv
<1>4. IInv /\ Reached /\ Dived /\ Reported => DoneIsWhole
  <2> SUFFICES ASSUME IInv, Reached, Dived, Reported,
                      st.status = "done", ~Invalidating
               PROVE  written = Stages /\ undived = 0 /\ covered
    BY DEF DoneIsWhole
  <2>1. 8 \in written /\ st.stage = 8
    BY DEF Reached
  <2>2. written = Stages
    <3>1. written \subseteq 0..8 /\ \A s \in 0..8 : s < 8 => s \in written
      BY <2>1 DEF Reached, IInv, TypeOK, DiskOK, Stages
    <3>2. \A s \in 0..8 : s < 8 \/ s = 8
      OBVIOUS
    <3> QED
      BY <2>1, <3>1, <3>2 DEF Stages
  <2>3. pc # "dive"
    BY DecisionGate DEF IInv, AtDecision, InLoop
  <2> QED
    BY <2>1, <2>2, <2>3 DEF Dived, Reported
<1> QED
  BY <1>1, <1>2, <1>3, <1>4, ReachedAlways, PTL DEF Spec

-----------------------------------------------------------------------------
(* What stays of an approval, and what waits for it.                       *)

\* The decision behind an approval is on file until the approval is withdrawn.
Kept ==
  \A g \in Gates :
    st.gates[g] = "approved" /\ (Invalidating => GateStage[g] < target)
      => gfile[g] \in {"approve", "edit"}

\* While files are being deleted nothing else moves the run.
LEMMA WhileInvalidating ==
  ASSUME CrashPoints \cap Deleting = {}, Invalidating, [Next]_vars
  PROVE  \/ UNCHANGED <<st, target>> /\ Invalidating'
         \/ SaveInvalidation
         \/ Crash /\ Rewound
<1>1. ~StageStep /\ ~Resume /\ ~Halt /\ ~Advance
  BY DEF Invalidating, StageStep, SkipStage, InputsMissing, StageSucceeds,
     StageInterrupted, StageFails, AtStage, Resume, Halt, Advance
<1>2. GateStep => UNCHANGED <<st, target>> /\ Invalidating'
  BY DEF Invalidating, GateStep, EnterGate, StayAtGate, ReadDecision,
     SaveApproval, DeleteGateFile, DeleteNext, AtGate
<1>3. /\ ~RefuseDecision /\ ~ApplyDecision /\ ~SaveRerunRequest /\ ~LoopStep
      /\ (Crash => Rewound) /\ \A s \in Stages : ~Rerun(s)
  BY DEF Invalidating, Deleting, RefuseDecision, ApplyDecision, SaveRerunRequest,
     LoopStep, RefuseLoop, ApplyFeedback, ApplyFeedbackToDives, BoardsStand,
     SeatChampion, MergeChampion, LoopFails, AtMiniLoop, LoopAsked,
     ArchiveDecision, SaveLoop, ReopenGateC, Crash, MayCrash, Rerun
<1>4. DeleteOutputs => UNCHANGED <<st, target>> /\ Invalidating'
  BY DEF Invalidating, DeleteOutputs, DeleteNext
<1>5. UNCHANGED vars \/ (\E g \in Gates : \E d \in Answers[g] : HumanWrites(g, d))
        => UNCHANGED <<st, target>> /\ Invalidating'
  BY DEF Invalidating, vars, HumanWrites, local
<1> QED
  BY <1>1, <1>2, <1>3, <1>4, <1>5 DEF Next, ProcessStep

LEMMA KeptStep ==
  ASSUME CrashPoints \cap Deleting = {}, IInv, Reached, DecisionOnFile, Kept,
         [Next]_vars
  PROVE  Kept'
<1> SUFFICES ASSUME NEW g \in Gates, st'.gates[g] = "approved",
                    Invalidating' => GateStage[g] < target'
             PROVE  gfile'[g] \in {"approve", "edit"}
  BY DEF Kept
<1> USE DEF IInv, TypeOK, StateOK, State, DiskOK
<1>1. CASE st.gates[g] # "approved"
  <2>1. SaveApproval(g)
    BY <1>1, NewApproval
  <2> QED
    BY <2>1 DEF SaveApproval, disk, DecisionOnFile, Phase, Deciding, AtDecision
<1>2. CASE st.gates[g] = "approved" /\ Invalidating /\ ~(GateStage[g] < target)
  <2>1. ~(UNCHANGED <<st, target>> /\ Invalidating')
    BY <1>2
  <2>2. SaveInvalidation \/ (Crash /\ Rewound)
    BY <1>2, <2>1, WhileInvalidating
  <2>3. GateStage[g] >= target
    BY <1>2, GateStages DEF ProcessOK, Stages
  <2>4. ~Rewound
    BY <1>2, <2>3, GateStages DEF Rewound, GateOrder, ProcessOK, Stages
  <2> QED
    BY <2>2, <2>3, <2>4 DEF SaveInvalidation, GatesReset
<1>3. CASE st.gates[g] = "approved" /\ (Invalidating => GateStage[g] < target)
  <2>1. gfile[g] \in {"approve", "edit"}
    BY <1>3 DEF Kept
  <2>2. ASSUME NEW h \in Gates,
               EnterGate(h) \/ StayAtGate(h) \/ ReadDecision(h)
        PROVE  gfile'[g] = gfile[g]
    <3>1. CASE h # g
      BY <2>2, <3>1 DEF EnterGate, StayAtGate, ReadDecision
    <3>2. CASE h = g
      <4>1. OnFile(g) = gfile[g] /\ ~AutoApproves(g)
        BY <2>1 DEF OnFile, AutoApproves
      <4> QED
        BY <2>1, <2>2, <3>2, <4>1 DEF EnterGate, StayAtGate, ReadDecision
    <3> QED
      BY <3>1, <3>2
  <2>3. ASSUME NEW h \in Gates, DeleteGateFile(h)
        PROVE  gfile'[g] = gfile[g]
    <3>1. h # g
      <4>1. pc = "inv-gate" /\ todo = GateStage[h]
        BY <2>3 DEF DeleteGateFile, OpensGate
      <4>2. target <= GateStage[h] /\ GateStage[g] < target
        BY <1>3, <4>1 DEF Reached, Invalidating
      <4>3. target \in 0..8 /\ GateStage[g] \in 0..8 /\ GateStage[h] \in 0..8
        BY GateStages DEF ProcessOK, Stages
      <4> QED
        BY <4>2, <4>3
    <3> QED
      BY <2>3, <3>1 DEF DeleteGateFile
  <2>4. ASSUME NEW h \in Gates, NEW d \in Answers[h], HumanWrites(h, d)
        PROVE  gfile'[g] = gfile[g]
    BY <1>3, <2>4 DEF HumanWrites
  <2>5. CASE ArchiveDecision
    <3>1. st.stage = 7
      BY <2>5, DecisionGate
      DEF ArchiveDecision, AtDecision, InLoop, Phase, Deciding
    <3>2. g # "C"
      BY <1>3, <3>1, GateStages DEF GateOrder
    <3> QED
      BY <2>1, <2>5, <3>2 DEF ArchiveDecision
  <2>6. CASE ReopenGateC
    BY <2>1, <2>6 DEF ReopenGateC
  <2>7. CASE \/ \E s \in Stages : StageSucceeds(s)
             \/ SeatChampion \/ MergeChampion \/ DeleteOutputs
             \/ UNCHANGED files
    BY <2>1, <2>7 DEF StageSucceeds, SeatChampion, MergeChampion, DeleteOutputs,
       files
  <2> QED
    BY <2>1, <2>2, <2>3, <2>4, <2>5, <2>6, <2>7, FileWriters
<1> QED
  BY <1>1, <1>2, <1>3

\* ApprovalOnFile: the decision behind every approval in force is still at its
\* gate for S7 and S8 to read back, with no edit in flight and no process dying
\* inside an invalidation.
THEOREM ApprovalsOnFile ==
  ASSUME ~RerunAhead, ~EditsInFlight, CrashPoints \cap Deleting = {}
  PROVE  Spec => []ApprovalOnFile
<1>1. Init => DecisionOnFile /\ Kept
  <2> SUFFICES ASSUME Init PROVE DecisionOnFile /\ Kept
    OBVIOUS
  <2>1. pc = "idle" /\ \A g \in Gates : st.gates[g] = "not-reached"
    BY DEF Init
  <2> QED
    BY <2>1 DEF DecisionOnFile, Kept, AtDecision, InLoop
<1>2. IInv /\ DecisionOnFile /\ [Next]_vars => DecisionOnFile'
  BY DecisionOnFileStep DEF IInv
<1>3. IInv /\ Reached /\ DecisionOnFile /\ Kept /\ [Next]_vars => Kept'
  BY KeptStep
<1>4. Kept => ApprovalOnFile
  BY DEF Kept, ApprovalOnFile
<1> QED
  BY <1>1, <1>2, <1>3, <1>4, ReachedAlways, PTL DEF Spec

\* Behind the run pointer every gate was approved, or jumped by a rerun.
GatesBehind ==
  \A g \in Gates : GateStage[g] < st.stage => st.gates[g] = "approved" \/ g \in jumped

LEMMA JumpsKept == [Next]_vars => jumped' = jumped \/ SaveInvalidation
<1> SUFFICES ASSUME [Next]_vars, ~SaveInvalidation PROVE jumped' = jumped
  OBVIOUS
<1> USE DEF disk, boards
<1>1. CASE StageStep
  BY <1>1 DEF StageStep, SkipStage, InputsMissing, StageSucceeds, StageInterrupted,
     StageFails, CutShort
<1>2. CASE GateStep
  BY <1>2 DEF GateStep, EnterGate, StayAtGate, ReadDecision, SaveApproval,
     DeleteGateFile
<1>3. CASE LoopStep
  BY <1>3 DEF LoopStep, RefuseLoop, ApplyFeedback, ApplyFeedbackToDives,
     BoardsStand, SeatChampion, MergeChampion, LoopFails, ArchiveDecision,
     SaveLoop, ReopenGateC
<1>4. CASE \/ Resume \/ Halt \/ Advance \/ RefuseDecision \/ ApplyDecision
           \/ SaveRerunRequest \/ DeleteOutputs \/ UNCHANGED vars
  BY <1>4 DEF Resume, Halt, Advance, RefuseDecision, ApplyDecision,
     SaveRerunRequest, DeleteOutputs, vars
<1>5. CASE \/ \E s \in Stages : Rerun(s)
           \/ \E g \in Gates : \E d \in Answers[g] : HumanWrites(g, d)
  BY <1>5 DEF Rerun, HumanWrites
<1>6. CASE Crash
  BY <1>6 DEF Crash, CutShort
<1> QED
  BY <1>1, <1>2, <1>3, <1>4, <1>5, <1>6 DEF Next, ProcessStep

LEMMA GatesBehindStep ==
  ASSUME TypeOK, Phase, GatesBehind, [Next]_vars
  PROVE  GatesBehind'
<1> USE GateStages DEF GatesBehind, TypeOK, StateOK, State
<1>1. CASE SaveInvalidation
  <2>1. /\ st'.stage = target /\ target \in 0..8 /\ st.stage \in 0..8
        /\ st'.gates = GatesReset(target)
        /\ jumped' = {g \in Gates : /\ GateStage[g] < target
                                    /\ g \in jumped \/ GateStage[g] >= st.stage}
    BY <1>1 DEF SaveInvalidation, ProcessOK, Stages
  <2>2. ASSUME NEW g \in Gates, GateStage[g] < target, g \notin jumped'
        PROVE  st'.gates[g] = "approved"
    <3>1. GateStage[g] < st.stage /\ g \notin jumped
      BY <2>1, <2>2
    <3> QED
      BY <2>1, <2>2, <3>1 DEF GatesReset
  <2> QED
    BY <2>1, <2>2
<1>2. CASE jumped' = jumped /\ UNCHANGED st
  BY <1>2
<1>3. CASE jumped' = jumped /\ (Resume \/ PauseOnAgentError \/ SaveLoop)
  BY <1>3 DEF Resume, PauseOnAgentError, SaveLoop
<1>4. CASE jumped' = jumped /\ Advance
  BY <1>4 DEF Advance, OpensGate, Stages
<1>5. ASSUME NEW g \in Gates, EnterGate(g), jumped' = jumped PROVE GatesBehind'
  <2>1. st'.stage = GateStage[g] /\ st.stage = GateStage[g]
    BY <1>5 DEF EnterGate, OpensGate
  <2>2. \A h \in Gates : st'.gates[h] = IF h = g THEN "pending" ELSE st.gates[h]
    BY <1>5 DEF EnterGate
  <2> QED
    BY <1>5, <2>1, <2>2
<1>6. ASSUME NEW g \in Gates, SaveApproval(g), jumped' = jumped PROVE GatesBehind'
  <2>1. st.stage = GateStage[g] /\ st'.stage = GateStage[g] + 1
    BY <1>6 DEF SaveApproval, StageAfter, Phase, Pending
  <2>2. \A h \in Gates : st'.gates[h] = IF h = g THEN "approved" ELSE st.gates[h]
    BY <1>6 DEF SaveApproval
  <2> QED
    BY <1>6, <2>1, <2>2
<1>7. CASE SaveRerunRequest
  <2>1. st'.stage = 1
    BY <1>7 DEF SaveRerunRequest
  <2> QED
    BY <2>1
<1> QED
  BY <1>1, <1>2, <1>3, <1>4, <1>5, <1>6, <1>7, StateSavers, JumpsKept

\* GatedOutputs: no stage's outputs come into being before every gate ahead of
\* it has been approved, but for the gates a rerun carried the run past; for
\* every cap, crash pattern, notify mode and rerun, those ahead of the run too.
THEOREM OutputsGated == Spec => GatedOutputs
<1> DEFINE J == TypeOK /\ Phase /\ GatesBehind
           Gated == \A s \in written' \ written : \A g \in Gates :
             GateStage[g] < s => st.gates[g] = "approved" \/ g \in jumped
<1>1. Init => J
  BY InitInvariant, GateStages DEF IInv, Init, GatesBehind
<1>2. J /\ [Next]_vars => J'
  BY TypeStep, PhaseStep, GatesBehindStep
<1>3. J /\ [Next]_vars => [Gated]_vars
  <2> SUFFICES ASSUME J, [Next]_vars,
                      NEW s \in written' \ written, NEW g \in Gates,
                      GateStage[g] < s
               PROVE  st.gates[g] = "approved" \/ g \in jumped
    BY DEF Gated
  <2>1. ~UNCHANGED written
    OBVIOUS
  <2>2. ~DeleteOutputs
    BY DEF DeleteOutputs
  <2>3. PICK t \in Stages : StageSucceeds(t)
    BY <2>1, <2>2, FileWriters DEF files, EnterGate, StayAtGate, ReadDecision,
       DeleteGateFile, HumanWrites, SeatChampion, MergeChampion, ArchiveDecision,
       ReopenGateC
  <2>4. t = s /\ st.stage = s
    BY <2>3 DEF StageSucceeds, CheckedOutputs, AtStage
  <2> QED
    BY <2>4 DEF GatesBehind
<1> QED
  BY <1>1, <1>2, <1>3, PTL DEF Spec, GatedOutputs
=============================================================================
