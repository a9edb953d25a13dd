------------------------------- MODULE Engine -------------------------------
(***************************************************************************)
(* The deterministic spine of a run: orchestrator/engine.py (the state     *)
(* machine), gates.py (decision files), rerun.py (invalidation) and the    *)
(* commands of cli.py that start a process over a run's workspace.         *)
(*                                                                         *)
(* What is on disk survives a crash: state.json (st), the stage outputs    *)
(* (written, stale), the gate files, the rerun hint.  What a process holds *)
(* (pc, dec, target, todo, merged) does not.  Every action is the code     *)
(* between two writes of the workspace, so a crash between any two of them *)
(* is a behaviour.  The stages' own work is one action with the outcomes   *)
(* the engine tells apart; their modules open it up.                       *)
(*                                                                         *)
(* An operator marked "slip" is not the code: it is the operator below it  *)
(* with a plausible mistake, put in its place to see a property fail.      *)
(***************************************************************************)
EXTENDS Naturals, FiniteSets

CONSTANTS
  MaxGateCLoops,    \* caps.max_gate_c_loops
  MaxRedivergence,  \* caps.max_redivergence_loops
  NotifyGates,      \* gates whose config gate_modes entry is "notify"
  RerunAhead,       \* may `deeper rerun` name a stage ahead of the run?
  EditsInFlight,    \* may a human edit a gate file while a process runs?
  CrashPoints,      \* program points at which a process may die
  FailPoints,       \* program points at which an agent may fail for good
  MaxCrashes,       \* bound: crashes in a behaviour
  MaxFailures,      \* bound: agent failures and declined confirmations
  MaxReruns         \* bound: `deeper rerun` commands

Stages == 0..8
Gates == {"A", "B", "C"}
Points == {"idle", "run", "advance", "decided", "save", "inv", "inv-gate",
           "inv-save", "slots", "rediv", "dive", "archive", "loop-save",
           "reopen"}
LoopDecisions == {"feedback", "rediv", "both"}
Answers == [A |-> {"draft", "approve", "edit", "hint"},
            B |-> {"draft", "approve"},
            C |-> {"draft", "approve"} \cup LoopDecisions]
Decisions == {"approve", "edit", "hint"} \cup LoopDecisions
FileContents == {"absent", "template", "draft"} \cup Decisions
Statuses == {"running", "gate-pending", "paused-attention", "done"}
GateStatuses == {"not-reached", "pending", "approved", "rerun-requested"}

ASSUME CapsAssumption ==
  /\ MaxGateCLoops \in Nat /\ MaxRedivergence \in Nat
  /\ NotifyGates \subseteq Gates
  /\ RerunAhead \in BOOLEAN /\ EditsInFlight \in BOOLEAN
  /\ CrashPoints \subseteq (Points \ {"idle"}) \cup {"rewound"}
  /\ FailPoints \subseteq Points
  /\ MaxCrashes \in Nat /\ MaxFailures \in Nat /\ MaxReruns \in Nat

\* The stage whose completion opens each gate (GATE_AFTER_STAGE).
GateStage == [A |-> 1, B |-> 4, C |-> 7]

\* The stages whose outputs a stage's required_inputs name.
Requires == [s \in Stages |->
  CASE s = 0 -> {}        [] s = 1 -> {0}          [] s = 2 -> {1}
    [] s = 3 -> {0, 1, 2} [] s = 4 -> {0, 1, 2, 3} [] s = 5 -> 0..4
    [] s = 6 -> {0, 3, 4, 5} [] s = 7 -> {0, 1, 4, 5, 6}
    [] s = 8 -> {0, 1, 2, 4, 5, 6, 7}]

VARIABLES
  st,          \* state.json, one atomically replaced file
  written,     \* stages whose outputs of a fixed name are on disk and validate
  stale,       \* written stages whose inputs were replaced since
  gfile,       \* gates/gate-{a,b,c}.yaml
  archived,    \* gates/gate-c.N.yaml
  hint,        \* gates/gate-a-hint.txt exists
  mapEdited,   \* angles/map.yaml already carries the decision's edits
  proposal,    \* tournament/frame-check.md proposes a re-divergence
  covered,     \* every option tournament/scores.yaml owes S8 has its case
  drawn,       \* every option dossiers/scores.yaml owes S7 has its case
  undived,     \* finalists in the shortlist that S6 never dived
  moved,       \* history: a loop moved dossiers/scores.yaml since S7 ran
  jumped,      \* history: gates a `deeper rerun` carried the run past
  pc, dec, target, todo, merged,
  faults       \* what the bounds have used up

boards == <<proposal, covered, drawn, moved, undived>>
disk  == <<written, stale, gfile, archived, hint, mapEdited, boards, jumped>>
local == <<dec, target, todo, merged>>
vars  == <<st, disk, pc, local, faults>>

State == [stage: Stages, status: Statuses, pending: Gates \cup {"none"},
          gates: [Gates -> GateStatuses], iters: Nat, rediv: Nat]

Init ==
  /\ st = [stage |-> 0, status |-> "running", pending |-> "none",
           gates |-> [g \in Gates |-> "not-reached"], iters |-> 0, rediv |-> 0]
  /\ written = {} /\ stale = {} /\ undived = 0
  /\ gfile = [g \in Gates |-> "absent"]
  /\ archived = [n \in 1..MaxGateCLoops |-> "absent"]
  /\ hint = FALSE /\ mapEdited = FALSE /\ proposal = FALSE /\ covered = TRUE
  /\ drawn = FALSE /\ moved = FALSE /\ jumped = {}
  /\ pc = "idle" /\ dec = "none" /\ target = 0 /\ todo = 0 /\ merged = FALSE
  /\ faults = [crashes |-> 0, failures |-> 0, reruns |-> 0]

-----------------------------------------------------------------------------
(* Commands: one process at a time works on a run.                         *)

\* `deeper resume`, and `deeper run` from any node that is not a pause.
Resume ==
  /\ pc = "idle"
  /\ pc' = "run"
  /\ st' = IF st.status = "paused-attention"
             THEN [st EXCEPT !.status = "running"] ELSE st
  /\ UNCHANGED <<disk, local, faults>>

\* `deeper rerun --stage s`: invalidate, then run.
Rerun(s) ==
  /\ pc = "idle" /\ faults.reruns < MaxReruns
  /\ RerunAhead \/ s <= st.stage
  /\ faults' = [faults EXCEPT !.reruns = @ + 1]
  /\ pc' = "inv" /\ target' = s /\ todo' = s
  /\ UNCHANGED <<st, disk, dec, merged>>

\* run() returns at once at DONE and at PAUSED_ATTENTION.
Halt ==
  /\ pc = "run" /\ st.status \in {"done", "paused-attention"}
  /\ pc' = "idle"
  /\ UNCHANGED <<st, disk, local, faults>>

-----------------------------------------------------------------------------
(* Stage nodes: _process_stage and _advance_past.                          *)

\* S7 computes what it owes from dossiers/scores.yaml and the rubric.
IsComplete(s) ==
  /\ s \in written
  /\ s = 7 => drawn /\ {4, 6} \subseteq written
  /\ s = 1 => ~hint
  /\ s = 6 => undived = 0

InputsReady(s) ==
  /\ Requires[s] \subseteq written
  /\ s \in {7, 8} => gfile["A"] # "absent"
  /\ s = 8 => covered

AtStage(s) == pc = "run" /\ st.status = "running" /\ st.stage = s

SkipStage(s) ==
  /\ AtStage(s) /\ IsComplete(s)
  /\ pc' = "advance"
  /\ UNCHANGED <<st, disk, local, faults>>

\* validate_inputs raises; nothing catches it and the process ends.
InputsMissing(s) ==
  /\ AtStage(s) /\ ~IsComplete(s) /\ ~InputsReady(s)
  /\ pc' = "idle"
  /\ UNCHANGED <<st, disk, local, faults>>

\* _check_outputs lets a stage through only with its outputs on disk.
UncheckedReport(s) ==  \* slip: the report is not among the checked outputs
  written \cup ({s} \ {8})
CheckedOutputs(s) == written \cup {s}

HintKept(s) == hint  \* slip: S1 leaves the consumed hint on disk
HintAfter(s) == hint /\ s # 1

\* execute() returns and the declared outputs validate.  A frame check on disk
\* is not asked for again.
StageSucceeds(s) ==
  /\ AtStage(s) /\ ~IsComplete(s) /\ InputsReady(s)
  /\ written' = CheckedOutputs(s)
  /\ stale' = {t \in written : t > s} \cup (stale \ {s})
  /\ hint' = HintAfter(s)
  /\ undived' = IF s = 6 THEN 0 ELSE undived
  /\ proposal' \in IF s = 7 /\ 7 \notin written THEN BOOLEAN ELSE {proposal}
  /\ covered' \in IF s = 7 THEN BOOLEAN ELSE {covered}
  /\ drawn' = (drawn \/ s = 7) /\ moved' = (moved /\ s # 7)
  /\ pc' = "advance"
  /\ UNCHANGED <<st, gfile, archived, mapEdited, jumped, local, faults>>

\* StageInterrupted: S0's brief declined, S2's map infeasible.
StageInterrupted(s) ==
  /\ AtStage(s) /\ ~IsComplete(s) /\ InputsReady(s)
  /\ s \in {0, 2} /\ faults.failures < MaxFailures
  /\ faults' = [faults EXCEPT !.failures = @ + 1]
  /\ pc' = "idle"
  /\ UNCHANGED <<st, disk, local>>

\* _pause_on_agent_error, from a stage or from a Gate-C loop.
PauseOnAgentError ==
  /\ pc \in FailPoints /\ faults.failures < MaxFailures
  /\ faults' = [faults EXCEPT !.failures = @ + 1]
  /\ st' = [st EXCEPT !.status = "paused-attention", !.pending = "none"]
  /\ pc' = "idle" /\ dec' = "none"
  /\ UNCHANGED <<target, todo, merged>>

\* An S7 pass over a board a loop has moved draws the cases it owes one by
\* one: cut short, it may or may not have come to the last.
CutShort(s) ==
  /\ drawn' \in {drawn} \cup ({TRUE} \cap {s = 7 /\ 7 \in written})
  /\ UNCHANGED <<written, stale, gfile, archived, hint, mapEdited, proposal,
                 covered, moved, undived, jumped>>

StageFails(s) ==
  /\ AtStage(s) /\ ~IsComplete(s) /\ InputsReady(s)
  /\ PauseOnAgentError /\ CutShort(s)

ClosedGateC(g, s) == GateStage[g] = s /\ g # "C"  \* slip: Gate C forgotten
OpensGate(g, s) == GateStage[g] = s

EnterGate(g) ==
  /\ pc = "advance" /\ OpensGate(g, st.stage)
  /\ gfile' = [gfile EXCEPT ![g] = IF @ = "absent" THEN "template" ELSE @]
  /\ st' = [st EXCEPT !.status = "gate-pending", !.pending = g,
                      !.gates[g] = "pending"]
  /\ pc' = "run"
  /\ UNCHANGED <<written, stale, archived, hint, mapEdited, boards, jumped, local, faults>>

Advance ==
  /\ pc = "advance" /\ \A g \in Gates : ~OpensGate(g, st.stage)
  /\ st' = IF st.stage = 8
             THEN [st EXCEPT !.status = "done", !.pending = "none"]
             ELSE [st EXCEPT !.stage = @ + 1, !.status = "running"]
  /\ pc' = "run"
  /\ UNCHANGED <<disk, local, faults>>

-----------------------------------------------------------------------------
(* Gate nodes: _process_gate.                                              *)

AtGate(g) == pc = "run" /\ st.status = "gate-pending" /\ st.pending = g

\* write_template_if_absent: what the process reads next.
OnFile(g) == IF gfile[g] = "absent" THEN "template" ELSE gfile[g]

AutoApproves(g) == g \in NotifyGates /\ OnFile(g) = "template"

\* Undecided or unreadable: the gate stays pending and run() returns.
StayAtGate(g) ==
  /\ AtGate(g) /\ OnFile(g) \in {"template", "draft"} /\ ~AutoApproves(g)
  /\ gfile' = [gfile EXCEPT ![g] = OnFile(g)]
  /\ pc' = "idle"
  /\ UNCHANGED <<st, written, stale, archived, hint, mapEdited, boards, jumped, local, faults>>

DraftPasses(g) ==  \* slip: an undecided file counts as the default
  IF OnFile(g) = "draft" THEN "approve" ELSE OnFile(g)
DecisionRead(g) == IF AutoApproves(g) THEN "approve" ELSE OnFile(g)

\* A decision is on file, or notify mode writes the default one.
ReadDecision(g) ==
  /\ AtGate(g)
  /\ dec' = DecisionRead(g) /\ dec' \in Decisions
  /\ gfile' = [gfile EXCEPT ![g] = IF AutoApproves(g) THEN "approve" ELSE OnFile(g)]
  /\ pc' = "decided"
  /\ UNCHANGED <<st, written, stale, archived, hint, mapEdited, boards, jumped, target, todo, merged, faults>>

ApprovalRefused ==  \* slip: any decision over an edited map is refused
  mapEdited \/ (st.pending = "B" /\ 4 \notin written)

\* apply's referential problems: the edit finds its angles already gone or
\* already there, or the file it edits is missing.
CannotApply ==
  \/ dec = "edit" /\ (mapEdited \/ 1 \notin written)
  \/ st.pending = "B" /\ 4 \notin written

RefuseDecision ==
  /\ pc = "decided" /\ dec \in {"approve", "edit", "hint"} /\ CannotApply
  /\ pc' = "idle" /\ dec' = "none"
  /\ UNCHANGED <<st, disk, target, todo, merged, faults>>

ApplyDecision ==
  /\ pc = "decided" /\ dec \in {"approve", "edit", "hint"} /\ ~CannotApply
  /\ mapEdited' = (mapEdited \/ dec = "edit")
  /\ hint' = (hint \/ dec = "hint")
  /\ pc' = "save"
  /\ UNCHANGED <<st, written, stale, gfile, archived, boards, jumped, local, faults>>

SkipsStage(g) == GateStage[g] + 2  \* slip: a stage too far
StageAfter(g) == GateStage[g] + 1

SaveApproval(g) ==
  /\ pc = "save" /\ dec # "hint" /\ st.pending = g
  /\ st' = [st EXCEPT !.gates[g] = "approved", !.status = "running",
                      !.pending = "none", !.stage = StageAfter(g)]
  /\ pc' = "run" /\ dec' = "none"
  /\ UNCHANGED <<disk, target, todo, merged, faults>>

\* The loop edge of Gate A: save, then the same invalidation as `rerun`.
SaveRerunRequest ==
  /\ pc = "save" /\ dec = "hint"
  /\ st' = [st EXCEPT !.gates["A"] = "rerun-requested", !.status = "running",
                      !.pending = "none", !.stage = 1]
  /\ pc' = "inv" /\ target' = 1 /\ todo' = 1 /\ dec' = "none"
  /\ UNCHANGED <<disk, merged, faults>>

-----------------------------------------------------------------------------
(* Gate-C loops: _process_gate_c_loop and run_mini_loop.                   *)

Rediverges == dec \in {"rediv", "both"}

LoopUncapped ==  \* slip: the loop cap is not checked
  \/ 7 \notin written
  \/ Rediverges /\ (st.rediv >= MaxRedivergence \/ ~proposal)
LoopUnscored ==  \* slip: nobody asks whether the tournament is there
  \/ st.iters >= MaxGateCLoops
  \/ Rediverges /\ (st.rediv >= MaxRedivergence \/ ~proposal)
LoopProblem ==
  \/ st.iters >= MaxGateCLoops
  \/ 7 \notin written
  \/ Rediverges /\ (st.rediv >= MaxRedivergence \/ ~proposal)

LoopAsked == pc = "decided" /\ dec \in LoopDecisions

RefuseLoop ==
  /\ LoopAsked /\ LoopProblem
  /\ pc' = "idle" /\ dec' = "none"
  /\ UNCHANGED <<st, disk, target, todo, merged, faults>>

\* Preference feedback re-scores tournament/scores.yaml, so the options it
\* owes S8 a prosecution or a steelman may change; challenges move nothing.
ApplyFeedback ==
  /\ LoopAsked /\ ~LoopProblem /\ dec \in {"feedback", "both"}
  /\ covered' \in BOOLEAN
  /\ pc' = "slots"
  /\ UNCHANGED <<st, written, stale, gfile, archived, hint, mapEdited, proposal,
                 drawn, moved, undived, jumped, local, faults>>

\* dossiers/scores.yaml has another order now: S7 may owe other cases.
BoardMoved == moved' = TRUE /\ drawn' \in BOOLEAN

\* The same slots go into dossiers/scores.yaml, the board S7 drew from.
ApplyFeedbackToDives ==
  /\ pc = "slots"
  /\ BoardMoved
  /\ pc' = IF dec = "both" THEN "rediv" ELSE "archive"
  /\ UNCHANGED <<st, written, stale, gfile, archived, hint, mapEdited, proposal,
                 covered, undived, jumped, local, faults>>

\* run_mini_loop runs after the same decision's feedback, if it has any.
AtMiniLoop ==
  \/ LoopAsked /\ ~LoopProblem /\ dec = "rediv"
  \/ pc = "rediv"

\* No new card, or none that clears the shortlist floor and the finalist cap.
BoardsStand ==
  /\ AtMiniLoop
  /\ pc' = "archive"
  /\ UNCHANGED <<st, disk, local, faults>>

\* _merge_screening seats the champion before its deep dive starts.
SeatChampion ==
  /\ AtMiniLoop
  /\ undived' = undived + 1
  /\ pc' = "dive"
  /\ UNCHANGED <<st, written, stale, gfile, archived, hint, mapEdited, proposal,
                 covered, drawn, moved, jumped, local, faults>>

\* The dive's final re-score merges into dossiers/scores.yaml.
MergeChampion ==
  /\ pc = "dive"
  /\ undived' = undived - 1
  /\ stale' = stale \cup {7}
  /\ BoardMoved
  /\ merged' = TRUE /\ pc' = "archive"
  /\ UNCHANGED <<st, written, gfile, archived, hint, mapEdited, proposal,
                 covered, jumped, dec, target, todo, faults>>

LoopFails ==
  /\ (LoopAsked /\ ~LoopProblem) \/ pc \in {"rediv", "dive"}
  /\ PauseOnAgentError
  /\ UNCHANGED disk

\* gate-c.yaml is renamed to gate-c.N.yaml: whatever it holds by now.
ArchiveDecision ==
  /\ pc = "archive"
  /\ archived' = [archived EXCEPT ![st.iters + 1] = gfile["C"]]
  /\ gfile' = [gfile EXCEPT !["C"] = "absent"]
  /\ pc' = "loop-save"
  /\ UNCHANGED <<st, written, stale, hint, mapEdited, boards, jumped,
                 local, faults>>

TournamentKept == FALSE  \* slip: the merged boards keep the old tournament
LoopInvalidates == merged

RedivergenceUncounted == st.rediv  \* slip: redivergence_runs is not bumped
RedivergenceRuns == IF Rediverges THEN st.rediv + 1 ELSE st.rediv

SaveLoop ==
  /\ pc = "loop-save"
  /\ st' = [st EXCEPT !.iters = @ + 1, !.rediv = RedivergenceRuns]
  /\ pc' = IF LoopInvalidates THEN "inv" ELSE "reopen"
  /\ target' = IF LoopInvalidates THEN 7 ELSE 0
  /\ todo' = IF LoopInvalidates THEN 7 ELSE 0
  /\ dec' = "none" /\ merged' = FALSE
  /\ UNCHANGED <<disk, faults>>

ReopenGateC ==
  /\ pc = "reopen"
  /\ gfile' = [gfile EXCEPT !["C"] = IF @ = "absent" THEN "template" ELSE @]
  /\ pc' = "idle"
  /\ UNCHANGED <<st, written, stale, archived, hint, mapEdited, boards, jumped, local, faults>>

-----------------------------------------------------------------------------
(* rerun.invalidate: delete stage by stage, then save the state.           *)

DeleteNext ==
  /\ todo' = IF todo = 8 THEN 0 ELSE todo + 1
  /\ pc' = IF todo = 8 THEN "inv-save" ELSE "inv"

DeleteOutputs ==
  /\ pc = "inv"
  /\ written' = written \ {todo}
  /\ stale' = stale \ {todo}
  /\ mapEdited' = (mapEdited /\ todo # 1)
  /\ undived' = IF todo = 5 THEN 0 ELSE undived
  /\ drawn' = (drawn /\ todo # 7) /\ moved' = (moved /\ todo # 7)
  /\ IF \E g \in Gates : OpensGate(g, todo)
       THEN pc' = "inv-gate" /\ UNCHANGED todo
       ELSE DeleteNext
  /\ UNCHANGED <<st, gfile, archived, hint, proposal, covered, jumped, dec,
                 target, merged, faults>>

DeleteGateFile(g) ==
  /\ pc = "inv-gate" /\ OpensGate(g, todo)
  /\ gfile' = [gfile EXCEPT ![g] = "absent"]
  /\ DeleteNext
  /\ UNCHANGED <<st, written, stale, archived, hint, mapEdited, boards, jumped, dec, target, merged, faults>>

GatesKept(t) == st.gates  \* slip: the gates are not reset
LaterGatesReset(t) ==  \* slip: the gate of the rerun stage itself is kept
  [g \in Gates |-> IF GateStage[g] > t THEN "not-reached" ELSE st.gates[g]]
GatesReset(t) ==
  [g \in Gates |-> IF GateStage[g] >= t THEN "not-reached" ELSE st.gates[g]]

SaveInvalidation ==
  /\ pc = "inv-save"
  /\ st' = [st EXCEPT !.stage = target, !.status = "running",
                      !.pending = "none", !.gates = GatesReset(target)]
  /\ jumped' = {g \in Gates : /\ GateStage[g] < target
                              /\ g \in jumped \/ GateStage[g] >= st.stage}
  /\ pc' = "run" /\ target' = 0
  /\ UNCHANGED <<written, stale, gfile, archived, hint, mapEdited, boards, dec,
                 todo, merged, faults>>

-----------------------------------------------------------------------------
(* The environment: the human at the gates, and crashes.                   *)

HumanWrites(g, d) ==
  /\ st.gates[g] = "pending" /\ gfile[g] \notin {"absent", d}
  /\ pc = "idle" \/ EditsInFlight
  /\ gfile' = [gfile EXCEPT ![g] = d]
  /\ UNCHANGED <<st, written, stale, archived, hint, mapEdited, boards, jumped, pc, local, faults>>

Invalidating == pc \in {"inv", "inv-gate", "inv-save"}

\* A deletion that started with the run pointer already rewound to its target.
Rewound == Invalidating /\ st.stage = target /\ st.status = "running"

MayCrash == pc \in CrashPoints \/ (Rewound /\ "rewound" \in CrashPoints)

Crash ==
  /\ MayCrash /\ faults.crashes < MaxCrashes
  /\ faults' = [faults EXCEPT !.crashes = @ + 1]
  /\ pc' = "idle" /\ dec' = "none" /\ target' = 0 /\ todo' = 0 /\ merged' = FALSE
  /\ IF AtStage(7) /\ ~IsComplete(7) /\ InputsReady(7)
       THEN CutShort(7) ELSE UNCHANGED disk
  /\ UNCHANGED st

StageStep == \E s \in Stages :
  SkipStage(s) \/ InputsMissing(s) \/ StageSucceeds(s) \/ StageInterrupted(s)
    \/ StageFails(s)

GateStep == \E g \in Gates :
  EnterGate(g) \/ StayAtGate(g) \/ ReadDecision(g) \/ SaveApproval(g)
    \/ DeleteGateFile(g)

LoopStep ==
  \/ RefuseLoop \/ ApplyFeedback \/ ApplyFeedbackToDives
  \/ BoardsStand \/ SeatChampion \/ MergeChampion
  \/ LoopFails \/ ArchiveDecision \/ SaveLoop \/ ReopenGateC

ProcessStep ==
  \/ Halt \/ Advance \/ StageStep \/ GateStep \/ LoopStep
  \/ RefuseDecision \/ ApplyDecision \/ SaveRerunRequest
  \/ DeleteOutputs \/ SaveInvalidation

Next ==
  \/ Resume
  \/ \E s \in Stages : Rerun(s)
  \/ ProcessStep
  \/ \E g \in Gates : \E d \in Answers[g] : HumanWrites(g, d)
  \/ Crash

Spec == Init /\ [][Next]_vars

\* The human keeps resuming, and in the end resumes with an approval on file.
ResumeApproved(g) == Resume /\ st.pending = g /\ gfile[g] = "approve"

FairSpec ==
  /\ Spec
  /\ WF_vars(Resume) /\ WF_vars(ProcessStep)
  /\ \A g \in Gates :
       SF_vars(HumanWrites(g, "approve")) /\ SF_vars(ResumeApproved(g))

-----------------------------------------------------------------------------
(* Properties.                                                             *)

StateOK == st \in State

DiskOK ==
  /\ written \subseteq Stages /\ stale \subseteq written
  /\ gfile \in [Gates -> FileContents]
  /\ archived \in [1..MaxGateCLoops -> FileContents]
  /\ hint \in BOOLEAN /\ mapEdited \in BOOLEAN
  /\ proposal \in BOOLEAN /\ covered \in BOOLEAN /\ drawn \in BOOLEAN
  /\ undived \in Nat /\ moved \in BOOLEAN /\ jumped \subseteq Gates

ProcessOK ==
  /\ pc \in Points /\ dec \in Decisions \cup {"none"}
  /\ target \in Stages /\ todo \in Stages /\ merged \in BOOLEAN

FaultsOK == faults \in [crashes: Nat, failures: Nat, reruns: Nat]

TypeOK == StateOK /\ DiskOK /\ ProcessOK /\ FaultsOK

\* A gate's approval is in force exactly while the run is past it, whatever
\* crashed, was rerun or looped: RunState.gates against RunState.stage.
GateOrder ==
  \A g \in Gates : st.gates[g] = "approved" <=> st.stage > GateStage[g]

\* The Gate-C counters and the archived decisions tell one story: every
\* counted loop left its decision at gates/gate-c.N.yaml, as many of them
\* accepted a re-divergence as redivergence_runs says, and both caps hold.
LoopTrail ==
  LET accepted == {n \in 1..MaxGateCLoops :
                     n <= st.iters /\ archived[n] \in {"rediv", "both"}}
  IN  /\ st.iters <= MaxGateCLoops
      /\ \A n \in 1..MaxGateCLoops :
           n <= st.iters => archived[n] \in LoopDecisions
      /\ st.rediv = Cardinality(accepted)
      /\ st.rediv <= MaxRedivergence

\* A gate is only ever approved on a decision that is on file: a draft, a
\* template nobody touched or an accidental resume never passes one.
ApprovalIsDecided ==
  [][\A g \in Gates :
       st.gates[g] # "approved" /\ st'.gates[g] = "approved"
         => st.pending = g /\ gfile[g] \in {"approve", "edit"}]_vars

\* No stage's outputs come into being before every gate ahead of it was
\* approved, except for the gates a rerun that names a stage ahead of the run
\* carried it past, which nothing in `deeper rerun` refuses.
GatedOutputs ==
  [][\A s \in written' \ written : \A g \in Gates :
       GateStage[g] < s => st.gates[g] = "approved" \/ g \in jumped]_vars

\* Where the run stands, everything behind it is on disk: the earlier stages'
\* outputs always, the stage's own once its gate is open or the run is done.
\* S7 names its cases by dossiers/scores.yaml: they are all there unless a
\* Gate-C loop moved that board, and then S7 is incomplete at its own gate.
OutputsBehindRun ==
  ~Invalidating =>
    /\ \A s \in Stages : s < st.stage => s \in written
    /\ st.status \in {"gate-pending", "done"} => st.stage \in written
    /\ 7 \in written => drawn \/ moved

\* The human at Gate C, and the report, see a tournament over the finalists
\* as they are, not as they were before a mini-loop merged one.
FreshTournament ==
  /\ st.pending = "C" /\ pc = "idle" => stale = {}
  /\ st.stage = 8 => stale = {}

\* The decision file behind every approval in force is still there: S7 and
\* S8 read gates/gate-a.yaml back.
ApprovalOnFile ==
  ~Invalidating =>
    \A g \in Gates :
      st.gates[g] = "approved" => gfile[g] \in {"approve", "edit"}

\* A finished run finished everything: each stage's outputs are there, every
\* finalist the shortlist names was dived, and every case S8 asks for by the
\* final board was made.  The cases S7 asks for by dossiers/scores.yaml are
\* not among it: a loop may have moved that board after they were drawn.
DoneIsWhole ==
  st.status = "done" /\ ~Invalidating => written = Stages /\ undived = 0 /\ covered

\* S8 cannot start: the boards owe a case no prosecutor or steelman made.
Stranded == st.stage = 8 /\ st.status = "running" /\ ~covered

\* Crashes, agent failures and reruns only delay a run whose human goes on
\* deciding: it ends, or stops before S8 for want of an adversarial case.
EventuallySettles == <>[](st.status = "done" \/ Stranded)

\* A cartography pass asked for at Gate A happens: the gate comes back with
\* the hint consumed, also when the process dies between the saved request
\* and the end of the invalidation it asks for.
RerunRequestHonoured ==
  st.gates["A"] = "rerun-requested" ~> (st.gates["A"] = "pending" /\ ~hint)

\* The run as its owner sees it (see Lifecycle).
L == INSTANCE Lifecycle WITH
  at <- IF st.status = "done" THEN 9 ELSE st.stage,
  atGate <- (st.status = "gate-pending"),
  approved <- {GateStage[g] : g \in {h \in Gates : st.gates[h] = "approved"}},
  loops <- st.iters

\* The engine takes the run only where the life cycle allows, with one step
\* of its own for every write.
LifecycleSpec == L!LSpec
=============================================================================
