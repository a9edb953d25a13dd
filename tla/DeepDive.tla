------------------------------ MODULE DeepDive ------------------------------
(***************************************************************************)
(* S6 (stages/s6_deepdive.py, depth.py, contradictions.py): every finalist *)
(* is researched in rounds until its score is stable or its cap is hit,    *)
(* then verified, and revised once if the verifier contradicts it.         *)
(*                                                                         *)
(* A task keeps nothing across a pause: where it goes on is read off the   *)
(* round log and the dossier.  One action is the code between two writes,  *)
(* so Kill between any two of them is a behaviour; code without an await   *)
(* in it is not interleaved with other tasks (Alone), because the tasks    *)
(* share one event loop.                                                   *)
(*                                                                         *)
(* An operator marked "slip" is the operator below it with a plausible     *)
(* mistake.                                                                *)
(***************************************************************************)
EXTENDS Integers, FiniteSets, FiniteSetsExt

CONSTANTS
  Finalists,    \* finalist_ids of the shortlist
  Claims,       \* claim ids of a dossier
  Criteria,     \* rubric criteria, of equal weight
  Section,      \* criterion -> the claims its dossier section rests on
  Scores,       \* score values of a criterion
  Baseline,     \* finalist -> its S5 record
  Drafts,       \* finalist -> what its analysts may return
  Screens,      \* finalist -> what its screeners may return
  Cap,          \* deep_dive_unit_cap
  Stop,         \* caps.deep_dive_delta_score_stop
  Move,         \* LOAD_BEARING_MOVE
  MaxContradicted, \* bound: claims one verifier contradicts
  MaxFaults,    \* bound: kills and failed agents
  MaxReruns     \* bound: `deeper rerun --stage S6`

Draft == [low: SUBSET Claims, tagged: SUBSET Claims, stamp: BOOLEAN]

ASSUME DeepDiveAssumption ==
  /\ IsFiniteSet(Finalists) /\ IsFiniteSet(Claims) /\ Claims # {}
  /\ IsFiniteSet(Criteria) /\ Section \in [Criteria -> SUBSET Claims]
  /\ Scores \subseteq Nat
  /\ Screens \in [Finalists -> SUBSET [Criteria -> Scores]]
  /\ Baseline \in [Finalists -> [Criteria -> Scores]]
  /\ Drafts \in [Finalists -> SUBSET Draft]
  /\ Cap \in Nat \ {0} /\ Stop \in Nat /\ Move \in Nat
  /\ MaxContradicted \in Nat /\ MaxFaults \in Nat /\ MaxReruns \in Nat

VARIABLES
  dossier,  \* dossiers/{option}.md; round 0 is no file
  log,      \* dossiers/{option}-rounds.yaml; no rounds is no file
  report,   \* dossiers/{option}-verification.md
  ledger,   \* ledger/contradictions.md: entry id and the dive it is of
  scores,   \* dossiers/scores.yaml: finalist -> the dossier its score is of
  proc,     \* the process: idle, diving or past S6
  pc,       \* where each finalist's task is between two writes
  held,     \* what the task inside a block without an await holds
  paid,     \* history: analyst rounds bought in this dive
  redone,   \* history: revisions of this dive cut off before they were recorded
  dive,     \* history: reruns of S6
  faults    \* what the bound has used up

files == <<dossier, log, report, ledger, scores>>
spent == <<paid, redone>>
vars == <<files, proc, pc, held, spent, dive, faults>>

\* Which text a dossier is: its round, and revisions since the last round.
Text(d) == <<d.round, d.rev>>

NoDossier == [round |-> 0, rev |-> 0, low |-> {}, tagged |-> {}, stamp |-> FALSE]
NoReport == [made |-> FALSE, contra |-> {}]
NoRounds(f) ==
  [n |-> 0, prev |-> Baseline[f], last |-> Baseline[f], of |-> <<0, 0>>,
   status |-> "in-progress", sampled |-> {}, contra |-> {}, revised |-> FALSE]
NothingHeld == [screen |-> << >>, contra |-> {}]

Points == {"loop", "rescore", "append", "report", "record", "final"}
Midway == {"append", "report", "record"}

Init ==
  /\ dossier = [f \in Finalists |-> NoDossier]
  /\ log = [f \in Finalists |-> NoRounds(f)]
  /\ report = [f \in Finalists |-> NoReport]
  /\ ledger = {} /\ scores = << >>
  /\ proc = "idle" /\ pc = [f \in Finalists |-> "loop"]
  /\ held = NothingHeld
  /\ paid = [f \in Finalists |-> 0] /\ redone = [f \in Finalists |-> 0]
  /\ dive = 0 /\ faults = 0

-----------------------------------------------------------------------------
(* depth.py.                                                               *)

Abs(x) == IF x < 0 THEN -x ELSE x
Weighted(screen) == MapThenSumSet(LAMBDA k : screen[k], Criteria)
WeightedDelta(prev, cur) == Abs(Weighted(cur) - Weighted(prev))
Moved(prev, cur) == {k \in Criteria : Abs(cur[k] - prev[k]) >= Move}

TagsTrusted(d, moved) == d.tagged  \* slip: the re-score diff has no teeth
EffectiveLoadBearing(d, moved) == d.tagged \cup UNION {Section[k] : k \in moved}
LowConfLoadBearing(d, moved) == d.low \cap EffectiveLoadBearing(d, moved)

\* should_stop: stability before the cap.
Stable(delta, blocked) == delta < Stop /\ ~blocked
CapOneLate(delta, blocked, r) ==  \* slip: the cap is one round late
  IF Stable(delta, blocked) THEN "converged"
  ELSE IF r > Cap THEN "budget-capped" ELSE "in-progress"
ShouldStop(delta, blocked, r) ==
  IF Stable(delta, blocked) THEN "converged"
  ELSE IF r >= Cap THEN "budget-capped" ELSE "in-progress"

\* verifier_sample: all load-bearing claims and a seeded fifth of the rest.
Drawn(rest) ==
  CHOOSE d \in SUBSET rest : Cardinality(d) = (Cardinality(rest) + 4) \div 5
VerifierSample(d, moved) ==
  LET effective == EffectiveLoadBearing(d, moved)
  IN  effective \cup Drawn(Claims \ effective)

-----------------------------------------------------------------------------
(* The round loop.                                                         *)

\* No other task is inside a block without an await.
Alone(f) == proc = "diving" /\ \A g \in Finalists \ {f} : pc[g] \notin Midway

AtLoop(f) == Alone(f) /\ pc[f] = "loop"
NextRound(f) == log[f].n + 1
Goto(f, point) == pc' = [pc EXCEPT ![f] = point]

\* is_complete's clauses about one finalist's log.
SettledOnceRevised(f) ==  \* slip: every verification is owed a revision
  log[f].status # "in-progress" /\ log[f].sampled # {} /\ log[f].revised
SettledUnrevised(f) ==  \* slip: a contradicted claim owes nothing
  log[f].status # "in-progress" /\ log[f].sampled # {}
Settled(f) ==
  /\ log[f].status # "in-progress" /\ log[f].sampled # {}
  /\ log[f].contra = {} \/ log[f].revised

\* A dossier ahead of the log is research already paid for.
AheadIgnored(f) == FALSE  \* slip: the log alone decides
Ahead(f) == dossier[f].round >= NextRound(f)

Rescoring(f) ==
  /\ AtLoop(f) /\ log[f].status = "in-progress" /\ Ahead(f)
  /\ Goto(f, "rescore")
  /\ UNCHANGED <<files, proc, held, spent, dive, faults>>

Research(f) ==
  /\ AtLoop(f) /\ log[f].status = "in-progress" /\ ~Ahead(f)
  /\ \E d \in Drafts[f] :
       dossier' = [dossier EXCEPT ![f] =
         [round |-> NextRound(f), rev |-> 0, low |-> d.low, tagged |-> d.tagged,
          stamp |-> d.stamp]]
  /\ paid' = [paid EXCEPT ![f] = @ + 1]
  /\ Goto(f, "rescore")
  /\ UNCHANGED <<log, report, ledger, scores, proc, held, redone, dive, faults>>

Verdict(f, screen) ==
  LET prev == log[f].last
      low  == LowConfLoadBearing(dossier[f], Moved(prev, screen))
  IN  ShouldStop(WeightedDelta(prev, screen), low # {}, NextRound(f))

Appended(f, screen, status) ==
  [log EXCEPT ![f] = [@ EXCEPT !.n = NextRound(f), !.prev = log[f].last,
     !.last = screen, !.of = Text(dossier[f]), !.status = status]]

\* The screener answers; short of the cap the log entry is the only write.
Rescore(f) ==
  /\ Alone(f) /\ pc[f] = "rescore"
  /\ \E screen \in Screens[f] :
       /\ Verdict(f, screen) # "budget-capped"
       /\ log' = Appended(f, screen, Verdict(f, screen))
  /\ Goto(f, "loop")
  /\ UNCHANGED <<dossier, report, ledger, scores, proc, held, spent, dive, faults>>

\* At the cap the dossier is stamped first, ...
StampDossier(f) ==
  /\ Alone(f) /\ pc[f] = "rescore"
  /\ \E screen \in Screens[f] :
       /\ Verdict(f, screen) = "budget-capped"
       /\ held' = [held EXCEPT !.screen = screen]
  /\ dossier' = [dossier EXCEPT ![f] = [@ EXCEPT !.stamp = TRUE]]
  /\ Goto(f, "append")
  /\ UNCHANGED <<log, report, ledger, scores, proc, spent, dive, faults>>

\* ... then the round is logged.
AppendCapped(f) ==
  /\ Alone(f) /\ pc[f] = "append"
  /\ log' = Appended(f, held.screen, "budget-capped")
  /\ held' = NothingHeld
  /\ Goto(f, "loop")
  /\ UNCHANGED <<dossier, report, ledger, scores, proc, spent, dive, faults>>

-----------------------------------------------------------------------------
(* The verification pass.                                                  *)

SampleOf(f) == VerifierSample(dossier[f], Moved(log[f].prev, log[f].last))

\* check_assignment sends back a report on other claims than the sample.
AnyClaim(f) == Claims  \* slip: the report is taken as it comes
Adjudicable(f) == SampleOf(f)

\* append_contradictions: an id already there keeps its entry.
Disputed(f, contra) ==
  {[of |-> f, claim |-> c, dive |-> dive] :
     c \in {x \in contra : \A e \in ledger : e.of # f \/ e.claim # x}}

\* The verifier answers.  A contradiction is ledgered first, ...
Verify(f) ==
  /\ AtLoop(f) /\ log[f].status # "in-progress" /\ log[f].sampled = {}
  /\ \E contra \in SUBSET Adjudicable(f) :
       /\ Cardinality(contra) <= MaxContradicted
       /\ ledger' = ledger \cup Disputed(f, contra)
       /\ held' = [held EXCEPT !.contra = contra]
  /\ Goto(f, "report")
  /\ UNCHANGED <<dossier, log, report, scores, proc, spent, dive, faults>>

\* ... then the report is written, ...
WriteReport(f) ==
  /\ Alone(f) /\ pc[f] = "report"
  /\ report' = [report EXCEPT ![f] = [made |-> TRUE, contra |-> held.contra]]
  /\ Goto(f, "record")
  /\ UNCHANGED <<dossier, log, ledger, scores, proc, held, spent, dive, faults>>

\* ... then the log says what was sampled and what it triggered.
RecordVerification(f) ==
  /\ Alone(f) /\ pc[f] = "record"
  /\ log' = [log EXCEPT ![f] =
       [@ EXCEPT !.sampled = SampleOf(f), !.contra = held.contra]]
  /\ held' = NothingHeld
  /\ Goto(f, "loop")
  /\ UNCHANGED <<dossier, report, ledger, scores, proc, spent, dive, faults>>

StampLaundered(f, d) == d.stamp  \* slip: the analyst's own flag is kept
StampAfterRevision(f, d) == d.stamp \/ log[f].status = "budget-capped"

\* The targeted revision replaces the dossier, ...
Revise(f) ==
  /\ AtLoop(f) /\ log[f].contra # {} /\ ~log[f].revised
  /\ \E d \in Drafts[f] :
       dossier' = [dossier EXCEPT ![f] =
         [@ EXCEPT !.rev = dossier[f].rev + 1, !.low = d.low, !.tagged = d.tagged,
                   !.stamp = StampAfterRevision(f, d)]]
  /\ Goto(f, "final")
  /\ UNCHANGED <<log, report, ledger, scores, proc, held, spent, dive, faults>>

\* ... and its re-score closes the log.
FinalRescore(f) ==
  /\ Alone(f) /\ pc[f] = "final"
  /\ log' = [log EXCEPT ![f] = [@ EXCEPT !.revised = TRUE, !.of = Text(dossier[f])]]
  /\ Goto(f, "loop")
  /\ UNCHANGED <<dossier, report, ledger, scores, proc, held, spent, dive, faults>>

-----------------------------------------------------------------------------
(* The stage, and what interrupts it.                                      *)

\* execute over whatever is on disk; a complete stage is skipped.
Resume ==
  /\ proc = "idle"
  /\ proc' = IF DOMAIN scores = Finalists /\ \A f \in Finalists : Settled(f)
               THEN "done" ELSE "diving"
  /\ UNCHANGED <<files, pc, held, spent, dive, faults>>

\* gather_strict returns every final re-score; the board is written last.
Settle ==
  /\ proc = "diving" /\ \A f \in Finalists : pc[f] = "loop" /\ Settled(f)
  /\ scores' = [f \in Finalists |-> log[f].of]
  /\ proc' = "done"
  /\ UNCHANGED <<dossier, log, report, ledger, pc, held, spent, dive, faults>>

\* A revised dossier whose re-score is not in the log will be revised again.
BackToIdle ==
  /\ redone' = [f \in Finalists |-> redone[f] + IF pc[f] = "final" THEN 1 ELSE 0]
  /\ proc' = "idle" /\ pc' = [f \in Finalists |-> "loop"] /\ held' = NothingHeld

\* An agent fails for good: its siblings are cancelled and the run pauses.
AgentFails(f) ==
  /\ Alone(f) /\ pc[f] \notin Midway /\ faults < MaxFaults
  /\ pc[f] = "loop" => ~Settled(f) /\ ~(log[f].status = "in-progress" /\ Ahead(f))
  /\ faults' = faults + 1
  /\ BackToIdle
  /\ UNCHANGED <<files, paid, dive>>

\* Also once the board is written and before the run has moved past S6.
Kill ==
  /\ proc # "idle" /\ faults < MaxFaults
  /\ faults' = faults + 1
  /\ BackToIdle
  /\ UNCHANGED <<files, paid, dive>>

\* rerun.invalidate(S6): the dossiers/ tree goes, the ledger stays.
Rerun ==
  /\ proc # "diving" /\ dive < MaxReruns
  /\ dossier' = [f \in Finalists |-> NoDossier]
  /\ log' = [f \in Finalists |-> NoRounds(f)]
  /\ report' = [f \in Finalists |-> NoReport]
  /\ scores' = << >>
  /\ proc' = "idle"
  /\ dive' = dive + 1
  /\ paid' = [f \in Finalists |-> 0] /\ redone' = [f \in Finalists |-> 0]
  /\ UNCHANGED <<ledger, pc, held, faults>>

TaskStep(f) ==
  \/ Rescoring(f) \/ Research(f) \/ Rescore(f) \/ StampDossier(f) \/ AppendCapped(f)
  \/ Verify(f) \/ WriteReport(f) \/ RecordVerification(f)
  \/ Revise(f) \/ FinalRescore(f)

Next ==
  \/ \E f \in Finalists : TaskStep(f) \/ AgentFails(f)
  \/ Resume \/ Settle \/ Kill \/ Rerun

Spec == Init /\ [][Next]_vars

FairSpec ==
  /\ Spec
  /\ WF_vars(Resume) /\ WF_vars(Settle)
  /\ \A f \in Finalists : WF_vars(TaskStep(f))
-----------------------------------------------------------------------------
(* Properties.                                                             *)

LogOK(l) ==
  /\ l \in [n: Nat, prev: [Criteria -> Scores], last: [Criteria -> Scores],
            of: Nat \X Nat, status: {"in-progress", "converged", "budget-capped"},
            sampled: SUBSET Claims, contra: SUBSET Claims, revised: BOOLEAN]
  \* The schema's own rules: a terminal status needs a round, a verification
  \* a terminal status, a revision a contradiction.
  /\ l.n = 0 => l.status = "in-progress"
  /\ l.sampled # {} => l.status # "in-progress"
  /\ l.contra \subseteq l.sampled
  /\ l.revised => l.contra # {}

\* The files stay valid under their own schemas, whatever is interrupted.
TypeOK ==
  /\ dossier \in [Finalists -> [round: Nat, rev: Nat, low: SUBSET Claims,
                                tagged: SUBSET Claims, stamp: BOOLEAN]]
  /\ DOMAIN log = Finalists /\ \A f \in Finalists : LogOK(log[f])
  /\ report \in [Finalists -> [made: BOOLEAN, contra: SUBSET Claims]]
  /\ ledger \subseteq [of: Finalists, claim: Claims, dive: Nat]
  /\ DOMAIN scores \in {{}, Finalists} /\ scores \in [DOMAIN scores -> Nat \X Nat]
  /\ proc \in {"idle", "diving", "done"} /\ pc \in [Finalists -> Points]
  /\ held.contra \subseteq Claims
  /\ paid \in [Finalists -> Nat] /\ redone \in [Finalists -> Nat]
  /\ dive \in Nat /\ faults \in Nat

\* Depth is bounded and paid once: however often a dive is interrupted, no
\* round is researched twice and none beyond the per-option cap.  Of targeted
\* revisions there is one, but not the "exactly ONE" of s6_deepdive.py:15 nor
\* the one "a resume never re-runs" of schemas/dossier.py:140-141: a pause or
\* kill between the revised dossier and the log entry of its re-score loses the
\* only record of it, and the resume revises again.  So the revisions behind
\* the dossier on disk are exactly the one recorded or under way, and those.
DepthBounded ==
  \A f \in Finalists :
    /\ paid[f] = dossier[f].round /\ paid[f] <= Cap
    /\ log[f].n <= paid[f] /\ paid[f] <= log[f].n + 1
    /\ dossier[f].rev =
         redone[f] + IF log[f].revised \/ pc[f] = "final" THEN 1 ELSE 0

\* Unfinished depth is visible, never silent: a dive the cap ended has its
\* stamp on the dossier, before and after a revision.
CapStaysVisible ==
  \A f \in Finalists : log[f].status = "budget-capped" => dossier[f].stamp

\* What S7 ranks is what was dived and verified: a settled finalist's score
\* was given to the dossier now on disk, its report is the one its record
\* speaks of, and no contradiction it records lacks an entry of its id in the
\* ledger (after a rerun it may be an earlier dive's: append_contradictions
\* keeps an id it finds); and what was verified covers every claim under a criterion the last round moved, so an
\* analyst cannot shrink the verifier's sample by under-tagging.
MovedClaimsVerified(f) ==
  \A k \in Moved(log[f].prev, log[f].last) : Section[k] \subseteq log[f].sampled
SettledIsWhole ==
  /\ \A f \in Finalists : Settled(f) =>
       /\ log[f].of = Text(dossier[f])
       /\ report[f].made /\ report[f].contra = log[f].contra
       /\ \A c \in log[f].contra : \E e \in ledger : e.of = f /\ e.claim = c
       /\ MovedClaimsVerified(f)
  /\ \A f \in DOMAIN scores : Settled(f) /\ scores[f] = log[f].of

\* Whatever interrupts it, S6 comes to an end.
DiveSettles == <>[](proc = "done")
=============================================================================
