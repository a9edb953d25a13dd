# A verification project for `deeper`

`deeper` runs a long, expensive research pipeline: nine stages (S0 to S8), three
human gates (A after S1, B after S4, C after S7), loops back from Gates A and C,
and language-model agents behind one dispatcher. Everything a run knows is in
the files of its workspace. The hard parts are not the stages' texts but the
control around them: what a crash between two writes leaves behind, what a
resume re-derives, what a loop invalidates, what an agent that fails in the
middle of a fan-out takes with it. These modules model that control.

Paths below are relative to `src/src/deeper/`.

## Inventory

| component | state | operations | hard behaviours | what makes it correct |
|---|---|---|---|---|
| Engine (`orchestrator/engine.py`, `schemas/runstate.py`) | `state.json`: stage, status, pending gate, gate statuses, two loop counters | `run`, `resume`, `_process_stage`, `_advance_past`, `_process_gate`, `_process_gate_c_loop`, the attention pause | a crash between any two writes; refusals; pauses from inside loops | statuses agree with the stage; caps bind; nothing is approved without a decision; a run gets to its end |
| Gates (`gates.py`) | `gates/gate-{a,b,c}.yaml`, the hint file | write a template, read, interpret, apply edits | edits are not idempotent; files are edited by a human at any time | a draft never passes; an approval's file outlives it |
| Rerun (`rerun.py`) | deletes files, rewinds `state.json` | `invalidate` | many deletions, then one save | nothing stale counts as complete |
| Gate-C loops (`gate_c_loops.py`) | both score boards, challenge files, archives | validate, feedback, challenges | two boards in two writes; agents run between reading and archiving a decision | boards stay explained by the judge's log; loops are counted |
| Mini-loop (`redivergence.py`) | map, cards, shortlist, dossiers, `dossiers/scores.yaml` | target, scout, screen, seat, dive, merge | an agent failing between seating and merging | a seated finalist is dived |
| Dispatcher, ledger, fan-out (`agents_runtime/dispatch.py`, `ledger.py`, `aio.py`) | the semaphore, tasks, the spend list | `run_agent`, `run_interview`, `_guarded_invoke`, `record`, `gather_strict` | siblings cancelled mid-call; two nested retry budgets; the cap read before a wait | slots, spend and ledger bounded and consistent; no task outlives a failure |
| S7 and the door of S8 (`stages/s7_tournament.py`, `s8_synthesis.py`) | prosecutions, steelmen, frame check, update log, boards | draw cases, fan out, judge, settle; `validate_inputs` of S8 | partial passes resumed; the board moves after cases are drawn | the judge saw all; the log explains the board; S8 finds its cases |
| Scoreboards (`sensitivity.py`) | none | boards, ranks, inversions, docket | ties, options without a preference score | docket and top three as documented |
| S1 (`s1_cartography.py`, `saturation.py`) | raw reports, map, hint | fan-out, merge, saturation | the saturation decision replayed from disk | a replay takes the same decisions |
| S2 (`allocation.py`) | `allocation.yaml` | allocate, round, feasibility | rounding | units conserved within floors and caps |
| S3 (`s3_scouting.py`) | cards, critiques, reflow table | scout, critique, revise, reflow, top up | reflow recomputed from changed cards | no top-up lost or doubled but by an interruption before its record |
| S5 (`s5_screening.py`, `shortlist.py`) | parts, batches, scores, shortlist | split, screen, merge, shortlist | leftover parts; caps that interact | every card screened once; caps hold |
| S6 (`s6_deepdive.py`, `depth.py`, `contradictions.py`) | dossiers, rounds, verifications, scores, contradictions | round loop, verify, revise, re-score | a round re-derived from half-written files | no round bought twice; depth bounded |
| S0, S4 | their files | one conversation, one dispatch | the interview's two budgets | the interview ends |
| Contracts, hooks, mock, config, schemas | none of a run | parse, permit, validate | none | pure functions |
| Commands (`cli.py`), `workspace.py` | config, files, git | `run`, `resume`, `rerun`; atomic replace | two processes on one run are not excluded | one process at a time (assumed) |
| Report, eval, viewer, prompt lab | derived files | render, measure | none | not part of a run |

Components meet in three ways: the engine *calls* a stage, which *calls* the
dispatcher through a fan-out; all of them *share* the workspace (`state.json` is
written by the engine between dispatches and by the ledger during them); and
the human *edits* decision files that the engine reads on the next resume.

## Modules

| module | models | role |
|---|---|---|
| `Lifecycle` | what a run promises its owner | abstract specification |
| `Engine` | engine, gates, rerun, Gate-C loops, commands | the machine; implements `Lifecycle` |
| `Scoreboard` | `sensitivity.py` | operators on boards |
| `Tournament` | S7, feedback and merged champions, the door of S8 | component, over `Scoreboard` |
| `Dispatch` | dispatcher, ledger, fan-out, resume of a stage | component |
| `Allocation` | `allocation.py` | functions: the budget formula and what it promises |
| `Scouting` | S2 and S3, `rerun --angle` | component, over `Allocation` |
| `Shortlist` | `stages/shortlist.py` | operators: the shortlist rule and what its documentation says of it |
| `Screening` | S5 and the mini-loop's writes to S5's files | component, over `Shortlist` |
| `DeepDive` | S6, `depth.py`, `contradictions.py` | component |
| `Induction` | recursive functions and ranks, for the proofs | lemmas |
| `EngineProofs`, `DispatchProofs`, `TournamentProofs`, `AllocationProofs`, `ScoutingProofs`, `ScreeningProofs`, `DeepDiveProofs` | theorems of the modules they are named for; those of `Shortlist` are in `ScreeningProofs` | proofs |
| `MCEngine`, `MCTournament`, `MCDispatch`, `MCScouting`, `MCScreening`, `MCDeepDive` | | instances for TLC |

The stages between S2 and S6 are modelled one by one, not composed: they meet
only through files that one writes and the next reads, and the order in which
the engine lets them run is `Engine`'s subject. What one stage's module takes
for granted of the stage before is in its constants: `Screening` starts from
card sets with and without a colliding id, `DeepDive` from a shortlist and a
baseline.

An operator whose comment says *slip* is not the code. It is the operator below
it with a plausible mistake, kept to show which property notices that mistake.

### Engine

`st` is `state.json`, one record because one atomic replace writes it.
`written` is the set of stages whose declared outputs exist and validate;
`stale` those whose inputs were replaced since; `gfile`, `archived` and `hint`
are the decision files. `pc`, `dec`, `target`, `todo` and `merged` live in a
process and die with it. One action is the code between two writes of the
workspace, so `Crash` between any two of them is a behaviour; which windows
may crash is the constant `CrashPoints`, which agents may fail `FailPoints`.

The engine asks a stage three things: are its outputs complete (`IsComplete`,
which includes S1's hint rule and S6's undived finalists), may it start
(`InputsReady`: the outputs its `required_inputs` name, gate A's file for S7
and S8, S8's adversarial cases), and what came of it (success, an
interruption, an agent failure). A stage's `execute` is thus one action here.
`_process_gate_c_loop` is not: deciding, seating the champion, merging it,
archiving, saving, invalidating and reopening are actions of their own because
each writes, and so are feedback's two boards. One decision may carry feedback
and a re-divergence (`"both"`). `invalidate` deletes stage by stage, gate file
by gate file, and saves last.

S7's declared outputs have no fixed names: a prosecution or steelman for each
option that `dossiers/scores.yaml` asks one for. `written` is about the outputs
of a fixed name; `drawn` says whether the others are all there, and
`IsComplete(7)` reads it. Feedback and a champion's merge rewrite that board, so
S7 may become incomplete at its own pending gate: `BoardMoved` leaves `drawn`
open, and the history variable `moved` says that a loop has done it. A second
history variable, `jumped`, holds the gates a `deeper rerun` of a stage ahead of
the run carried it past.

Not in it: which angle or criterion a Gate A or B edit touches (one kind of
edit, which can be refused for finding its work done), `rerun --angle`, and the
spend list inside `state.json` (see `Dispatch`). Git commits follow each save
and are not read back by the engine; they are left out.

### Tournament and Scoreboard

`dive` is the board S6 left (`dossiers/scores.yaml`), `tour` the one S8 reports
on (`tournament/scores.yaml`), `log` the judge's updates between them. Scores
are small integers: the code's decimals rounded to four places and scaled. A
record is its destination estimate and its preference slot, because the boards
read nothing else of it. The judge's log is per criterion in the code and per
estimate here. S7's fan-out, the judge, preference feedback's *two* writes,
the champion's merge, the save of its loop, the deletions that follow and their
save are actions of their own; so are those of a rerun. `DeleteFiles` may leave
any part of the `tournament/` tree, because nothing fixes the order in which a
directory is listed. A process may die at each of these (`CrashPoints`), and
starts again from where it began (`resume`). `cut` is a history variable: that a
death left a loop (`"loop"`) or a deletion (`"deletion"`) half done, until S7
settles again. After a half deletion an old `tournament/scores.yaml` may stand
beside a new ruling, or cases be missing; `TournamentExplained` and
`DrawnCasesMade` except exactly that. After a half loop a preference or a
champion may be on one board only; the log must still explain every estimate.
`Owed(board)` is what a board demands of S8; S7 draws it from `dive`, S8 checks
it against `tour`.

### Dispatch

A fan-out of `Items` under `gather_strict`: each task skips an item on disk or
runs `run_agent`. A step is what a task does between two awaits, or, where it
writes twice between two awaits, up to the next write: `Pay` is the ledger entry
of a valid reply, `Write` its artifact, and a kill may fall between them.
`Guarded` is `_guarded_invoke` up to its first await; `Slots` are the
semaphore's holders (calling or sleeping in the backoff), `queue` its waiters,
first come first served. A call ends with a valid reply, an invalid one, a limit
notice, or an exception; the timeout is an exception like others. `Stop` is the
moment the parent wakes and cancels, `Pause` the moment the drain is over. A
cancellation is delivered at the await the task is parked in, with two
exceptions the code can meet: closing the SDK's generator fails and the retry
loop catches that instead (`CloseFails`), or, before Python 3.12, the call had
already ended and `asyncio.wait_for` returns its outcome (`OutcomeWins`).

A call costs one unit; `cap` is in units, one of `Caps`. `calls` is a history
variable: calls begun, calls nobody read, valid replies per item, and replies
whose entry was written and whose artifact was not. `late` is another: the tasks
that were waiting for a slot when spending reached the cap. Not in it:
`run_interview`, the `retry_counts` record, log files, fan-outs inside fan-outs
(S5's parts).

### Scouting and Allocation

`alloc`, `cards`, `critique` and `reflow` are the files; `pc`, `fresh`,
`table`, `todo` and `read` are in memory and die with the process (`Forget`).
An angle's task reads off the files what is left for it: no cards, scout; cards
without a critique, review and revise; a critique, nothing. `Scout`,
`ReviewCards`, `Revise`, `WriteCritique` and `TopUp` are what a task does
between two writes; `Carded` is `_write_cards`, which reads all other angles'
ids and writes without an await. `Redistribute` and `Replay` are the two ways
into the top-ups: the table derived from the cards, or the one on disk replayed
for the angles this process re-scouted. `Interrupt` is a kill or an agent that
fails for good. `RerunAngle` and `RerunStage` are `rerun --stage S3` with and
without `--angle`.

`Allocation` has `allocate`, its rounding and `reflow` as functions of natural
numbers: a share is an exact fraction where the code has floats and an epsilon
for their error. `WellAllocated` is what the module's docstring promises, and
the `scouting` run evaluates it for every vector of small weights, where the
floor and the cap can hold the budget at all.

An option is a name and a suffix; what a card says is left out. A revision may
keep its cards' ids or give new ones. A critic reports the share of duplicates,
whether options were missed, and whether there are issues to fix.

What the code does that the model shows and a reader should know: a revision
interrupted before its critique is reviewed and revised again; a top-up whose
sibling fails is bought again; an angle re-scouted by `rerun --angle` may get
units that are no longer returned, because a settled table is never recomputed;
and if that process is interrupted before the top-up, the next one takes the
angle for settled and the top-up is lost. The history variables `redone`,
`wasted` and `forgotten` record each of the first two and the last where it
happens, and `FilesAttest` allows these and no other.

### Screening and Shortlist

`batch` and `part` are the batch files and their sub-batch parts, each with the
ids it scores and the rubric it was scored on; `scores` and `list` are what S5
leaves. `BatchStands` and `PartStands` are `verify_screening`'s coherence with
the cards and the rubric of the moment, which is what makes a file on disk
count. `ScreenAngle`, `ScreenChunk`, `MergeParts`, `DropPart`, `Merge` and
`WriteShortlist` are the writes in their order; `PauseOnDupes` the pause on ids
that collide across angles, `Rename` the human who follows its advice,
`EditRubric` a re-weighting while the run is paused, which S5 answers by asking
again for every batch, or, once `scores.yaml` is there, not at all. `LoopScout`,
`LoopScreen`, `LoopSeat` and `LoopInterrupt` are the mini-loop as the other
writer of these files.

`Shortlist` is the whole rule: threshold, margin below the top-k cutoff,
per-angle cap, kill-risks, breadth guardrail. `RuleHolds` states what the
documentation says of any shortlist, but for the guardrail's seats, which the
code exempts from the threshold; the run checks it on every screening of five
options of three angles with bounds 0 to 3 and kill-risks.

Two bounds besides the counters: an angle has at most three sub-batches
(`Parts`; a merge is of parts within it), and a rename makes one of the ids
`Verdict` knows.

A screened option is its upper bound and whether a kill-risk was confirmed:
the rule reads nothing else. The criteria are one number, the rubric they are
of. Left out: that a shortlist without any finalist raises (the action is then
not taken), and that a mini-loop's scout bypasses the dedupe of
`_write_cards`, so an id of another angle makes the merged result raise.

Four history variables say what the code leaves behind: `late`, the rubric
edits since `scores.yaml` was written; `scouted`, the ids mini-loops brought;
`lost`, those of a mini-loop that died before it scored them, which stay on the
card list and are never scored; `unseated`, those of one that died between its
scores and its seat, which the list does not decide.

### DeepDive

`dossier`, `log` (the round log), `report`, `ledger` and `scores` are the
files; `pc` and `held` are a task between two writes. A task keeps nothing
across a pause: at `"loop"` it reads off the log and the dossier what is next.
`Research`, then `Rescore` or (at the cap) `StampDossier` and `AppendCapped`,
are a round; `Rescoring` is the round whose dossier is already there. `Verify`,
`WriteReport` and `RecordVerification` are the three writes after a verifier
answers; `Revise` and `FinalRescore` the targeted revision. Writes with no
await between them are kept together against other tasks by `Alone`, but not
against `Kill`. `Settle` writes the board. `Rerun` deletes the `dossiers/` tree
and keeps the contradiction ledger, as the code does.

A dossier is its round, the revisions since, which claims are of low
confidence, which the analyst tags as load-bearing, and the UNRESOLVED stamp.
Scores are small integers, criteria weigh the same. `ShouldStop`,
`LowConfLoadBearing` and `VerifierSample` are `depth.py`; the seeded draw of a
fifth of the other claims is a fixed choice of that size. `held.screen` is in
memory. Left out: sources and statements, the prompts, the mini-loop's own cap
(another value of `Cap`).

The code's second revision after an interruption between the revised dossier
and the log entry of its re-score is in the model. `redone` counts the revisions
cut off there, and `DepthBounded` states the revisions behind a dossier exactly:
those, and the one recorded or under way.

## Runs

| run | question | bounds | answer |
|---|---|---|---|
| `engine_crashes` | do statuses, counters, archives and the life cycle agree under any crash? | two loops, one re-divergence, two crashes anywhere, one agent failure, one rerun, Gate B on notify | yes |
| `engine_settles` | is what stands behind the run whole, is a cartography asked for made, and does it end? | one loop, one crash in a window the code survives, one stage failure, one rerun | yes |
| `tournament` | does the log explain the boards, did the judge see all? | four options, scores 0..2, one feedback, one champion, one fault (a failed agent, or a death in the fan-out, before settling, or in a loop's or an invalidation's writes), one rerun; an unfinished deletion leaves at most one case (`MaxKept`) | yes |
| `dispatch` | are slots, spend, ledger and pause right, and does a fan-out end? | three items, two slots, one schema retry, two tries, caps of one and three units, two faults, one resume | yes |
| `scouting` | are ids unique, units conserved, files true to the work, and does S3 end? | three angles, eight units, every weight vector up to 4 for the formula, two interruptions, one rerun of an angle or the stage | yes |
| `screening` | is every card scored once, does the shortlist keep its rule, and does S5 end? | three angles, two card sets, batches of two, two interruptions, one rubric edit, one rerun, one mini-loop; 3,125 screenings for the rule | yes |
| `deepdive` | is depth bounded, are caps visible, is what settles whole, and does S6 end? | two finalists, three claims, a cap of two rounds, two interruptions, one rerun | yes |
| `engine_lost_dive` | is a finished run whole if a loop's agent fails? | one failure | no |
| `engine_crashed_rerun` | is a finished run whole if a rerun is cut short? | one crash | no |
| `tournament_strands_report` | does S8 find the cases it asks for? | no faults needed | no |
| `dispatch_unledgered` | does every call begun get its entry? | two items, no kill | no |
| `screening_killed_champion` | does a confirmed kill-risk keep an option off the shortlist? | one mini-loop | no |

Why the bounds are enough. The engine's actors are one process and one human,
and its counters are compared with caps only: two loops with a cap of one
re-divergence reach every comparison on both sides; one crash cuts any window,
two let a recovery be cut as well. The boards need four options so that one is
outside the top three while preferences invert two inside, and a second board
holds a tie, an option without preferences and room for a champion. Three tasks
over two slots are the least with a waiter, a holder that fails and a holder
that is cancelled at once; two tries and two faults exhaust the backoff of one
task or fail two tasks differently; a cap of one is reached by the first reply,
with a task still in the queue, a cap of three by the last ones. In the
tournament one fault is enough for each window, because what a death leaves is
read off the files by the next pass; a deletion that is cut short leaves the
tree whole but for what it took, and one case left stands for any part of it. In
`scouting` one angle has most of the budget and can be saturated, so the pool is
not empty, and two can ask for it; all three can find the same option. In
`screening` one angle is over the batch size and merges two parts; three
finalists, a top-k of two and one seat per angle make every clause of the rule
bind for some screening. In `deepdive` the first finalist has every reply
(drafts with and without an open claim, scores that move in opposite
directions), the second one of each: one task shows every path, two show what
one does while another is inside a block. Two interruptions cut a dive and its
recovery.

Deadlock is left unchecked where the modelled system stops: a tournament that
S8 refuses (the point of `tournament_strands_report`) or is done with, a
fan-out whose resumes are used up, and a stage that is over. The engine runs
check it.

`engine_settles` restricts crashes to `SafePoints` and failures to stages.
Among the safe points is `"rewound"`: an invalidation whose target the run
pointer already stands at, as after Gate A's request for another cartography,
may die between any of its writes. The windows left out are a loop between its
effects and its save, and deletions the run pointer is ahead of: the subject of
`engine_crashed_rerun` and `engine_lost_dive`, and of the hazards in
`PROJECT.json`. No run lets a rerun name a stage ahead of the run
(`RerunAhead`), nor a human edit a gate file under a running process
(`EditsInFlight`): the code refuses neither, and `GateOrder` and `LoopTrail`
do not hold then.

## Where the code and its documents part

Five runs show a disagreement as a counterexample (the findings in
`PROJECT.json`). Six more are met by properties of passing runs. There the
property says what the code does, exactly, and names the part the document
leaves out, so that the distance between the two is in the formula:

| document | what it says | what the property says instead |
|---|---|---|
| `README.md:1071-1073` | spending overshoots the cap by about concurrency times the price of a call | `OverrunExplained`: by less than that and a price for each task that was waiting for a slot when the cap was reached (`late`), because `_guarded_invoke` reads the cap before the semaphore |
| `stages/s6_deepdive.py:15`, `README.md:677`, `schemas/dossier.py:140-141` | exactly one targeted revision, which a resume never re-runs | `DepthBounded`: one, and one for each that was cut off before the log entry of its re-score (`redone`) |
| `stages/s3_scouting.py:4-6` | exactly one revision round | `FilesAttest`: one, and one for each that was cut off before its critique (`redone`) |
| `README.md:1472-1479` | an angle's rerun replays the settled reflow for it | `FilesAttest`: unless it was interrupted between the angle's critique and its top-up (`forgotten`) |
| `stages/shortlist.py:13-14`, `README.md:651-652` | nothing advances below the threshold | `RuleHolds`: but a seat of the breadth guardrail, which does not look at it, as the message at `shortlist.py:332` expects |
| `README.md:104`, `README.md:637` | S5 screens every card | `EveryCardOnce`: but those of a mini-loop that died between merging its cards and scoring them (`lost`); and an edit after `scores.yaml` leaves the scores on the old rubric (`late`) |

## Fairness

`Engine!FairSpec`: a started process takes its next step (weak fairness of
`ProcessStep`), the human keeps resuming (weak fairness of `Resume`), and again
and again writes an approval and resumes with it on file (strong fairness,
because the human may change the file in between). Nothing obliges anyone to
crash, fail or rerun, and these are bounded. The conclusion is stated up to the
one place the engine cannot leave by itself, `Stranded`. `Tournament!FairSpec`:
the stage's own steps, each agent's answer, and that a deletion under way comes
to its end and is saved. `Dispatch!FairSpec`: each task (`Write` included, which
waits for nobody), because the event loop runs whatever is ready and every call
ends by its reply, its failure or `dispatch_timeout_s`; and the parent. It does
not assume that a call succeeds or that anybody resumes. `Scouting!FairSpec`,
`Screening!FairSpec` and `DeepDive!FairSpec`: each task of the stage goes on (a
call ends), and the stage's own steps, with the human's `resume`, are taken; in
`Screening` also the renaming its pause asks for, because the code cannot leave
that pause by itself. Interruptions, edits, reruns and mini-loops are never
obliged, and bounded. All are weak fairness.

## What is proved

`EngineProofs` proves, for every value of the caps, crash points and failure
points, and with no bound on how many crashes, failures and reruns happen:

| theorem | assumption | conclusion |
|---|---|---|
| `TypeCorrect` | none | `Spec => []TypeOK` |
| `GatesInOrder` | no rerun ahead of the run | `Spec => []GateOrder` |
| `ApprovalsDecided` | gate files are not edited under a running process | `Spec => ApprovalIsDecided` |
| `LoopsAccounted` | the same | `Spec => []LoopTrail` |
| `EngineImplementsLifecycle` | no rerun ahead of the run | `Spec => LifecycleSpec` |

The first assumption is needed: `invalidate` (`orchestrator/rerun.py:108`) takes
a stage ahead of the run too, clears the pending gate and moves the run past
it, and `GateOrder` is lost. The second
is a hazard of the code (the file is read, agents run for
minutes, the file is archived): without it the archive can hold another
decision than the one applied.

The argument. `GateOrder` relates `st.gates` to `st.stage`, which change in
different actions; it is not inductive, because an invalidation resets gates
from its target on and must know the target is not ahead of the run, and an
approval must know it is the pending gate's. `IInv` adds those: the pending
gate sits at the run's stage, a process about to save holds a decision of that
gate, an invalidation's target is at most the run's stage. `GateOrderStep`
takes the actions that write `st` one by one; every other action leaves the
formula's variables alone, which `StateSavers`, `DiskWriters` and
`ProgramPoints` say once for all. `LoopTrail` needs that while a loop is under
way its decision is still on file or just archived at the next number, and that
archived decisions below the counter are never touched again. The refinement
maps `st` to `Lifecycle`'s stage, gate flag, set of approvals and loop count;
each writer of `st` is one abstract step, a pause inside a gate is `GoBack` to
the same stage, and everything else stutters.

What stands behind the run is the subject of the five others:

| theorem | assumptions | conclusion |
|---|---|---|
| `OutputsGated` | none, not even of reruns ahead of the run | `Spec => GatedOutputs` |
| `OutputsBehind` | no rerun ahead of the run, no death among an invalidation's deletions | `Spec => []OutputsBehindRun` |
| `TournamentFresh` | the same, nor between a champion's merge and the invalidation it asks for | `Spec => []FreshTournament` |
| `DoneWhole` | no rerun ahead of the run, no death among the deletions, no champion's dive cut short | `Spec => []DoneIsWhole` |
| `ApprovalsOnFile` | no rerun ahead of the run, no death among the deletions, no edit under a running process | `Spec => []ApprovalOnFile` |

Each assumption names windows, not a number of faults: everywhere else the
process may die as often as it likes. They are the windows in which the code
does leave the property behind; two of them are the runs `engine_crashed_rerun`
and `engine_lost_dive`. `Reached` is the invariant the last four share: every
stage the run has passed is on disk, its own once its gate is open, nothing
ahead of it, and an invalidation under way has deleted exactly the stages it has
gone through. `Drawn` adds that S7's cases are there unless a loop moved their
board, `Fresh` what a champion's merge leaves stale until the invalidation,
`Dived` that a seated finalist is undived only while its loop is under way, and
`Kept` that an approval in force has its decision file, but for a gate the
invalidation under way has yet to withdraw. `OutputsGated` rests on
`GatesBehind` alone: a gate behind the run is approved or was jumped. That holds
for reruns ahead of the run as well, because the save of an invalidation says
which gates it goes past.

`DispatchProofs` proves every invariant of the `dispatch` run for any finite set
of items and any number of slots, schema retries, tries, faults and resumes,
under `DispatchAssumption` alone (the constants are of the right kind):

| theorem | conclusion |
|---|---|
| `TypeCorrect` | `Spec => []TypeOK` |
| `SlotsKept` | `Spec => [](SlotsRespected /\ WaitersQueued)` |
| `OverrunBounded` | `Spec => []OverrunExplained` |
| `CallsAccounted` | `Spec => []AttemptsAccounted` |
| `NothingPaidTwice` | `Spec => []PaidOnce` |
| `PausesExplained` | `Spec => [](PausedIsQuiet /\ PauseNamesCause)` |

The argument. Three of them are not inductive. `OverrunExplained` only counts
what is spent; `Budgeted` also counts the tasks past the cap check (`Past`),
which may each still spend one price. Nobody joins `Past` once the cap is
reached, and at that moment its members hold a slot or are in the queue: the
first are no more than `Concurrency`, the second are `late`. `PaidOnce` needs
`Unsaved`: no task past its start, and none about to write its artifact, asks
for an item on disk. `PauseNamesCause` needs `Causes`: exceptions belong to
raised tasks, the first is one of them, and a drain has a first. The slot count
and the call count are cardinalities of sets of tasks; one lemma (`OneMoves`)
says how such a set's size changes when one task moves. A step of a task is one
of its actions, so seven lemmas (`TaskShape` to `TaskQueueing`) say what any of
them can do, and each part of the invariant is then carried over a step of that
kind once.

`DeepDiveProofs` proves every invariant of the `deepdive` run for any finite
sets of finalists and claims, any replies, caps, thresholds, and any number of
interruptions and reruns, under `DeepDiveAssumption` alone:

| theorem | conclusion |
|---|---|
| `TypeCorrect` | `Spec => []TypeOK` |
| `DepthIsBounded` | `Spec => []DepthBounded` |
| `CapVisible` | `Spec => []CapStaysVisible` |
| `SettledWhole` | `Spec => []SettledIsWhole` |

The argument. None is inductive alone. `IInv` says for each finalist where its
task may be with which files (`Place`), how far the dossier is ahead of the log
(`Paced`: at most one round, and none once there is a verdict), and what the
other files hold of what the log records (`Recorded`). `Place` carries what a
task knows between writes: in the verification block the contradictions are
already in the ledger, then also in the report, before the log names them; a
kill drops what is held, and what was written is then either redone or true
already. An action about one finalist is proved to keep that finalist's part;
`TaskStepKeeps` says once that it leaves the others theirs, because they are
outside their blocks (`Alone`) and the ledger only grows. `SampleFacts` is why
a settled dive's moved claims were verified: the sample contains them whatever
the analyst tagged; it needs that a fifth of a finite set can be drawn from it
(`DrawnFacts`).

`TournamentProofs` proves every safety property of the `tournament` run for any
options, boards, scores and weights, and any number of failed agents, crashes,
feedbacks, merged champions and reruns:

| theorem | assumption | conclusion |
|---|---|---|
| `TypeCorrect` | none | `Spec => []TypeOK` |
| `CasesMade` | none | `Spec => []DrawnCasesMade` |
| `JudgeIsLast` | none | `Spec => JudgeSawAll` |
| `LogExplains` | none | `Spec => []TournamentExplained` |

The argument. Between feedback's two writes S8's board is ahead of S7's, so
`TournamentExplained` says nothing there and is not inductive; `Explained` adds
what is true in that window, and `UpdatesCommute` closes it: a ruling writes an
estimate, feedback a preference slot, so it is one whichever comes first. A
process that dies in the window, or between a champion's merge and the end of
the deletions that follow, keeps the weaker half, `EstimatesExplained`: every
estimate of S8's board is the one the log makes of S6's. `Resumption` says from
where a command that died starts again; without it a death could be taken for a
settled tournament. `Drawn` is the loop invariant of the fan-out: what was drawn
is made or still to be made, of the board as it is, which is also why the judge
has seen all of it.

`ScoutingProofs` proves every safety property of the `scouting` run for any map
of angles, any priors, budget, floor and cap, any finite sets of option ids the
scouts may return, and any number of interruptions and reruns:

| theorem | assumption | conclusion |
|---|---|---|
| `ScoutingTyped` | none | `Spec => []TypeOK` |
| `UniqueIds` | none | `Spec => []IdsUnique` |
| `FilesTrue` | none | `Spec => []FilesAttest` |
| `UnitsKept` | none | `Spec => []UnitsConserved` |

The argument. An id already taken gets the least suffix that makes it free;
`SuffixIsFree` shows there is one (finitely many ids are taken, there are more
numbers to try), and `DedupedFacts` that what a task writes is disjoint from
what every other angle holds when it writes, not when its agent was asked.
`FilesAttest` needs to know where each task may be with which files
(`Reviewed`), who still owes a granted angle its top-up (`Served`), and that a
table on disk means every angle is settled until one is re-scouted (`Rests`).
A granted angle without its top-up is one that a task of this process still has
to serve, or one whose process was interrupted before it could: `Served` says
that the second are exactly the `forgotten`.
`UnitsConserved` needs `TableDerived`: the reflow in memory, then on disk, is
the one the settled files derive; the rest of it is the formula's promise.

`AllocationProofs` proves that promise, `AllocateIsWell`: for any angles,
weights, total, floor and cap that can hold the total, what `Allocate` returns
is `WellAllocated`. The floating-point error that the model leaves out is left
out of the theorem too. The argument has two halves. Who is left below the cap
is a recursive function of the set of angles still unfilled; along it no angle
that is filled would have had less than the cap, and no lighter one is filled
before a heavier one, so the shares are ordered like the weights, sum to the
total, and none is beyond the cap. Rounding then owes fewer units than there
are angles with a remainder: those ranked first get one each, and a count of
ranks shows it is as many as are owed.

`Induction` holds what both halves and the shortlist need. The library's
induction theorems take an operator as a parameter, which the provers cannot
instantiate; a predicate is therefore written as the *set* of those that satisfy
it, and `NatInduct`, `SubsetInduct` and `FiniteInduct` follow from the
well-foundedness of the naturals. `RankRecursion` shows that a function defined
by recursion along a rank exists, which is what lets a proof unfold one.
`RankFacts` and `RankCount` are about counting: in a strict order of n elements
every rank from 1 to n is taken once.

`ScreeningProofs` proves every safety property of the `screening` run for any
angles, cards, verdicts, configuration of the shortlist and batch size, and any
number of interruptions, edits, reruns and mini-loops, under
`ShortlistAssumption` and `ScreeningAssumption` alone (the constants are of the
right kind and finite where the files are):

| theorem | conclusion |
|---|---|
| `RuleOfAnyScreening` | every finite screening's shortlist keeps `RuleHolds` |
| `ChunksAreRight` | chunks are the cards in order, within the limit, balanced, and as few as can be |
| `ScreeningTyped` | `Spec => []TypeOK` |
| `ScoredOnce` | `Spec => []EveryCardOnce` |
| `ShortlistKept` | `Spec => []ShortlistWithinRules` |
| `WrittenByTheRule` | every list S5 writes keeps the rule on scores that cover the cards of the moment, but the `lost` ones, on the rubric of their screening; every list a mini-loop writes keeps the earlier decisions and adds at most its best card, over the floor and under the cap |

The first two are about the algorithms. The walk that seats options is a
recursive function along their ranks; `RankRecursion` turns it into a fixed
point, which says of each option whether it is seated from who is seated above
it. An angle's cap then holds because its lowest seat saw all the others, an
option above a seated one was passed over only for a full angle, and the
guardrail's additions, counted by the ranks of the angles, stay under the cap.
The chunks' bounds are arithmetic of quotient and remainder; that they
concatenate to the cards is an induction over how many are concatenated.

The invariant of the run is `Typed`, `Phases` (which files a phase has, and what
a mini-loop has merged but not screened), `Covered` and `Listed` (the list keeps
its cap and decides every scored option that a mini-loop did not die over).
`Covered` has two halves: `Covers`, that outside a mini-loop the scores are
exactly those of the cards of the moment but for the `lost`, and `Dated`, on
which rubric they are. Nothing of it restricts the batch and part files beyond
their types: whatever an interruption leaves there counts only if it coheres
(`BatchStands`), so a merge over batches that all stand covers the cards. `Past`
ties the four history variables to the files: what they name is on the card
list, and none of it is older than `scores.yaml`.

Only model-checked: liveness (`EventuallySettles`, `RerunRequestHonoured`,
`TournamentSettles`, `FanOutEnds`, `ScoutingSettles`, `ScreeningSettles`,
`DiveSettles`), which rests on fairness and enabledness and is out of the
prover's reach. Every other property of a passing run is stated by a theorem,
where the table names an assumption under that assumption. The ranks and the
docket of `Scoreboard` are unfolded where `TournamentProofs` needs them, but
nothing is proved of them alone.

## Plan

Built so far: the engine, the dispatcher, the tournament, and the stages S2, S3,
S5 and S6, with theorems of every safety property the passing runs check. Next,
in this order:

1. `Interview` (S0's two nested budgets) and fan-outs inside fan-outs in
   `Dispatch`; S1's saturation replay.
2. Gate A's and B's individual edits.
3. That a stage's module implements the one step it is in `Engine`.

## Not modelled

Report rendering, eval, viewer and prompt lab read a finished workspace and
change no state of a run. The mock dispatcher replaces the network below the
code `Dispatch` models. Contracts, hooks and schemas are pure functions over
text and paths; their caps are constants of the modules. S4 is one dispatch and
one file, S0 one conversation and one file: each is a stage action of `Engine`.
Prompt assembly, log rotation and git have no part in what a resume re-derives.
