----------------------------- MODULE Tournament -----------------------------
(***************************************************************************)
(* S7 (stages/s7_tournament.py), the Gate-C loops that touch its boards    *)
(* (orchestrator/gate_c_loops.py, redivergence.py) and the door of S8      *)
(* (stages/s8_synthesis.py).                                               *)
(*                                                                         *)
(* S7 draws its cases from dossiers/scores.yaml (dive), its agents run     *)
(* side by side under gather_strict and write each case as it is made, the *)
(* judge rules, and the amended board is settled in tournament/scores.yaml *)
(* (tour).  S8 asks for the cases that board owes.  An operator marked     *)
(* "slip" is the operator below it with a plausible mistake.               *)
(***************************************************************************)
EXTENDS Scoreboard

CONSTANTS
  Options,      \* option ids, naturals
  Scores,       \* score values
  Boards,       \* the boards S6 may hand over
  WD, WP,       \* weight of the destination criteria and of the slot
  CrashPoints,  \* program points at which a process may die
  MaxMoves,     \* bound: records one judge or one feedback moves
  MaxKept,      \* bound: cases a deletion under way has left
  MaxFeedback,  \* bound: preference-feedback loops
  MaxFaults,    \* bound: crashes and agent failures
  MaxReruns     \* bound: `deeper rerun --stage S7`

Records == [dest: Scores, pref: Scores \cup {NoScore}]
Rests == {"s7", "gate", "s8", "done"}  \* what state.json can name
Points == Rests \cup {"gather", "settle", "slots", "merged", "inv"}

ASSUME TournamentAssumption ==
  /\ Options \subseteq Nat /\ IsFiniteSet(Options) /\ Scores \subseteq Nat
  /\ \A b \in Boards : DOMAIN b \subseteq Options /\ b \in [DOMAIN b -> Records]
  /\ WD \in Nat \ {0} /\ WP \in Nat
  /\ CrashPoints \subseteq Points \ Rests
  /\ MaxMoves \in Nat /\ MaxKept \in Nat /\ MaxFeedback \in Nat
  /\ MaxFaults \in Nat /\ MaxReruns \in Nat

Frame == <<"frame", 0>>
Cases == ({"prosecution", "steelman"} \X Options) \cup {Frame}

VARIABLES
  dive,     \* dossiers/scores.yaml
  tour,     \* tournament/scores.yaml
  log,      \* tournament/score-updates.yaml: option -> its new estimate
  settled,  \* tournament/scores.yaml is on disk
  ruled,    \* tournament/score-updates.yaml is on disk
  cases,    \* prosecutions, steelmen and the frame check on disk
  drawn,    \* history: the cases S7 last asked for
  cut,      \* history: what a process death left half done since S7 settled
  pc, todo, slots,
  resume,   \* where the command under way began: a resume starts there
  used      \* what the bounds have used up

files == <<dive, tour, log, settled, ruled, cases>>
past == <<drawn, cut>>
vars == <<files, past, pc, todo, slots, resume, used>>

Init ==
  /\ dive \in Boards /\ tour = dive
  /\ log = << >> /\ settled = FALSE /\ ruled = FALSE
  /\ cases = {} /\ drawn = {} /\ cut = "no"
  /\ pc = "s7" /\ todo = {} /\ slots = << >> /\ resume = "s7"
  /\ used = [feedback |-> 0, faults |-> 0, reruns |-> 0]

-----------------------------------------------------------------------------
(* The docket.                                                             *)

\* What a board owes S8: a prosecution for each of the top three, a steelman
\* for each docket entry.
Owed(scores) ==
  LET adj  == Adjusted(scores, WD, WP)
      dest == Destination(scores, WD, WP)
  IN  ({"prosecution"} \X Top(adj, 3))
        \cup ({"steelman"} \X SteelmanDocket(dest, adj))

\* TournamentStage.outputs over the board as it is now.
S7Complete ==
  settled /\ ruled /\ Frame \in cases /\ Owed(dive) \subseteq cases

UpdatesAdded(scores, updates) ==  \* slip: a new score is taken for a change
  [o \in DOMAIN scores |->
     IF o \in DOMAIN updates THEN [scores[o] EXCEPT !.dest = @ + updates[o]]
                             ELSE scores[o]]

\* apply_score_updates, on the estimate the criterion scores add up to.
ApplyUpdates(scores, updates) ==
  [o \in DOMAIN scores |->
     IF o \in DOMAIN updates THEN [scores[o] EXCEPT !.dest = updates[o]]
                             ELSE scores[o]]

\* At most MaxMoves options of a board, each with what an agent gives it.
Moves(board, S) ==
  UNION {[D -> S] : D \in {E \in SUBSET DOMAIN board : Cardinality(E) <= MaxMoves}}

-----------------------------------------------------------------------------
(* S7.                                                                     *)

SkipS7 ==
  /\ pc = "s7" /\ S7Complete
  /\ pc' = "gate"
  /\ UNCHANGED <<files, past, todo, slots, resume, used>>

NoSteelmen ==  \* slip: only the prosecutors are dispatched
  {case \in Owed(dive) \cup {Frame} : case[1] # "steelman"} \ cases
Missing == (Owed(dive) \cup {Frame}) \ cases

DrawCases ==
  /\ pc = "s7" /\ ~S7Complete
  /\ drawn' = Owed(dive) \cup {Frame}
  /\ todo' = Missing
  /\ pc' = "gather" /\ resume' = "s7"
  /\ UNCHANGED <<files, cut, slots, used>>

StillTodo(case) == todo  \* slip: a finished job is waited for again
OthersTodo(case) == todo \ {case}

\* One agent of the fan-out answers: its case is written at once.
CaseMade(case) ==
  /\ pc = "gather" /\ case \in todo
  /\ cases' = cases \cup {case}
  /\ todo' = OthersTodo(case)
  /\ UNCHANGED <<dive, tour, log, settled, ruled, past, pc, slots, resume, used>>

FailureIgnored == "gather"  \* slip: the fan-out swallows a failed job
AfterFailure == "s7"

\* One agent fails for good, or the judge does: the siblings are cancelled,
\* the run pauses, and a resume comes back to S7.
AgentFails ==
  /\ pc = "gather" /\ used.faults < MaxFaults
  /\ used' = [used EXCEPT !.faults = @ + 1]
  /\ pc' = AfterFailure /\ todo' = {}
  /\ UNCHANGED <<files, past, slots, resume>>

\* The judge amends estimates, or its log is already on disk.
Judge ==
  /\ pc = "gather" /\ todo = {} /\ ~ruled
  /\ log' \in Moves(dive, Scores)
  /\ ruled' = TRUE
  /\ pc' = "settle"
  /\ UNCHANGED <<dive, tour, settled, cases, past, todo, slots, resume, used>>

ReuseRuling ==
  /\ pc = "gather" /\ todo = {} /\ ruled
  /\ pc' = "settle"
  /\ UNCHANGED <<files, past, todo, slots, resume, used>>

Settle ==
  /\ pc = "settle"
  /\ tour' = ApplyUpdates(dive, log)
  /\ settled' = TRUE /\ cut' = "no"
  /\ pc' = "gate"
  /\ UNCHANGED <<dive, log, ruled, cases, drawn, todo, slots, resume, used>>

-----------------------------------------------------------------------------
(* Gate C and S8.                                                          *)

\* apply_slots: only the preference slot of a returned record counts.
ApplySlots(scores, records) ==
  [o \in DOMAIN scores |->
     IF o \in DOMAIN records /\ records[o].pref # NoScore
       THEN [scores[o] EXCEPT !.pref = records[o].pref] ELSE scores[o]]

\* The screener's records come back; S8's board is rewritten first.
Feedback ==
  /\ pc = "gate" /\ settled /\ used.feedback < MaxFeedback
  /\ used' = [used EXCEPT !.feedback = @ + 1]
  /\ slots' \in Moves(tour, Records)
  /\ tour' = ApplySlots(tour, slots')
  /\ pc' = "slots" /\ resume' = "gate"
  /\ UNCHANGED <<dive, log, settled, ruled, cases, past, todo>>

TournamentOnly == dive  \* slip: S7's own board does not get the feedback
BothBoards == ApplySlots(dive, slots)

\* ... then S7's, so that a later rerun keeps the feedback.
SaveSlots ==
  /\ pc = "slots"
  /\ dive' = BothBoards
  /\ pc' = "gate" /\ slots' = << >>
  /\ UNCHANGED <<tour, log, settled, ruled, cases, past, todo, resume, used>>

\* A loop's agent fails for good: the run pauses and comes back to S7.
LoopFails ==
  /\ pc = "gate" /\ used.faults < MaxFaults
  /\ used' = [used EXCEPT !.faults = @ + 1]
  /\ pc' = "s7"
  /\ UNCHANGED <<files, past, todo, slots, resume>>

\* The mini-loop's champion joins the board S7 reads; the loop's decision is
\* archived and its state saved only then.
MergeChampion(o, rec) ==
  /\ pc = "gate" /\ Frame \in cases /\ o \notin DOMAIN dive
  /\ dive' = [p \in DOMAIN dive \cup {o} |-> IF p = o THEN rec ELSE dive[p]]
  /\ pc' = "merged" /\ resume' = "gate"
  /\ UNCHANGED <<tour, log, settled, ruled, cases, past, todo, slots, used>>

\* ... and S7's outputs are invalidated after that.
SaveLoop ==
  /\ pc = "merged"
  /\ pc' = "inv"
  /\ UNCHANGED <<files, past, todo, slots, resume, used>>

RerunS7 ==
  /\ pc \in Rests /\ used.reruns < MaxReruns
  /\ used' = [used EXCEPT !.reruns = @ + 1]
  /\ pc' = "inv" /\ resume' = pc
  /\ UNCHANGED <<files, past, todo, slots>>

\* rerun.invalidate(S7): the tournament/ tree goes file by file, in the order
\* the directory lists them, which nothing fixes: any part of it may be left.
DeleteFiles ==
  /\ pc = "inv"
  /\ cases' \in {cases} \cup {kept \in SUBSET cases : Cardinality(kept) <= MaxKept}
  /\ \/ UNCHANGED <<ruled, log>>
     \/ ruled' = FALSE /\ log' = << >>
  /\ \/ UNCHANGED <<settled, tour>>
     \/ settled' = FALSE /\ tour' = dive
  /\ UNCHANGED <<dive, past, pc, todo, slots, resume, used>>

\* ... and state.json is pointed back at S7 once nothing is left.
SaveInvalidation ==
  /\ pc = "inv" /\ cases = {} /\ ~ruled /\ ~settled
  /\ pc' = "s7"
  /\ UNCHANGED <<files, past, todo, slots, resume, used>>

Approve ==
  /\ pc = "gate"
  /\ pc' = "s8"
  /\ UNCHANGED <<files, past, todo, slots, resume, used>>

\* SynthesisStage.validate_inputs over the settled board.
S8Ready == settled /\ ruled /\ Frame \in cases /\ Owed(tour) \subseteq cases

\* Otherwise StageInputsMissing ends the process, on every resume.
Synthesise ==
  /\ pc = "s8" /\ S8Ready
  /\ pc' = "done"
  /\ UNCHANGED <<files, past, todo, slots, resume, used>>

\* What a death in the middle of a loop's or an invalidation's writes leaves
\* on disk, until S7 settles again.
LeftHalfDone ==
  CASE pc = "inv" -> "deletion"
    [] pc \in {"slots", "merged"} /\ cut = "no" -> "loop"
    [] OTHER -> cut

Crash ==
  /\ pc \in CrashPoints /\ used.faults < MaxFaults
  /\ used' = [used EXCEPT !.faults = @ + 1]
  /\ cut' = LeftHalfDone
  /\ pc' = resume
  /\ todo' = {} /\ slots' = << >>
  /\ UNCHANGED <<files, drawn, resume>>

S7Step == SkipS7 \/ DrawCases \/ Judge \/ ReuseRuling \/ Settle
Invalidation == DeleteFiles \/ SaveInvalidation

Next ==
  \/ S7Step \/ \E case \in Cases : CaseMade(case)
  \/ AgentFails \/ LoopFails \/ Crash
  \/ Feedback \/ SaveSlots
  \/ \E o \in Options : \E rec \in Records : MergeChampion(o, rec)
  \/ SaveLoop \/ RerunS7 \/ Invalidation
  \/ Approve \/ Synthesise

Spec == Init /\ [][Next]_vars

FairSpec ==
  /\ Spec
  /\ WF_vars(S7Step) /\ WF_vars(SaveInvalidation)
  /\ WF_vars(DeleteFiles /\ cases' = {} /\ ~ruled' /\ ~settled')
  /\ \A case \in Cases : WF_vars(CaseMade(case))

-----------------------------------------------------------------------------
(* Properties.                                                             *)

BoardOK(b) == DOMAIN b \subseteq Options /\ b \in [DOMAIN b -> Records]

TypeOK ==
  /\ BoardOK(dive) /\ BoardOK(tour) /\ DOMAIN tour \subseteq DOMAIN dive
  /\ DOMAIN log \subseteq DOMAIN dive /\ log \in [DOMAIN log -> Scores]
  /\ settled \in BOOLEAN /\ ruled \in BOOLEAN
  /\ cases \subseteq Cases /\ drawn \subseteq Cases /\ todo \subseteq Cases
  /\ cut \in {"no", "loop", "deletion"}
  /\ pc \in Points /\ resume \in Rests
  /\ DOMAIN slots \subseteq DOMAIN dive /\ slots \in [DOMAIN slots -> Records]
  /\ used \in [feedback: Nat, faults: Nat, reruns: Nat]

\* What score-updates.yaml makes of the estimate S6 gave an option.
Ruled(o) == IF o \in DOMAIN log THEN log[o] ELSE dive[o].dest

\* score-updates.yaml explains the whole difference between S6's board and the
\* one S8 reports on, whatever was resumed, looped or rerun in between: no
\* feedback is lost from either board and no ruling outlives its board.  A
\* process that died within a loop may have left a reaction on one board, or
\* a champion on S6's only, but no estimate the log does not explain; one
\* that died within a deletion leaves what it leaves.
TournamentExplained ==
  pc \in {"gate", "s8", "done"} /\ cut # "deletion" =>
    /\ settled /\ ruled
    /\ cut = "no" => tour = ApplyUpdates(dive, log)
    /\ \A o \in DOMAIN tour : tour[o].dest = Ruled(o)

\* The judge never rules with a case still missing, however many passes,
\* failed siblings and crashes it took to make them.
JudgeSawAll ==
  [][ruled' /\ ~ruled => Owed(dive) \cup {Frame} \subseteq cases]_vars

\* What S7 asked for is on disk when it settles, and stays there unless a
\* process died deleting it: S8 can only miss a case nobody drew.
DrawnCasesMade ==
  \/ pc = "settle"
  \/ pc \in {"gate", "s8", "done"} /\ cut # "deletion"
  => drawn \subseteq cases

\* However often it is interrupted, S7 comes to Gate C.
TournamentSettles == pc = "s7" ~> pc = "gate"

\* A prosecutor per top-3 finalist and a steelman per docket entry: what the
\* approved board owes the report is there.
ReportCanStart == pc = "s8" => S8Ready
=============================================================================
