------------------------------ MODULE Scouting ------------------------------
(***************************************************************************)
(* S2 (stages/s2_allocation.py) and S3 (stages/s3_scouting.py): units are  *)
(* allocated over the angles, a scout cards each angle in parallel, a      *)
(* critic reviews it, and what saturated angles return flows to angles     *)
(* whose critic named missed options.                                      *)
(*                                                                         *)
(* Files say what is settled: cards before their critique, the reflow      *)
(* table after its top-ups.  One action is the code between two writes.    *)
(* What one angle does never waits for another, except at the reflow.      *)
(*                                                                         *)
(* An operator marked "slip" is the operator below it with a plausible     *)
(* mistake.                                                                *)
(***************************************************************************)
EXTENDS Allocation, Sequences, SequencesExt

CONSTANTS
  Angles,       \* the approved map, in map order: a sequence
  Weight,       \* angle -> prior^gamma
  Weights,      \* other priors the allocation is checked for
  Budget, Floor, CapPct, StopPct,   \* config.yaml
  Found,        \* angle -> the sets of names its scout may card
  Missed,       \* angle -> the sets of names its top-up may card
  Reviews,      \* angle -> what its critic may report
  MaxFaults,    \* bound: kills and failed agents
  MaxReruns     \* bound: `deeper rerun --stage S3`

Ids == ToSet(Angles)
Order == [a \in Ids |-> CHOOSE i \in DOMAIN Angles : Angles[i] = a]

Review == [pct: 0 .. 100, missed: BOOLEAN, issues: BOOLEAN]

ASSUME ScoutingAssumption ==
  /\ Angles \in Seq(Ids) /\ IsInjective(Angles) /\ IsFiniteSet(Ids)
  /\ Weight \in [Ids -> Nat] /\ Weights \subseteq [Ids -> Nat]
  /\ {Budget, Floor, CapPct, StopPct, MaxFaults, MaxReruns} \subseteq Nat
  /\ Reviews \in [Ids -> SUBSET Review]
  /\ DOMAIN Found = Ids /\ DOMAIN Missed = Ids
  /\ \A a \in Ids : \A names \in Found[a] \cup Missed[a] : IsFiniteSet(names)
  /\ \A a \in Ids : {} \notin Found[a]  \* a card set without cards is refused

VARIABLES
  alloc,    \* allocation.yaml: angle -> units
  cards,    \* options/{angle}/cards.yaml: option ids; none is no file
  critique, \* options/{angle}/critique.md
  reflow,   \* options/reflow.yaml: angle -> units; none is no file
  proc,     \* the process: at s2, idle, gathering scouts, topping up, past S3
  pc,       \* where each angle's task is between two writes
  fresh,    \* in memory: angles this process scouted or reviewed
  table,    \* in memory: the reflow table being served
  todo,     \* in memory: angles whose top-up has not been merged
  read,     \* in memory: the review a revision works on
  revised,  \* history: revisions of an angle's present cards
  topped,   \* history: top-ups merged into an angle's present cards
  redone,   \* history: of these revisions, those cut off before their critique
  wasted,   \* history: of these top-ups, those cut off before their table
  forgotten, \* history: re-scouted angles whose interruption forgot their top-up
  again,    \* history: angles re-scouted by an angle-scoped rerun
  faults, reruns   \* what the bounds have used up

files == <<alloc, cards, critique, reflow>>
memory == <<pc, fresh, table, todo, read>>
cutoff == <<redone, wasted, forgotten>>
history == <<revised, topped, cutoff, again, faults, reruns>>
vars == <<files, proc, memory, history>>

NoReview == [pct |-> 0, missed |-> FALSE, issues |-> FALSE]
NoCritique == [made |-> FALSE, of |-> NoReview]
None == << >>

Init ==
  /\ alloc = [a \in Ids |-> 0]
  /\ cards = [a \in Ids |-> {}] /\ critique = [a \in Ids |-> NoCritique]
  /\ reflow = None
  /\ proc = "s2" /\ pc = [a \in Ids |-> "read"]
  /\ fresh = {} /\ table = None /\ todo = {} /\ read = [a \in Ids |-> NoReview]
  /\ revised = [a \in Ids |-> 0] /\ topped = [a \in Ids |-> 0]
  /\ redone = [a \in Ids |-> 0] /\ wasted = [a \in Ids |-> 0] /\ forgotten = {}
  /\ again = {} /\ faults = 0 /\ reruns = 0

\* AllocationStage.execute; an infeasible map pauses the run at S2.
Allocating ==
  /\ proc = "s2"
  /\ ~Infeasible(Len(Angles), Budget, Floor, CapPct)
  /\ alloc' = Allocate(Weight, Order, Budget, Floor, CapUnits(CapPct, Budget))
  /\ proc' = "idle"
  /\ UNCHANGED <<cards, critique, reflow, memory, history>>

-----------------------------------------------------------------------------
(* Option ids and the reflow arithmetic.                                   *)

Plain(name) == [name |-> name, of |-> "", k |-> 1]
Suffixed(id, a, k) == [name |-> id.name, of |-> a, k |-> k]

\* dedupe_option_ids: an id another angle has is suffixed with this angle's,
\* and numbered while that is taken too.
KeptIds(set, a, taken) == set  \* slip: ids are unique within an angle only
Deduped(set, a, taken) ==
  LET free(id) == {k \in 1 .. Cardinality(set \cup taken) + 1 :
                     Suffixed(id, a, k) \notin set \cup taken}
  IN  {IF id \in taken THEN Suffixed(id, a, Min(free(id))) ELSE id : id \in set}

\* _write_cards: read every other angle's ids and write, without an await.
Carded(a, set) ==
  [cards EXCEPT ![a] = Deduped(set, a, UNION {cards[b] : b \in Ids \ {a}})]

Scouted == {a \in Ids : alloc[a] > 0}

\* returned_units: only a saturated angle returns what it did not use, at two
\* distinct cards a unit.
ReturnedUnits(a) ==
  LET n == Cardinality(cards[a])
      pct == critique[a].of.pct
      distinct == n - (n * pct) \div 100
  IN  IF pct <= StopPct THEN 0 ELSE Max({alloc[a] - (distinct + 1) \div 2, 0})

Pool == Total([a \in Scouted |-> ReturnedUnits(a)], Scouted)
MissedOnly == {a \in Scouted : critique[a].of.missed}  \* slip: saturated or not
Eligible == {a \in Scouted : critique[a].of.missed /\ critique[a].of.pct <= StopPct}

SettledIfClean(a) ==  \* slip: listed issues keep an angle open
  cards[a] # {} /\ critique[a].made /\ ~critique[a].of.issues
Settled(a) == cards[a] # {} /\ critique[a].made

\* _expected_reflow: the pool computation replayed over the files.
ExpectedReflow ==
  IF \A a \in Scouted : Settled(a) THEN Reflow(Weight, Order, Eligible, Pool) ELSE None

\* ScoutingStage.is_complete.
Complete ==
  /\ \A a \in Scouted : Settled(a)
  /\ ExpectedReflow = None \/ reflow # None

-----------------------------------------------------------------------------
(* One angle: scout, critic, and stop early or revise once.  Its task      *)
(* reads off the files what is left to do; settled, nothing is.            *)

At(a, point) == proc = "gather" /\ a \in Scouted /\ pc[a] = point
Goto(a, point) == pc' = [pc EXCEPT ![a] = point]

\* A scout's reply without a card is refused by the card set's schema.
Scout(a) ==
  /\ At(a, "read") /\ cards[a] = {}
  /\ \E names \in Found[a] : cards' = Carded(a, {Plain(x) : x \in names})
  /\ UNCHANGED <<alloc, critique, reflow, proc, memory, history>>

NeedsRevision(r) == r.pct <= StopPct /\ r.issues

\* The critic's verdict is held until the revision it asks for is written.
ReviewCards(a) ==
  /\ At(a, "read") /\ cards[a] # {} /\ ~critique[a].made
  /\ \E r \in Reviews[a] :
       /\ read' = [read EXCEPT ![a] = r]
       /\ Goto(a, IF NeedsRevision(r) THEN "revise" ELSE "critique")
  /\ UNCHANGED <<files, proc, fresh, table, todo, history>>

\* The revision re-emits the whole set: ids it keeps stay, others are new.
Revise(a) ==
  /\ At(a, "revise")
  /\ \E names \in Found[a], kept \in {cards[a], {}} :
       cards' = Carded(a, kept \cup {Plain(x) : x \in names})
  /\ revised' = [revised EXCEPT ![a] = @ + 1]
  /\ Goto(a, "critique")
  /\ UNCHANGED <<alloc, critique, reflow, proc, fresh, table, todo, read,
                 topped, cutoff, again, faults, reruns>>

\* critique.md last: its presence marks the angle settled.
WriteCritique(a) ==
  /\ At(a, "critique")
  /\ critique' = [critique EXCEPT ![a] = [made |-> TRUE, of |-> read[a]]]
  /\ fresh' = fresh \cup {a}
  /\ Goto(a, "read")
  /\ UNCHANGED <<alloc, cards, reflow, proc, table, todo, read, history>>

-----------------------------------------------------------------------------
(* The reflow.                                                             *)

Gathered == proc = "gather" /\ \A a \in Scouted : pc[a] = "read" /\ Settled(a)
Granted(t, angles) == {a \in DOMAIN t \cap angles : t[a] > 0}

\* A table on disk is the decision: it is only replayed, for fresh angles.
EveryFresh == fresh      \* slip: rows are not looked up
NothingToReplay == {}  \* slip: a settled reflow is skipped
ToReplay == Granted(reflow, fresh)
Replay ==
  /\ Gathered /\ reflow # None
  /\ todo' = ToReplay /\ table' = reflow /\ proc' = "topup"
  /\ UNCHANGED <<files, pc, fresh, read, history>>

Redistribute ==
  /\ Gathered /\ reflow = None /\ ExpectedReflow # None
  /\ table' = ExpectedReflow
  /\ todo' = Granted(ExpectedReflow, Scouted) /\ proc' = "topup"
  /\ UNCHANGED <<files, pc, fresh, read, history>>

Forget == fresh' = {} /\ table' = None /\ todo' = {} /\
  pc' = [a \in Ids |-> "read"] /\ read' = [a \in Ids |-> NoReview]

NothingToRedistribute ==
  /\ Gathered /\ reflow = None /\ ExpectedReflow = None
  /\ proc' = "done" /\ Forget
  /\ UNCHANGED <<files, history>>

\* Only cards the angle does not have are merged, under the same dedupe.
TopUp(a) ==
  /\ proc = "topup" /\ a \in todo
  /\ \E names \in Missed[a] :
       LET added == {Plain(x) : x \in names} \ cards[a]
       IN  cards' = IF added = {} THEN cards ELSE Carded(a, cards[a] \cup added)
  /\ topped' = [topped EXCEPT ![a] = @ + 1]
  /\ todo' = todo \ {a}
  /\ UNCHANGED <<alloc, critique, reflow, proc, pc, fresh, table, read,
                 revised, cutoff, again, faults, reruns>>

\* options/reflow.yaml last: its presence attests the top-ups are merged.
FinishReflow ==
  /\ proc = "topup" /\ todo = {}
  /\ reflow' = table
  /\ proc' = "done" /\ Forget
  /\ UNCHANGED <<alloc, cards, critique, history>>

-----------------------------------------------------------------------------
(* The stage, and what interrupts it.                                      *)

\* execute over whatever is on disk; a complete stage is skipped.
Resume ==
  /\ proc = "idle"
  /\ proc' = IF Complete THEN "done" ELSE "gather"
  /\ UNCHANGED <<files, memory, history>>

\* What an interruption now would cut off: revised cards whose critique is not
\* written, top-ups whose table is not, and the memory that a re-scouted angle
\* still needs its top-up from the table on disk.
Uncritiqued == {a \in Ids : pc[a] = "critique" /\ NeedsRevision(read[a])}
Untabled ==
  IF proc = "topup" /\ reflow = None THEN Granted(table, Scouted) \ todo ELSE {}
Unserved == IF proc = "topup" THEN ToReplay \cap todo ELSE ToReplay

CountOne(n, angles) == [a \in Ids |-> n[a] + IF a \in angles THEN 1 ELSE 0]

\* An agent fails for good, which cancels its siblings, or the process dies.
Interrupt ==
  /\ proc \in {"gather", "topup"} /\ faults < MaxFaults
  /\ redone' = CountOne(redone, Uncritiqued)
  /\ wasted' = CountOne(wasted, Untabled)
  /\ forgotten' = forgotten \cup Unserved
  /\ proc' = "idle" /\ Forget
  /\ faults' = faults + 1
  /\ UNCHANGED <<files, revised, topped, again, reruns>>

Without(f, angles, nothing) == [a \in Ids |-> IF a \in angles THEN nothing ELSE f[a]]
Erase(angles) ==
  /\ cards' = Without(cards, angles, {})
  /\ critique' = Without(critique, angles, NoCritique)
  /\ revised' = Without(revised, angles, 0) /\ redone' = Without(redone, angles, 0)
  /\ topped' = Without(topped, angles, 0) /\ wasted' = Without(wasted, angles, 0)
  /\ forgotten' = forgotten \ angles

RerunGuard == proc \in {"idle", "done"} /\ reruns < MaxReruns

\* rerun.invalidate(S3, angle): the angle's own files, not the reflow table.
RerunAngle(a) ==
  /\ RerunGuard /\ Erase({a})
  /\ again' = again \cup {a} /\ reruns' = reruns + 1
  /\ proc' = "idle"
  /\ UNCHANGED <<alloc, reflow, memory, faults>>

\* rerun.invalidate(S3): all of options/.
RerunStage ==
  /\ RerunGuard /\ Erase(Ids)
  /\ reflow' = None /\ again' = {} /\ reruns' = reruns + 1
  /\ proc' = "idle"
  /\ UNCHANGED <<alloc, memory, faults>>

AngleStep(a) ==
  \/ Scout(a) \/ ReviewCards(a) \/ Revise(a)
  \/ WriteCritique(a) \/ TopUp(a)

StageStep ==
  \/ Allocating \/ Resume \/ Replay \/ Redistribute \/ NothingToRedistribute
  \/ FinishReflow

Next ==
  \/ StageStep
  \/ \E a \in Ids : AngleStep(a) \/ RerunAngle(a)
  \/ RerunStage \/ Interrupt

Spec == Init /\ [][Next]_vars

FairSpec ==
  /\ Spec
  /\ WF_vars(StageStep)
  /\ \A a \in Ids : WF_vars(AngleStep(a))
-----------------------------------------------------------------------------
(* Properties.                                                             *)

IsTable(t) == DOMAIN t \subseteq Ids /\ \A a \in DOMAIN t : t[a] \in 0 .. Budget

TypeOK ==
  /\ alloc \in [Ids -> 0 .. Budget]
  /\ \A a \in Ids : \A id \in cards[a] : id.of \in {"", a}
  /\ \A a \in Ids : critique[a].of \in Review /\ read[a] \in Review
  /\ IsTable(reflow) /\ IsTable(table)
  /\ proc \in {"s2", "idle", "gather", "topup", "done"}
  /\ pc \in [Ids -> {"read", "revise", "critique"}]
  /\ fresh \subseteq Scouted /\ todo \subseteq DOMAIN table

\* The option-id namespace is global although scouts work at the same time:
\* no two angles hold the same id, which scores, dossiers and the tournament
\* would take for one option.
IdsUnique == \A a, b \in Ids : a # b => cards[a] \cap cards[b] = {}

\* Units are conserved: a budget S2 does not refuse is shared out by its rules
\* whatever the priors, and what the reflow grants is what the saturated angles returned,
\* still derivable from the files after every top-up, unless an angle was
\* re-scouted since.
UnitsConserved ==
  /\ proc = "s2" /\ ~Infeasible(Len(Angles), Budget, Floor, CapPct) =>
     \A w \in Weights :
       LET cap == CapUnits(CapPct, Budget)
       IN  WellAllocated(w, Allocate(w, Order, Budget, Floor, cap), Budget, Floor, cap)
  /\ reflow # None /\ again = {} =>
       /\ reflow = ExpectedReflow
       /\ Total(reflow, DOMAIN reflow) = Pool

\* A file attests the work before it, and that work was done once.  A critique
\* stands for the revision it asked for and no other, but for those whose cards
\* an interruption left without their critique: the next process has them
\* reviewed anew and may revise again, which the "exactly one revision round"
\* of s3_scouting.py:4-6 leaves out.  A reflow table, once S3 is over, stands
\* for one top-up of the present cards of every angle it grants units, but for
\* those an interruption left without their table.  An angle-scoped rerun
\* replays the table for the angle, as README.md:1472-1479 has it, unless it
\* was interrupted between the angle's new critique and its top-up: that S3
\* owes the top-up is only in memory, and the angle "silently loses the
\* coverage".
FilesAttest ==
  \A a \in Ids :
    /\ critique[a].made =>
         revised[a] = redone[a] + IF NeedsRevision(critique[a].of) THEN 1 ELSE 0
    /\ revised[a] <= redone[a] + 1 /\ topped[a] <= wasted[a] + 1
    /\ proc = "done" /\ a \in Granted(reflow, Scouted) =>
         topped[a] = IF a \in forgotten THEN 0 ELSE wasted[a] + 1

\* Whatever interrupts it, S3 comes to an end.
ScoutingSettles == <>[](proc = "done")
=============================================================================
