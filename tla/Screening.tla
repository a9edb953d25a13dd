------------------------------ MODULE Screening ------------------------------
(***************************************************************************)
(* S5 (stages/s5_screening.py): a screener scores every angle's cards, an  *)
(* angle with many cards in sub-batches; each reply is kept on disk as it  *)
(* passes its checks, the batches are merged into scores.yaml and the      *)
(* shortlist rule decides.  Also the one later writer of these files, the  *)
(* Gate-C mini-loop (orchestrator/redivergence.py).                        *)
(*                                                                         *)
(* What is on disk is trusted only while it coheres with the rubric and    *)
(* the cards of the moment, which a human may edit while the run is        *)
(* paused.  One action is the code between two writes.                     *)
(*                                                                         *)
(* An operator marked "slip" is the operator below it with a plausible     *)
(* mistake.                                                                *)
(***************************************************************************)
EXTENDS Shortlist, Sequences, SequencesExt

CONSTANTS
  CardSets,     \* cards.yaml of every angle S3 may have left: angle -> ids
  Verdict,      \* id -> the ucb and the kill-risk outcome screening gives it
  Extra,        \* ids a screener may score besides its own cards
  LoopCards,    \* ids the mini-loop's scout may card
  MaxBatch,     \* screener_batch_max_cards
  Options,      \* screening results the shortlist rule is checked for
  MaxFaults,    \* bound: kills and failed agents
  MaxEdits,     \* bound: rubric edits of a paused run
  MaxReruns,    \* bound: `deeper rerun --stage S5`
  MaxLoops      \* bound: mini-loops

Angles == DOMAIN Prior

ASSUME ScreeningAssumption ==
  /\ DOMAIN Verdict \subseteq Nat
  /\ \A x \in DOMAIN Verdict : Verdict[x].ucb \in Nat /\ Verdict[x].kill \in BOOLEAN
  /\ CardSets \subseteq [Angles -> Seq(DOMAIN Verdict)]
  /\ IsFiniteSet(LoopCards) /\ LoopCards \subseteq DOMAIN Verdict
  /\ \A options \in Options : Screened(options)
  /\ MaxBatch \in Nat \ {0}
  /\ {MaxFaults, MaxEdits, MaxReruns, MaxLoops} \subseteq Nat

VARIABLES
  cards,    \* options/{angle}/cards.yaml
  rubric,   \* rubric.yaml: which set of criteria it is
  batch,    \* screening/batches/{angle}.yaml; no ids is no file
  part,     \* screening/batches/{angle}.part{i}.yaml
  scores,   \* screening/scores.yaml; no options is no file
  list,     \* screening/shortlist.md
  proc,     \* the process: idle, screening, scored, past S5, or in a mini-loop
  unlink,   \* in memory: parts of an angle still to be removed
  loop,     \* in memory: the cards a mini-loop has merged
  late,     \* history: rubric edits since scores.yaml was written
  scouted,  \* history: cards of mini-loops
  lost,     \* history: those of a mini-loop that died before it scored them
  unseated, \* history: those scored by a mini-loop that died before it decided
  faults, edits, reruns, loops   \* what the bounds have used up

files == <<cards, rubric, batch, part, scores, list>>
history == <<late, scouted, lost, unseated>>
bounds == <<history, faults, edits, reruns, loops>>
vars == <<files, proc, unlink, loop, bounds>>

NoBatch == [ids |-> {}, rubric |-> 0]
NoList == [finalists |-> {}, cause |-> << >>]
Parts == 1 .. 3  \* bound: sub-batches of an angle

Init ==
  /\ cards \in CardSets
  /\ rubric = 1
  /\ batch = [a \in Angles |-> NoBatch]
  /\ part = [a \in Angles |-> [i \in Parts |-> NoBatch]]
  /\ scores = {} /\ list = NoList
  /\ proc = "idle" /\ unlink = [a \in Angles |-> {}] /\ loop = {}
  /\ late = 0 /\ scouted = {} /\ lost = {} /\ unseated = {}
  /\ faults = 0 /\ edits = 0 /\ reruns = 0 /\ loops = 0

-----------------------------------------------------------------------------
(* Chunks, and what is trusted.                                            *)

\* chunk_cards: the fewest chunks of at most max, the first ones a card more.
CeilDiv(n, m) == (n + m - 1) \div m
Chunks(s, max) ==
  LET n == Len(s)
      k == CeilDiv(n, max)
      start(i) == (i - 1) * (n \div k) + IF i - 1 < n % k THEN i - 1 ELSE n % k
  IN  IF n <= max THEN <<s>>
      ELSE [i \in 1 .. k |-> SubSeq(s, start(i) + 1, start(i + 1))]

ChunksOf(a) == Chunks(cards[a], MaxBatch)
Ids(s) == ToSet(s)

\* verify_screening against the rubric and cards of the moment: every card,
\* nothing but cards, every criterion.
FirstRubric(b, ids) == b.ids = ids /\ b.rubric = 1  \* slip: edits go unseen
Coheres(b, ids) == b.ids = ids /\ b.rubric = rubric

BatchOnDisk(a) == batch[a] # NoBatch  \* slip: what is on disk is trusted
BatchStands(a) == Coheres(batch[a], Ids(cards[a]))
PartStands(a, i) == Coheres(part[a][i], Ids(ChunksOf(a)[i]))

\* normalize_chunk: ids other batches cover are dropped, unknown ones kept.
Known == UNION {Ids(cards[a]) : a \in Angles}
Normalized(reply, own) == (reply \cap own) \cup (reply \ Known)

-----------------------------------------------------------------------------
(* The fan-out.                                                            *)

\* A reply is kept only if it coheres, so it is about the chunk's cards.
Reply(own) ==
  {[ids |-> Normalized(reply, own), rubric |-> rubric] :
     reply \in {own \cup x : x \in SUBSET Extra}}

Screening(a) == proc = "screening" /\ unlink[a] = {} /\ ~BatchStands(a)

\* An angle in one chunk goes straight to its batch file.
ScreenAngle(a) ==
  /\ Screening(a) /\ Len(ChunksOf(a)) = 1
  /\ \E b \in Reply(Ids(cards[a])) :
       Coheres(b, Ids(cards[a])) /\ batch' = [batch EXCEPT ![a] = b]
  /\ UNCHANGED <<cards, rubric, part, scores, list, proc, unlink, loop, bounds>>

\* A sub-batch is kept the moment it passes.
ScreenChunk(a, i) ==
  /\ Screening(a) /\ i \in DOMAIN ChunksOf(a) /\ Len(ChunksOf(a)) > 1
  /\ ~PartStands(a, i)
  /\ \E b \in Reply(Ids(ChunksOf(a)[i])) :
       Coheres(b, Ids(ChunksOf(a)[i])) /\ part' = [part EXCEPT ![a][i] = b]
  /\ UNCHANGED <<cards, rubric, batch, scores, list, proc, unlink, loop, bounds>>

\* Merging writes the batch before its parts go.
MergeParts(a) ==
  /\ Screening(a) /\ Len(ChunksOf(a)) > 1
  /\ DOMAIN ChunksOf(a) \subseteq Parts  \* bound
  /\ \A i \in DOMAIN ChunksOf(a) : PartStands(a, i)
  /\ batch' = [batch EXCEPT ![a] =
       [ids |-> UNION {part[a][i].ids : i \in DOMAIN ChunksOf(a)}, rubric |-> rubric]]
  /\ unlink' = [unlink EXCEPT ![a] = DOMAIN ChunksOf(a)]
  /\ UNCHANGED <<cards, rubric, part, scores, list, proc, loop, bounds>>

DropPart(a) ==
  /\ proc = "screening" /\ unlink[a] # {}
  /\ LET i == CHOOSE j \in unlink[a] : \A k \in unlink[a] : j <= k
     IN  part' = [part EXCEPT ![a][i] = NoBatch] /\ unlink' = [unlink EXCEPT ![a] = @ \ {i}]
  /\ UNCHANGED <<cards, rubric, batch, scores, list, proc, loop, bounds>>

\* The option records scores.yaml gets from a set of cards of an angle.
Scored(a, ids) ==
  {[id |-> x, angle |-> a, ucb |-> Verdict[x].ucb, kill |-> Verdict[x].kill,
    rubric |-> rubric] : x \in ids}

Gathered == proc = "screening" /\ \A a \in Angles : BatchStands(a) /\ unlink[a] = {}
NoDupesSeen == FALSE  \* slip: batches are merged as they come
Dupes == \E a, b \in Angles : a # b /\ Ids(cards[a]) \cap Ids(cards[b]) # {}

Merge ==
  /\ Gathered /\ ~Dupes
  /\ scores' = UNION {Scored(a, batch[a].ids) : a \in Angles}
  /\ proc' = "scored"
  /\ UNCHANGED <<cards, rubric, batch, part, list, unlink, loop, bounds>>

\* Ids that collide across angles pause the run for a human.
PauseOnDupes ==
  /\ Gathered /\ Dupes
  /\ proc' = "collision"
  /\ UNCHANGED <<files, unlink, loop, bounds>>

\* build_shortlist; without any finalist it raises and nothing is written.
WriteShortlist ==
  /\ proc = "scored"
  /\ \E built \in {BuildShortlist(scores)} :
       built.finalists # {} /\ list' = built
  /\ proc' = "done"
  /\ UNCHANGED <<cards, rubric, batch, part, scores, unlink, loop, bounds>>

-----------------------------------------------------------------------------
(* Pauses, edits and reruns.                                               *)

\* scores.yaml on disk is never screened again.
Resume ==
  /\ proc = "idle"
  /\ proc' = IF scores = {} THEN "screening" ELSE IF list = NoList THEN "scored" ELSE "done"
  /\ UNCHANGED <<files, unlink, loop, bounds>>

\* An agent fails for good, which cancels its siblings, or the process dies,
\* also with the shortlist written and the run not yet past S5.
Interrupt ==
  /\ proc \in {"screening", "scored", "done"} /\ faults < MaxFaults
  /\ proc' = "idle" /\ unlink' = [a \in Angles |-> {}]
  /\ faults' = faults + 1
  /\ UNCHANGED <<files, loop, history, edits, reruns, loops>>

\* The pause's advice: hand-rename one colliding card, in its cards.yaml and,
\* if the human looks there too, in its batch.
Rename(a) ==
  /\ proc = "collision" /\ Dupes
  /\ \E i \in DOMAIN cards[a] :
       LET x == cards[a][i]
           y == x + 10
       IN  /\ \E b \in Angles \ {a} : x \in Ids(cards[b])
           /\ y \in DOMAIN Verdict  \* bound: what a rename may make of an id
           /\ cards' = [cards EXCEPT ![a][i] = y]
           /\ \E both \in BOOLEAN :
                batch' = IF both THEN [batch EXCEPT ![a].ids = (@ \ {x}) \cup {y}] ELSE batch
  /\ proc' = "idle"
  /\ UNCHANGED <<rubric, part, scores, list, unlink, loop, bounds>>

\* A human edits the rubric of a run that is not at work; scores.yaml, once
\* there, stays as it is (_existing_scores).
EditRubric ==
  /\ proc \in {"idle", "collision", "done"} /\ edits < MaxEdits
  /\ rubric' = rubric + 1 /\ edits' = edits + 1
  /\ late' = IF scores = {} THEN late ELSE late + 1
  /\ UNCHANGED <<cards, batch, part, scores, list, proc, unlink, loop, scouted, lost,
                 unseated, faults, reruns, loops>>

\* rerun.invalidate(S5): all of screening/.
Rerun ==
  /\ proc \in {"idle", "done", "collision"} /\ reruns < MaxReruns
  /\ batch' = [a \in Angles |-> NoBatch]
  /\ part' = [a \in Angles |-> [i \in Parts |-> NoBatch]]
  /\ scores' = {} /\ list' = NoList /\ proc' = "idle"
  /\ late' = 0 /\ scouted' = {} /\ lost' = {} /\ unseated' = {}
  /\ reruns' = reruns + 1
  /\ UNCHANGED <<cards, rubric, unlink, loop, faults, edits, loops>>

-----------------------------------------------------------------------------
(* The mini-loop: scout, screen, and seat at most one new finalist.        *)

\* Its scout is only kept from its own angle's ids; the model leaves out ids
\* of other angles, on which the merge below raises.
LoopScout(a) ==
  /\ proc = "done" /\ loops < MaxLoops
  /\ \E new \in (SUBSET (LoopCards \ Known)) \ {{}} :
       /\ cards' = [cards EXCEPT ![a] = @ \o SetToSeq(new)]
       /\ loop' = Scored(a, new) /\ scouted' = scouted \cup new
  /\ loops' = loops + 1 /\ proc' = "loop-screen"
  /\ UNCHANGED <<rubric, batch, part, scores, list, unlink, late, lost, unseated,
                 faults, edits, reruns>>

LoopScreen ==
  /\ proc = "loop-screen"
  /\ scores' = scores \cup loop
  /\ proc' = "loop-seat"
  /\ UNCHANGED <<cards, rubric, batch, part, list, unlink, loop, bounds>>

\* _merge_screening.
CapIgnored == FALSE  \* slip: the mini-loop is outside the finalist cap
AtCap == Cardinality(list.finalists) >= MaxFinalists
LoopCause(o) ==
  IF o.ucb < Threshold THEN "below-threshold"
  ELSE IF AtCap \/ \E p \in loop : Above(p, o) THEN "below-cutoff"
  ELSE "ucb-above-threshold"
LoopSeat ==
  /\ proc = "loop-seat"
  /\ list' = [finalists |-> list.finalists \cup
                {o.id : o \in {p \in loop : LoopCause(p) = "ucb-above-threshold"}},
              cause |-> [x \in DOMAIN list.cause \cup {o.id : o \in loop} |->
                IF x \in DOMAIN list.cause THEN list.cause[x]
                ELSE LoopCause(CHOOSE o \in loop : o.id = x)]]
  /\ loop' = {} /\ proc' = "done"
  /\ UNCHANGED <<cards, rubric, batch, part, scores, unlink, bounds>>

\* The loop pauses at Gate C; asked again it takes the cards for scouted, so
\* that nothing scores or decides them any more.
LoopInterrupt ==
  /\ proc \in {"loop-screen", "loop-seat"} /\ faults < MaxFaults
  /\ LET left == {o.id : o \in loop}
     IN  /\ lost' = IF proc = "loop-screen" THEN lost \cup left ELSE lost
         /\ unseated' = IF proc = "loop-seat" THEN unseated \cup left ELSE unseated
  /\ loop' = {} /\ proc' = "done" /\ faults' = faults + 1
  /\ UNCHANGED <<files, unlink, late, scouted, edits, reruns, loops>>

AngleStep(a) ==
  \/ ScreenAngle(a) \/ MergeParts(a) \/ DropPart(a)
  \/ \E i \in Parts : ScreenChunk(a, i)

StageStep == Resume \/ Merge \/ PauseOnDupes \/ WriteShortlist \/ LoopScreen \/ LoopSeat

Next ==
  \/ StageStep
  \/ \E a \in Angles : AngleStep(a) \/ Rename(a) \/ LoopScout(a)
  \/ Interrupt \/ EditRubric \/ Rerun \/ LoopInterrupt

Spec == Init /\ [][Next]_vars

FairSpec ==
  /\ Spec
  /\ WF_vars(StageStep)
  /\ \A a \in Angles : WF_vars(AngleStep(a)) /\ WF_vars(Rename(a))
-----------------------------------------------------------------------------
(* Properties.                                                             *)

IsBatch(b) == b.ids \subseteq Nat /\ b.rubric \in 0 .. rubric

TypeOK ==
  /\ cards \in [Angles -> Seq(Nat)] /\ rubric \in Nat \ {0}
  /\ \A a \in Angles : IsBatch(batch[a]) /\ \A i \in Parts : IsBatch(part[a][i])
  /\ \A o \in scores : o.angle \in Angles /\ o.ucb \in Nat /\ o.kill \in BOOLEAN
  /\ \A o, p \in scores : o.id = p.id => o = p
  /\ list.finalists \subseteq DOMAIN list.cause
  /\ proc \in {"idle", "screening", "scored", "done", "collision",
               "loop-screen", "loop-seat"}
  /\ \A a \in Angles : unlink[a] \subseteq Parts
  /\ late \in 0 .. rubric /\ lost \cup unseated \subseteq scouted /\ scouted \subseteq Nat

\* Chunking s never drops, repeats or reorders a card, nor makes a chunk too
\* long, too uneven or too many.
ChunkedRight(s, max) ==
  LET c == Chunks(s, max)
  IN  /\ FlattenSeq(c) = s
      /\ \A i, j \in DOMAIN c : Len(c[i]) <= max /\ Len(c[i]) <= Len(c[j]) + 1
      /\ Len(s) > 0 => Len(c) = CeilDiv(Len(s), max)

\* Whatever was interrupted, renamed, rerun or, before scores.yaml is written,
\* edited: scores.yaml has every card of every angle exactly once, all on one
\* rubric, with no option of an earlier batch in it; and chunking an angle's
\* cards is right.  Two things it does not promise, because the code does not.
\* A rubric edited once scores.yaml is there leaves S5's scores on the rubric
\* they were made with (_existing_scores reads them back unseen), so that a
\* later mini-loop's scores may stand beside them on another.  And the cards
\* of a mini-loop that died before its screening are never scored.
EveryCardOnce ==
  /\ scores # {} /\ proc # "loop-screen" =>
       /\ \A o \in scores :
            /\ o.id \in Ids(cards[o.angle])
            /\ o.rubric \in rubric - late .. rubric
            /\ o.id \notin scouted => o.rubric = rubric - late
       /\ \A a \in Angles : \A x \in Ids(cards[a]) :
            Cardinality({o \in scores : o.id = x}) = IF x \in lost THEN 0 ELSE 1
  /\ proc = "idle" /\ rubric = 1 => \A n \in 0 .. 9, max \in 1 .. 4 :
       ChunkedRight([i \in 1 .. n |-> i], max)

\* The shortlist keeps its rule for every screening result, whatever the
\* bounds and kill-risks; on disk it decides each scored option, but those of
\* a mini-loop that died between the two, and stays under the finalist cap
\* through mini-loops.
ShortlistWithinRules ==
  /\ proc = "idle" /\ rubric = 1 /\ reruns = 0 /\ faults = 0 =>
       \A options \in Options : RuleHolds(options, BuildShortlist(options))
  /\ list # NoList =>
       /\ Cardinality(list.finalists) <= MaxFinalists
       /\ \A o \in scores :
            o.id \in DOMAIN list.cause \cup unseated \cup {p.id : p \in loop}

\* Whatever interrupts or edits it, S5 comes to an end, and a mini-loop too.
ScreeningSettles == <>[](proc = "done")

\* "A confirmed kill-risk eliminates the option regardless of score."
NoKilledFinalist == \A o \in scores : o.kill => o.id \notin list.finalists
=============================================================================
