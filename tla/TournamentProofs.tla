-------------------------- MODULE TournamentProofs --------------------------
(***************************************************************************)
(* What the tournament keeps for any options, boards, scores and weights,  *)
(* and any number of interrupted passes, feedbacks, champions and reruns.  *)
(*                                                                         *)
(* Four parts: the types, where a command that dies starts again           *)
(* (Resumption), the boards and the log between them (Explained, which     *)
(* needs both) and the cases (Drawn).                                      *)
(***************************************************************************)
EXTENDS Tournament, Sequences, TLAPS

\* A board's update and a board's feedback write different parts of a record.
LEMMA UpdatesCommute ==
  ASSUME NEW board, NEW updates, NEW records
  PROVE  ApplySlots(ApplyUpdates(board, updates), records)
           = ApplyUpdates(ApplySlots(board, records), updates)
BY DEF ApplySlots, ApplyUpdates

LEMMA OwedFacts ==
  ASSUME NEW board, DOMAIN board \subseteq Options
  PROVE  Owed(board) \subseteq Cases
<1> DEFINE adj == Adjusted(board, WD, WP)
           dest == Destination(board, WD, WP)
<1>1. DOMAIN adj = DOMAIN board
  BY DEF Adjusted
<1> HIDE DEF adj, dest
<1>2. Top(adj, 3) \subseteq Options /\ SteelmanDocket(dest, adj) \subseteq Options
  BY <1>1 DEF Top, SteelmanDocket
<1> QED
  BY <1>2 DEF Owed, Cases, adj, dest

-----------------------------------------------------------------------------
(* Type correctness.                                                       *)

LEMMA BoardFacts ==
  ASSUME NEW board, BoardOK(board)
  PROVE  /\ \A updates : updates \in [DOMAIN updates -> Scores] =>
              BoardOK(ApplyUpdates(board, updates))
         /\ \A records : records \in [DOMAIN records -> Records] =>
              BoardOK(ApplySlots(board, records))
         /\ \A x : DOMAIN ApplyUpdates(board, x) = DOMAIN board
         /\ \A x : DOMAIN ApplySlots(board, x) = DOMAIN board
<1>1. ASSUME NEW updates, updates \in [DOMAIN updates -> Scores]
      PROVE  BoardOK(ApplyUpdates(board, updates))
  BY <1>1 DEF BoardOK, ApplyUpdates, Records
<1>2. ASSUME NEW records, records \in [DOMAIN records -> Records]
      PROVE  BoardOK(ApplySlots(board, records))
  BY <1>2 DEF BoardOK, ApplySlots, Records
<1> QED
  BY <1>1, <1>2 DEF ApplyUpdates, ApplySlots

LEMMA MovesFacts ==
  ASSUME NEW board, NEW S, NEW m \in Moves(board, S)
  PROVE  DOMAIN m \subseteq DOMAIN board /\ m \in [DOMAIN m -> S]
BY DEF Moves

\* Nothing amended, nothing returned: the log and the feedback of a new pass.
LEMMA NothingFacts ==
  ASSUME NEW S
  PROVE  DOMAIN << >> = {} /\ << >> \in [DOMAIN << >> -> S]
<1>1. << >> \in Seq(S) /\ Len(<< >>) = 0
  OBVIOUS
<1>2. DOMAIN << >> = {}
  BY <1>1
<1>3. << >> \in [1 .. 0 -> S]
  BY <1>1
<1> QED
  BY <1>2, <1>3

LEMMA NextType ==
  ASSUME TypeOK, [Next]_vars
  PROVE  TypeOK'
<1>0. Owed(dive) \cup {Frame} \subseteq Cases
  BY OwedFacts DEF TypeOK, BoardOK, Cases
<1>1. CASE S7Step
  <2>1. CASE SkipS7
    BY <2>1 DEF SkipS7, TypeOK, files, past, Points, Rests, BoardOK
  <2>2. CASE DrawCases
    BY <1>0, <2>2 DEF DrawCases, Missing, TypeOK, files, past, Points, Rests, BoardOK
  <2>3. CASE Judge
    <3>1. DOMAIN log' \subseteq DOMAIN dive /\ log' \in [DOMAIN log' -> Scores]
      BY <2>3, MovesFacts DEF Judge
    <3> QED
      BY <2>3, <3>1 DEF Judge, TypeOK, past, Points, Rests, BoardOK
  <2>4. CASE ReuseRuling
    BY <2>4 DEF ReuseRuling, TypeOK, files, past, Points, Rests, BoardOK
  <2>5. CASE Settle
    <3>1. tour' = ApplyUpdates(dive, log)
      BY <2>5 DEF Settle
    <3>2. BoardOK(ApplyUpdates(dive, log)) /\ DOMAIN ApplyUpdates(dive, log) = DOMAIN dive
      BY BoardFacts DEF TypeOK
    <3>3. BoardOK(tour)' /\ DOMAIN tour' = DOMAIN dive
      BY <3>1, <3>2 DEF BoardOK
    <3> QED
      BY <2>5, <3>3 DEF Settle, TypeOK, past, Points, Rests, BoardOK
  <2> QED
    BY <1>1, <2>1, <2>2, <2>3, <2>4, <2>5 DEF S7Step
<1>2. ASSUME NEW case \in Cases, CaseMade(case) PROVE TypeOK'
  BY <1>2 DEF CaseMade, OthersTodo, TypeOK, past, BoardOK
<1>3. CASE AgentFails
  BY <1>3 DEF AgentFails, AfterFailure, TypeOK, files, past, Points, Rests, BoardOK
<1>4. CASE LoopFails
  BY <1>4 DEF LoopFails, TypeOK, files, past, Points, Rests, BoardOK
<1>5. CASE Crash
  <2>1. UNCHANGED <<files, drawn, resume>> /\ pc' = resume /\ todo' = {}
    BY <1>5 DEF Crash
  <2>2. cut' \in {"no", "loop", "deletion"}
    BY <1>5 DEF Crash, LeftHalfDone, TypeOK
  <2>3. DOMAIN slots' = {} /\ slots' \in [DOMAIN slots' -> Records]
    BY <1>5, NothingFacts DEF Crash
  <2>4. used' \in [feedback: Nat, faults: Nat, reruns: Nat]
    BY <1>5 DEF Crash, TypeOK
  <2> QED
    BY <2>1, <2>2, <2>3, <2>4 DEF TypeOK, files, Points, BoardOK
<1>6. CASE Feedback
  <2>1. DOMAIN slots' \subseteq DOMAIN tour /\ slots' \in [DOMAIN slots' -> Records]
    BY <1>6, MovesFacts DEF Feedback
  <2>2. BoardOK(ApplySlots(tour, slots')) /\ DOMAIN ApplySlots(tour, slots') = DOMAIN tour
    BY <2>1, BoardFacts DEF TypeOK
  <2>3. BoardOK(tour)' /\ DOMAIN tour' = DOMAIN tour
    BY <1>6, <2>2 DEF Feedback, BoardOK
  <2> QED
    BY <1>6, <2>1, <2>3 DEF Feedback, TypeOK, past, Points, Rests, BoardOK
<1>7. CASE SaveSlots
  <2>1. BoardOK(ApplySlots(dive, slots)) /\ DOMAIN ApplySlots(dive, slots) = DOMAIN dive
    BY BoardFacts DEF TypeOK
  <2>2. BoardOK(dive)' /\ DOMAIN dive' = DOMAIN dive
    BY <1>7, <2>1 DEF SaveSlots, BothBoards, BoardOK
  <2> QED
    BY <1>7, <2>2 DEF SaveSlots, TypeOK, past, Points, Rests, BoardOK
<1>8. ASSUME NEW o \in Options, NEW rec \in Records, MergeChampion(o, rec)
      PROVE  TypeOK'
  <2>1. BoardOK(dive)' /\ DOMAIN dive \subseteq DOMAIN dive'
    BY <1>8 DEF MergeChampion, TypeOK, BoardOK
  <2> QED
    BY <1>8, <2>1 DEF MergeChampion, TypeOK, past, Points, Rests, BoardOK
<1>9. CASE SaveLoop
  BY <1>9 DEF SaveLoop, TypeOK, files, past, Points, BoardOK
<1>10. CASE RerunS7
  BY <1>10 DEF RerunS7, TypeOK, files, past, Points, BoardOK
<1>11. CASE DeleteFiles
  <2>1. cases' \subseteq cases
    BY <1>11 DEF DeleteFiles
  <2>2. /\ DOMAIN log' \subseteq DOMAIN dive /\ log' \in [DOMAIN log' -> Scores]
        /\ ruled' \in BOOLEAN
    BY <1>11, NothingFacts DEF DeleteFiles, TypeOK
  <2>3. BoardOK(tour)' /\ DOMAIN tour' \subseteq DOMAIN dive /\ settled' \in BOOLEAN
    BY <1>11 DEF DeleteFiles, TypeOK, BoardOK
  <2> QED
    BY <1>11, <2>1, <2>2, <2>3 DEF DeleteFiles, TypeOK, past, BoardOK
<1>12. CASE SaveInvalidation
  BY <1>12 DEF SaveInvalidation, TypeOK, files, past, Points, Rests, BoardOK
<1>13. CASE Approve
  BY <1>13 DEF Approve, TypeOK, files, past, Points, Rests, BoardOK
<1>14. CASE Synthesise
  BY <1>14 DEF Synthesise, TypeOK, files, past, Points, Rests, BoardOK
<1>15. CASE UNCHANGED vars
  BY <1>15 DEF vars, files, past, TypeOK, BoardOK
<1> QED
  BY <1>1, <1>2, <1>3, <1>4, <1>5, <1>6, <1>7, <1>8, <1>9, <1>10, <1>11, <1>12, <1>13,
     <1>14, <1>15 DEF Next, Invalidation

\* Boards, log and feedback stay records over the options a board has: an
\* update or a feedback never names an option that is not ranked.
THEOREM TypeCorrect == Spec => []TypeOK
<1>1. Init => TypeOK
  <2> SUFFICES ASSUME Init PROVE TypeOK
    OBVIOUS
  <2>1. BoardOK(dive) /\ tour = dive
    BY TournamentAssumption DEF TournamentAssumption, Init, BoardOK
  <2>2. DOMAIN log = {} /\ log \in [DOMAIN log -> Scores]
    BY NothingFacts DEF Init
  <2>3. DOMAIN slots = {} /\ slots \in [DOMAIN slots -> Records]
    BY NothingFacts DEF Init
  <2>4. used \in [feedback: Nat, faults: Nat, reruns: Nat]
    BY DEF Init
  <2> QED
    BY <2>1, <2>2, <2>3, <2>4 DEF Init, TypeOK, Points, Rests, BoardOK
<1>2. TypeOK /\ [Next]_vars => TypeOK'
  BY NextType
<1> QED
  BY <1>1, <1>2, PTL DEF Spec

-----------------------------------------------------------------------------
(* The boards and the log between them.                                    *)

\* S8's board is ranked over options of S6's, with the estimates the log
\* makes of theirs.
EstimatesExplained ==
  /\ DOMAIN tour \subseteq DOMAIN dive
  /\ \A o \in DOMAIN tour : tour[o].dest = Ruled(o)

\* A command that dies starts again from the rest it began at.
Resumption ==
  /\ pc \in Points /\ resume \in Rests
  /\ pc \in {"gather", "settle"} => resume = "s7"
  /\ pc \in {"slots", "merged"} => resume = "gate"

LEMMA NextResumption ==
  ASSUME Resumption, [Next]_vars
  PROVE  Resumption'
BY DEF Resumption, Points, Rests, Next, S7Step, vars, SkipS7, DrawCases, Judge,
   ReuseRuling, Settle, CaseMade, AgentFails, AfterFailure, LoopFails, Crash, Feedback,
   SaveSlots, MergeChampion, SaveLoop, RerunS7, Invalidation, DeleteFiles,
   SaveInvalidation, Approve, Synthesise

\* A settled board is a ruled one, and the log explains it unless feedback is
\* between its two writes; then it explains what feedback is applied to.  A
\* loop that was cut short moved no estimate; nothing is said of a tree that
\* is being deleted, or was when its process died.
Explained ==
  /\ pc = "settle" => ruled
  /\ cut # "deletion" /\ pc # "inv" =>
       /\ pc \in {"slots", "merged", "gate", "s8", "done"} => settled
       /\ settled => ruled /\ EstimatesExplained
  /\ cut = "no" /\ settled =>
       /\ pc \notin {"slots", "merged", "inv"} => tour = ApplyUpdates(dive, log)
       /\ pc = "slots" => tour = ApplySlots(ApplyUpdates(dive, log), slots)

LEMMA EstimatesFacts ==
  ASSUME TypeOK
  PROVE  /\ tour = ApplyUpdates(dive, log) => EstimatesExplained
         /\ EstimatesExplained =>
              \A o \in Options, rec \in Records :
                MergeChampion(o, rec) => EstimatesExplained'
         /\ EstimatesExplained /\ Feedback => EstimatesExplained'
         /\ EstimatesExplained /\ SaveSlots => EstimatesExplained'
<1>1. tour = ApplyUpdates(dive, log) => EstimatesExplained
  BY DEF EstimatesExplained, ApplyUpdates, Ruled, TypeOK, BoardOK, Records
<1>2. ASSUME NEW o \in Options, NEW rec \in Records, EstimatesExplained, MergeChampion(o, rec)
      PROVE  EstimatesExplained'
  BY <1>2 DEF EstimatesExplained, MergeChampion, Ruled
<1>3. EstimatesExplained /\ Feedback => EstimatesExplained'
  BY DEF EstimatesExplained, Feedback, ApplySlots, Ruled
<1>4. EstimatesExplained /\ SaveSlots => EstimatesExplained'
  BY DEF EstimatesExplained, SaveSlots, BothBoards, ApplySlots, Ruled
<1> QED
  BY <1>1, <1>2, <1>3, <1>4

\* Steps that leave the files and what was cut short as they are.
LEMMA SameEstimates ==
  ASSUME UNCHANGED <<dive, tour, log>>
  PROVE  EstimatesExplained' <=> EstimatesExplained
BY DEF EstimatesExplained, Ruled

LEMMA NextExplained ==
  ASSUME Explained, Resumption, TypeOK, [Next]_vars
  PROVE  Explained'
<1>1. CASE S7Step
  <2>1. CASE SkipS7
    BY <2>1, SameEstimates DEF SkipS7, S7Complete, Explained, files, past
  <2>2. CASE DrawCases
    BY <2>2, SameEstimates DEF DrawCases, Explained, files
  <2>3. CASE Judge
    BY <2>3 DEF Judge, Explained, past
  <2>4. CASE ReuseRuling
    BY <2>4, SameEstimates DEF ReuseRuling, Explained, files, past
  <2>5. CASE Settle
    <3>1. (tour = ApplyUpdates(dive, log))' /\ ruled' /\ settled' /\ pc' = "gate"
      BY <2>5 DEF Settle, ApplyUpdates, Explained
    <3>2. EstimatesExplained'
      BY <2>5, <3>1 DEF Settle, EstimatesExplained, ApplyUpdates, Ruled, TypeOK, BoardOK,
         Records
    <3> QED
      BY <3>1, <3>2 DEF Explained
  <2> QED
    BY <1>1, <2>1, <2>2, <2>3, <2>4, <2>5 DEF S7Step
<1>2. ASSUME NEW case \in Cases, CaseMade(case) PROVE Explained'
  BY <1>2, SameEstimates DEF CaseMade, Explained, past
<1>3. CASE AgentFails
  BY <1>3, SameEstimates DEF AgentFails, AfterFailure, Explained, files, past
<1>4. CASE LoopFails
  BY <1>4, SameEstimates DEF LoopFails, Explained, files, past
<1>5. CASE Crash
  <2>1. UNCHANGED files /\ pc' = resume /\ cut' = LeftHalfDone
    BY <1>5 DEF Crash
  <2>2. EstimatesExplained' <=> EstimatesExplained
    BY <2>1, SameEstimates DEF files
  <2>3. pc' # "settle"
    BY <2>1 DEF Resumption, Rests
  <2>4. CASE pc = "inv"
    BY <2>1, <2>3, <2>4 DEF LeftHalfDone, Explained
  <2>5. CASE pc \in {"slots", "merged"}
    BY <2>1, <2>2, <2>5 DEF LeftHalfDone, Explained, Resumption, files
  <2>6. CASE pc \in {"gather", "settle"}
    BY <2>1, <2>2, <2>6 DEF LeftHalfDone, Explained, Resumption, files
  <2>7. pc \in {"gather", "settle", "slots", "merged", "inv"}
    BY <1>5, TournamentAssumption DEF Crash, TournamentAssumption, Points
  <2> QED
    BY <2>4, <2>5, <2>6, <2>7
<1>6. CASE Feedback
  BY <1>6, EstimatesFacts DEF Feedback, Explained, past
<1>7. CASE SaveSlots
  <2>1. tour = ApplySlots(ApplyUpdates(dive, log), slots) =>
          tour' = ApplyUpdates(ApplySlots(dive, slots), log)
    BY <1>7, UpdatesCommute DEF SaveSlots
  <2> QED
    BY <1>7, <2>1, EstimatesFacts DEF SaveSlots, BothBoards, Explained, past
<1>8. ASSUME NEW o \in Options, NEW rec \in Records, MergeChampion(o, rec)
      PROVE  Explained'
  BY <1>8, EstimatesFacts DEF MergeChampion, Explained, past
<1>9. CASE SaveLoop
  BY <1>9 DEF SaveLoop, Explained, files, past
<1>10. CASE RerunS7
  BY <1>10 DEF RerunS7, Explained, files, past
<1>11. CASE DeleteFiles
  BY <1>11 DEF DeleteFiles, Explained, past
<1>12. CASE SaveInvalidation
  BY <1>12 DEF SaveInvalidation, Explained, files, past
<1>13. CASE Approve
  BY <1>13, SameEstimates DEF Approve, Explained, files, past
<1>14. CASE Synthesise
  BY <1>14, SameEstimates DEF Synthesise, Explained, files, past
<1>15. CASE UNCHANGED vars
  BY <1>15, SameEstimates DEF vars, files, past, Explained
<1> QED
  BY <1>1, <1>2, <1>3, <1>4, <1>5, <1>6, <1>7, <1>8, <1>9, <1>10, <1>11, <1>12, <1>13,
     <1>14, <1>15 DEF Next, Invalidation

\* Over any passes, failures, feedbacks, merged champions, reruns and deaths
\* at any of their writes, the judge's log explains the difference of the two
\* boards at Gate C and after it; a death within a loop may leave a preference
\* or a champion on one board only, and no estimate the log does not explain.
\* The tree of a deletion that was cut short is the one exception.
THEOREM LogExplains == Spec => []TournamentExplained
<1>1. Init => Explained /\ Resumption
  BY DEF Init, Explained, Resumption, Points, Rests
<1>2. Explained /\ Resumption /\ TypeOK /\ [Next]_vars => Explained' /\ Resumption'
  BY NextExplained, NextResumption
<1>3. Explained => TournamentExplained
  BY DEF Explained, EstimatesExplained, TournamentExplained
<1> QED
  BY <1>1, <1>2, <1>3, TypeCorrect, PTL DEF Spec

-----------------------------------------------------------------------------
(* The cases.                                                              *)

\* While the fan-out runs, what was drawn is made or still to be made, of the
\* board as it is; once it is over, it is made.  A pass that was cut short is
\* taken up with the board it drew from, or over an empty tree.
Drawn ==
  /\ pc = "gather" =>
       drawn = Owed(dive) \cup {Frame} /\ drawn \subseteq cases \cup todo
  /\ pc = "settle" => drawn \subseteq cases
  /\ pc \in {"slots", "merged", "gate", "s8", "done"} /\ cut # "deletion" =>
       drawn \subseteq cases
  /\ pc = "s7" /\ cut # "deletion" =>
       ~settled \/ drawn \subseteq cases \/ drawn = Owed(dive) \cup {Frame}

LEMMA NextDrawn ==
  ASSUME Drawn, Resumption, [Next]_vars
  PROVE  Drawn'
<1>1. CASE S7Step
  <2>1. CASE SkipS7
    BY <2>1 DEF SkipS7, S7Complete, Drawn, files, past
  <2>2. CASE DrawCases
    BY <2>2 DEF DrawCases, Missing, Drawn, files
  <2>3. CASE Judge
    BY <2>3 DEF Judge, Drawn, past
  <2>4. CASE ReuseRuling
    BY <2>4 DEF ReuseRuling, Drawn, files, past
  <2>5. CASE Settle
    BY <2>5 DEF Settle, Drawn
  <2> QED
    BY <1>1, <2>1, <2>2, <2>3, <2>4, <2>5 DEF S7Step
<1>2. ASSUME NEW case \in Cases, CaseMade(case) PROVE Drawn'
  BY <1>2 DEF CaseMade, OthersTodo, Drawn, past
<1>3. CASE AgentFails
  BY <1>3 DEF AgentFails, AfterFailure, Drawn, files, past
<1>4. CASE LoopFails
  BY <1>4 DEF LoopFails, Drawn, files, past
<1>5. CASE Crash
  <2>1. UNCHANGED <<files, drawn>> /\ pc' = resume /\ cut' = LeftHalfDone
    BY <1>5 DEF Crash
  <2>2. Owed(dive)' = Owed(dive)
    BY <2>1 DEF files
  <2>3. pc' \notin {"gather", "settle"}
    BY <2>1 DEF Resumption, Rests
  <2>4. CASE pc = "inv"
    BY <2>1, <2>3, <2>4 DEF LeftHalfDone, Drawn
  <2>5. CASE pc \in {"slots", "merged"}
    BY <2>1, <2>3, <2>5 DEF LeftHalfDone, Drawn, Resumption, files
  <2>6. CASE pc \in {"gather", "settle"}
    BY <2>1, <2>2, <2>3, <2>6 DEF LeftHalfDone, Drawn, Resumption, files
  <2>7. pc \in {"gather", "settle", "slots", "merged", "inv"}
    BY <1>5, TournamentAssumption DEF Crash, TournamentAssumption, Points
  <2> QED
    BY <2>4, <2>5, <2>6, <2>7
<1>6. CASE Feedback
  BY <1>6 DEF Feedback, Drawn, past
<1>7. CASE SaveSlots
  BY <1>7 DEF SaveSlots, Drawn, past
<1>8. ASSUME NEW o \in Options, NEW rec \in Records, MergeChampion(o, rec)
      PROVE  Drawn'
  BY <1>8 DEF MergeChampion, Drawn, past
<1>9. CASE SaveLoop
  BY <1>9 DEF SaveLoop, Drawn
<1>10. CASE RerunS7
  BY <1>10 DEF RerunS7, Drawn
<1>11. CASE DeleteFiles
  BY <1>11 DEF DeleteFiles, Drawn
<1>12. CASE SaveInvalidation
  BY <1>12 DEF SaveInvalidation, Drawn, files
<1>13. CASE Approve
  BY <1>13 DEF Approve, Drawn, files, past
<1>14. CASE Synthesise
  BY <1>14 DEF Synthesise, Drawn, files, past
<1>15. CASE UNCHANGED vars
  BY <1>15 DEF vars, files, past, Drawn
<1> QED
  BY <1>1, <1>2, <1>3, <1>4, <1>5, <1>6, <1>7, <1>8, <1>9, <1>10, <1>11, <1>12, <1>13,
     <1>14, <1>15 DEF Next, Invalidation

LEMMA DrawnInvariant == Spec => []Drawn
<1>1. Init => Drawn /\ Resumption
  BY DEF Init, Drawn, Resumption, Points, Rests
<1>2. Drawn /\ Resumption /\ [Next]_vars => Drawn' /\ Resumption'
  BY NextDrawn, NextResumption
<1> QED
  BY <1>1, <1>2, PTL DEF Spec

\* What S7 asked for is on disk when it settles and stays there unless a
\* process died deleting it, so S8 can only miss a case that nobody drew.
THEOREM CasesMade == Spec => []DrawnCasesMade
<1>1. Drawn => DrawnCasesMade
  BY DEF Drawn, DrawnCasesMade
<1> QED
  BY <1>1, DrawnInvariant, PTL

\* The judge never rules while a prosecution, a steelman or the frame check of
\* the board it rules on is missing.
THEOREM JudgeIsLast == Spec => JudgeSawAll
<1>1. Drawn /\ [Next]_vars => (ruled' /\ ~ruled => Owed(dive) \cup {Frame} \subseteq cases)
  <2> SUFFICES ASSUME Drawn, [Next]_vars, ruled', ~ruled
               PROVE  Owed(dive) \cup {Frame} \subseteq cases
    OBVIOUS
  <2>1. Judge
    BY DEF Next, S7Step, vars, files, SkipS7, DrawCases, ReuseRuling, Settle, CaseMade,
       AgentFails, LoopFails, Crash, Feedback, SaveSlots, MergeChampion, SaveLoop,
       RerunS7, Invalidation, DeleteFiles, SaveInvalidation, Approve, Synthesise
  <2> QED
    BY <2>1 DEF Judge, Drawn
<1> QED
  BY <1>1, DrawnInvariant, PTL DEF Spec, JudgeSawAll
=============================================================================
