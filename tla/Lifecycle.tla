----------------------------- MODULE Lifecycle ------------------------------
(***************************************************************************)
(* What a run promises the person who owns it, with nothing of how the     *)
(* engine does it: nine stages in order, a gate after S1, S4 and S7 that   *)
(* only an approval passes, a bounded number of Gate-C loops, and going    *)
(* back withdraws every approval it goes back over.  Engine implements it  *)
(* (Engine!LifecycleSpec).                                                 *)
(***************************************************************************)
EXTENDS Naturals

CONSTANTS MaxGateCLoops

VARIABLES
  at,        \* the stage the run is at, 0..8, or 9 when it is done
  atGate,    \* waiting at the gate behind that stage
  approved,  \* stages whose gate's approval is in force
  loops      \* Gate-C loops taken

lvars == <<at, atGate, approved, loops>>

GateStages == {1, 4, 7}

LInit == at = 0 /\ atGate = FALSE /\ approved = {} /\ loops = 0

\* A stage finishes; a stage with a gate waits for it.
Finish ==
  /\ ~atGate /\ at <= 8
  /\ IF at \in GateStages
       THEN atGate' = TRUE /\ UNCHANGED at
       ELSE at' = at + 1 /\ UNCHANGED atGate
  /\ UNCHANGED <<approved, loops>>

Approve ==
  /\ atGate
  /\ approved' = approved \cup {at}
  /\ at' = at + 1 /\ atGate' = FALSE
  /\ UNCHANGED loops

\* A Gate-C loop: the gate stays open and the loop is counted for good.
Loop ==
  /\ atGate /\ at = 7 /\ loops < MaxGateCLoops
  /\ loops' = loops + 1
  /\ UNCHANGED <<at, atGate, approved>>

\* A rerun, the loop edges of Gates A and C, and leaving a gate by a pause.
GoBack(s) ==
  /\ s <= at
  /\ at' = s /\ atGate' = FALSE
  /\ approved' = {t \in approved : t < s}
  /\ UNCHANGED loops

LNext == Finish \/ Approve \/ Loop \/ \E s \in 0..8 : GoBack(s)

LSpec == LInit /\ [][LNext]_lvars
=============================================================================
