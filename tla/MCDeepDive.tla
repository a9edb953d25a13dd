----------------------------- MODULE MCDeepDive -----------------------------
(***************************************************************************)
(* Instances of DeepDive for TLC.  Two criteria whose scores can move in   *)
(* opposite directions without moving the total, and three claims, one of  *)
(* them under no criterion.  The first draft leaves a low-confidence claim *)
(* untagged, the second has nothing open and sets the stamp itself.        *)
(***************************************************************************)
EXTENDS DeepDive

Two == {"f1", "f2"}
One == {"f1"}
MCClaims == {"c1", "c2", "c3"}
MCCriteria == {"k1", "k2"}
MCSection == [k \in MCCriteria |-> IF k = "k1" THEN {"c1"} ELSE {"c2"}]

Rated(a, b) == [k \in MCCriteria |-> IF k = "k1" THEN a ELSE b]
MCBaseline == [f \in Finalists |-> IF f = "f1" THEN Rated(0, 1) ELSE Rated(1, 1)]
OpenDraft == [low |-> {"c1"}, tagged |-> {}, stamp |-> FALSE]
CleanDraft == [low |-> {}, tagged |-> {"c2"}, stamp |-> TRUE]

\* The first finalist has every reply, the second one of each.
MCDrafts == [f \in Finalists |->
  IF f = "f1" THEN {OpenDraft, CleanDraft} ELSE {OpenDraft}]
MCScreens == [f \in Finalists |->
  IF f = "f1" THEN {Rated(0, 1), Rated(1, 0), Rated(1, 1)} ELSE {Rated(1, 0)}]
=============================================================================
