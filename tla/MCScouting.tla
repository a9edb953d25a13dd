----------------------------- MODULE MCScouting -----------------------------
(***************************************************************************)
(* Instances of Scouting for TLC.  The first angle has most of the budget  *)
(* and can be saturated; the others can name missed options, and all of    *)
(* them can find the option x.                                             *)
(***************************************************************************)
EXTENDS Scouting

MCAngles == <<"a1", "a2", "a3">>
MCWeight == [a \in Ids |-> IF a = "a1" THEN 3 ELSE 1]
AllWeights == [Ids -> 0 .. 4]

MCFound == [a \in Ids |->
  CASE a = "a1" -> {{"x", "y"}} [] a = "a2" -> {{"x"}, {"z"}} [] OTHER -> {{"x"}}]
MCMissed == [a \in Ids |->
  CASE a = "a1" -> {{"u", "v", "w"}} [] a = "a2" -> {{"x"}, {"y", "w"}} [] OTHER -> {{"w"}}]

Saturated == [pct |-> 50, missed |-> TRUE, issues |-> TRUE]
Flawed == [pct |-> 10, missed |-> TRUE, issues |-> TRUE]
Short == [pct |-> 10, missed |-> TRUE, issues |-> FALSE]
Fine == [pct |-> 0, missed |-> FALSE, issues |-> FALSE]
MCReviews == [a \in Ids |->
  CASE a = "a1" -> {Saturated, Fine} [] a = "a2" -> {Flawed, Short} [] OTHER -> {Short, Fine}]
=============================================================================
