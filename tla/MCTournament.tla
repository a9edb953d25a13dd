---------------------------- MODULE MCTournament ----------------------------
(***************************************************************************)
(* Instances of Tournament for TLC: a board of four whose preferences      *)
(* invert the first two, so that one option is outside the top three, and  *)
(* a board of three with a tie and an option nobody's preferences reach,   *)
(* which the mini-loop's champion may join.                                *)
(***************************************************************************)
EXTENDS Tournament

Rec(d, p) == [dest |-> d, pref |-> p]

MCBoards ==
  {[o \in 1..4 |-> CASE o = 1 -> Rec(2, 0) [] o = 2 -> Rec(1, 2)
                     [] o = 3 -> Rec(0, NoScore) [] o = 4 -> Rec(1, 0)],
   [o \in 1..3 |-> CASE o = 1 -> Rec(2, 1) [] o = 2 -> Rec(2, 1)
                     [] o = 3 -> Rec(1, NoScore)]}

FourOptions == 1..4
LowScores == 0..2
=============================================================================
