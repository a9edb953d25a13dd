----------------------------- MODULE MCScreening -----------------------------
(***************************************************************************)
(* Instances of Screening for TLC: three angles, one of them over the      *)
(* batch size, with and without an id that two angles share.  An id a      *)
(* human renames is the old one plus ten.  With the collision a killed      *)
(* option leaves a seat to the mini-loop, without it none is free.         *)
(***************************************************************************)
EXTENDS Screening

MCPrior == <<8, 5, 6>>
MCCards == {<< <<1, 2, 3>>, <<4>>, <<5>> >>, << <<1, 2, 3>>, <<3>>, <<12>> >>}
SpareIds == {6, 7}
UnknownId == {5, 99}

MCVerdict == [x \in 1 .. 17 |->
  [ucb |-> IF x \in {1, 6, 11} THEN 3 ELSE IF x \in {5, 15} THEN 0 ELSE 2,
   kill |-> x \in {2, 12}]]
KilledLoop == [x \in 1 .. 17 |-> [ucb |-> 3, kill |-> x \in {6, 7}]]

\* Five options of three angles: every bound from below the floor to the top,
\* and confirmed kill-risks.
MCOptions ==
  {{[id |-> x, angle |-> IF x <= 2 THEN 1 ELSE IF x <= 4 THEN 2 ELSE 3,
     ucb |-> IF f[x] = 4 THEN 3 ELSE f[x], kill |-> f[x] = 4] : x \in 1 .. 5} :
   f \in [1 .. 5 -> 0 .. 4]}
=============================================================================
