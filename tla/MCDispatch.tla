----------------------------- MODULE MCDispatch -----------------------------
(***************************************************************************)
(* Instances of Dispatch for TLC.                                          *)
(***************************************************************************)
EXTENDS Dispatch

CONSTANTS i1, i2, i3

ThreeItems == {i1, i2, i3}
TwoItems == {i1, i2}
SmallCaps == {1, 3}
=============================================================================
