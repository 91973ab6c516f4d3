---------------------------- MODULE MCValueElement ----------------------------
(***************************************************************************)
(* A grid of three steps, whose lowest value is off it and whose span the  *)
(* precision does not divide, for TLC.                                     *)
(***************************************************************************)
EXTENDS ValueElement

Grid == {2, 4, 6}
Outside == {-1, 5}
UpDown == {-3, 1}
===============================================================================
