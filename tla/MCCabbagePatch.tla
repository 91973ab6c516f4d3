---------------------------- MODULE MCCabbagePatch ----------------------------
(***************************************************************************)
(* A player with one output, a recorder with two inputs, for TLC.          *)
(***************************************************************************)
EXTENDS CabbagePatch

CONSTANTS out, left, right, player, recorder

Ports == {out, left, right}
Outputs == {out}
\* left is named as the beginning of right, which is listed before it.
Founds == [p \in Ports |-> IF p = left THEN right ELSE p]
Owners == [p \in Ports |-> IF p = out THEN player ELSE recorder]
===============================================================================
