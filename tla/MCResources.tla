----------------------------- MODULE MCResources -----------------------------
(***************************************************************************)
(* A window, two nodes and a box. A node is a container, as the box is, and*)
(* the styles of both have a font of the same face and size. For TLC.      *)
(***************************************************************************)
EXTENDS Resources

CONSTANTS a1, a2, a3, a4, win, node1, node2, box, NULL, face, file

Chains == [e \in {win, node1, node2, box} |->
             CASE e = win -> <<"element", "window">>
               [] e = box -> <<"element", "container">>
               [] OTHER   -> <<"element", "container", "node">>]
StyleList == <<[for |-> "node", font |-> face], [for |-> "container", font |-> face],
               [for |-> "element", font |-> NULL]>>
Addresses == {a1, a2, a3, a4}
Symmetry == Permutations(Addresses) \cup Permutations({node1, node2})
Keys == [f \in (1 .. 3) \cup {file} |-> IF f = file THEN file ELSE face]
===============================================================================
