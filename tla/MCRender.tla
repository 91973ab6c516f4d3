------------------------------- MODULE MCRender -------------------------------
(***************************************************************************)
(* Element trees for TLC.                                                  *)
(***************************************************************************)
EXTENDS Render

CONSTANTS win, ovl, box, knob, bay, node, menu

\* A tree given by its child -> parent pairs.
RECURSIVE Climb(_, _)
Climb(up, e) == IF e \in DOMAIN up THEN {up[e]} \cup Climb(up, up[e]) ELSE {}

\* Flat: a knob and a patchbay on the window, a node in the patchbay, a menu
\* in the overlay.
FlatElem == {win, ovl, knob, bay, node, menu}
FlatParent == [e \in {knob, bay, node, menu} |->
                 CASE e \in {knob, bay} -> win [] e = node -> bay [] e = menu -> ovl]
FlatAbove == [e \in FlatElem |-> Climb(FlatParent, e)]
Surfaces == {win, ovl, bay}

\* Deep: a patchbay on the window holds a box with a background colour, the box
\* a knob and a surface of its own (menu), that one a node.
DeepElem == {win, ovl, bay, box, knob, menu, node}
DeepParent == [e \in DeepElem \ {win, ovl} |->
                 CASE e = bay -> win [] e = box -> bay [] e \in {knob, menu} -> box [] e = node -> menu]
DeepAbove == [e \in DeepElem |-> Climb(DeepParent, e)]
DeepSurfaces == Surfaces \cup {menu}
===============================================================================
