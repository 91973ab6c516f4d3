------------------------------- MODULE MCMouse --------------------------------
(***************************************************************************)
(* A window and pointer positions for TLC.                                 *)
(***************************************************************************)
EXTENDS Mouse

CONSTANTS win, ovl, box, knob, label, menu, none

\* A knob and a label in a box on the window, a menu in the overlay.
Elements == {win, ovl, box, knob, label, menu}
Parents == [e \in {box, knob, label, menu} |->
              CASE e = box -> win [] e \in {knob, label} -> box [] e = menu -> ovl]
Aboves == [e \in Elements |->
             CASE e \in {win, ovl} -> {} [] e = box -> {win}
               [] e \in {knob, label} -> {box, win} [] e = menu -> {ovl}]

\* The window seen from above: bare, on the knob, on the label, on the menu
\* that hides the knob; outside of it, and where the box, but nothing in it,
\* touches the border.
Places == {"knob", "label", "menu", "edge", "out"}
OnScreen == Places \ {"edge", "out"}
Covers == [p \in Places |->
             CASE p = "knob"  -> {win, ovl, box, knob}
               [] p = "label" -> {win, ovl, box, label}
               [] p = "menu"  -> {win, ovl, box, knob, menu}
               [] p = "edge"  -> {win, ovl, box}
               [] p = "out"   -> {}]

\* The focus goes to the knob and the label, by a call between events, by a
\* click (the knob), or by a handler: one of ENTER or LEAVE focuses the label, one
\* of FOCUS another element than its own. Those of UNFOCUS are left out.
Keyed == {knob, label}
Moves == ({"DOWN"} \X Keyed \X Keyed)
           \cup ({"ENTER", "LEAVE"} \X Keyed \X {label})
           \cup {m \in {"FOCUS"} \X Keyed \X Keyed : m[2] # m[3]}
ClickKeyed == {knob}

\* What the theorem on the focus asks for.
ASSUME OrderlyMovesAssumption == OrderlyMoves
===============================================================================
