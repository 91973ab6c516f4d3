---------------------------- MODULE RedrawService -----------------------------
(***************************************************************************)
(* What the redraw pipeline promises its users, with no queue, surface or  *)
(* dirty flag: a request made before a frame begins to draw is served by   *)
(* that frame, and one made while it draws by the next one at the latest   *)
(* (surface.c: "we'll move them to the main queue for next frame").        *)
(***************************************************************************)
CONSTANT Elem

VARIABLES
  due,    \* the requests the next frame to draw has to serve
  later,  \* those made while the current frame draws
  phase   \* "rest", "opening" (handlers run, nothing drawn yet), "drawing"

service == <<due, later, phase>>

Init == due = {} /\ later = {} /\ phase = "rest"

\* A request outside of drawing is due at once, and stays due.
Request ==
  /\ phase # "drawing"
  /\ due \subseteq due' /\ due' \subseteq Elem
  /\ UNCHANGED <<later, phase>>

Begin == phase = "rest" /\ phase' = "opening" /\ UNCHANGED <<due, later>>

\* A frame may draw nothing only if nothing is due.
Skip ==
  /\ phase = "opening" /\ due = {}
  /\ phase' = "rest"
  /\ UNCHANGED <<due, later>>

\* Drawing serves what is due; requests made meanwhile are kept apart.
Draw ==
  /\ phase \in {"opening", "drawing"} /\ phase' = "drawing"
  /\ due' \subseteq due
  /\ later' \subseteq Elem

\* A frame that has drawn leaves nothing that was due.
End ==
  /\ phase = "drawing" /\ due = {}
  /\ phase' = "rest"
  /\ due' = later /\ later' = {}

Next == Request \/ Begin \/ Skip \/ Draw \/ End

Spec == Init /\ [][Next]_service
===============================================================================
