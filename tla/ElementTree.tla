----------------------------- MODULE ElementTree -----------------------------
(***************************************************************************)
(* The element tree of one window, once it is built: who contains whom,    *)
(* which elements are surfaces (elements with a render queue of their      *)
(* own), and, for every element, the surface it is drawn on and the        *)
(* element that has to be repainted when it changes.                       *)
(*                                                                         *)
(* The window (Win) and its overlay surface (Overlay) are the two roots:   *)
(* both are their own `surface`.                                           *)
(***************************************************************************)
EXTENDS Naturals, FiniteSets

CONSTANTS
  Elem,     \* every rtb_element of the window, the surfaces included
  Surface,  \* those that are an rtb_surface
  Win,      \* the rtb_window
  Overlay,  \* its overlay_surface
  Parent,   \* Parent[e]: elem->parent, for every element but the roots
  Above,    \* Above[e]: the elements reached from e by following `parent`
  Opaque    \* those whose stylequad has a bg_color

Roots == {Win, Overlay}

ASSUME TreeAssumption ==
  /\ IsFiniteSet(Elem)
  /\ Surface \subseteq Elem
  /\ Win \in Surface /\ Overlay \in Surface /\ Win # Overlay
  /\ Parent \in [Elem \ Roots -> Elem]
  /\ Above \in [Elem -> SUBSET Elem]
  /\ \A r \in Roots : Above[r] = {}
  /\ \A e \in Elem \ Roots : /\ Above[e] = {Parent[e]} \cup Above[Parent[e]]
                             /\ e \notin Above[e]
  /\ \A e \in Elem : \A a \in Above[e] : Above[a] \subseteq Above[e]
  /\ Opaque \subseteq Elem

\* elem->surface: the first surface met on the way to the root.
SurfaceOf ==
  [e \in Elem |->
     IF e \in Roots THEN e
     ELSE CHOOSE s \in Above[e] \cap Surface :
            Above[e] \cap Surface \subseteq {s} \cup Above[s]]

\* The elements strictly between e and its surface.
Between(e) == {a \in Above[e] : SurfaceOf[e] \in Above[a]}

\* rtb_elem_is_clearable: nothing between e and its surface paints a
\* background that clearing e would damage.
Clearable(e) == Between(e) \cap Opaque = {}

\* Mutation of Target: the walk misses the clearable child and stops at the
\* surface.
TargetSurface == [e \in Elem \ Roots |-> SurfaceOf[e]]

\* Where the walk of mark_dirty() stops: the nearest clearable element,
\* e itself included.
Target ==
  [e \in Elem \ Roots |->
     CHOOSE t \in {e} \cup Between(e) :
       /\ Clearable(t)
       /\ \A u \in {e} \cup Between(e) :
            Clearable(u) => u = t \/ u \in Above[t]]

\* The elements drawn straight on surface s, nested surfaces (but not what
\* they contain) included.
Inside(s) == {e \in Elem \ Roots : SurfaceOf[e] = s}

\* The part of them that rtb_elem_draw(e) reaches: e and what is below it.
Below(e) == {d \in Inside(SurfaceOf[e]) : d = e \/ e \in Above[d]}

\* The root a given element hangs from.
RootOf(e) == IF Overlay \in {e} \cup Above[e] THEN Overlay ELSE Win

\* Every finite tree whose roots are surfaces has these two: a nearest
\* surface, and a nearest clearable element drawn on that surface (a child of
\* the surface is always clearable).
ASSUME NearestAssumption ==
  \A e \in Elem \ Roots :
    /\ \E s \in Above[e] \cap Surface :
         Above[e] \cap Surface \subseteq {s} \cup Above[s]
    /\ \E t \in {e} \cup Between(e) :
         /\ Clearable(t)
         /\ \A u \in {e} \cup Between(e) :
              Clearable(u) => u = t \/ u \in Above[t]
==============================================================================
