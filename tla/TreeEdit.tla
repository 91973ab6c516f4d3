--------------------------------- MODULE TreeEdit ---------------------------------
(***************************************************************************)
(* An element tree that changes while it is in use: elements are added to  *)
(* and removed from it, attached to the window or not, and the window      *)
(* refers to elements of it: the one under the pointer, the target of a    *)
(* pressed button, the focus, and those queued to be drawn.                *)
(*                                                                         *)
(* Removable and Addable are what the code needs of the program, and does  *)
(* not look after itself.  One that removes an element sees to it that     *)
(* neither it nor anything in it has the focus or is queued (but for the   *)
(* element itself with another queued behind it), and that a button it     *)
(* holds was not dragged away.  One removed from under the pointer keeps   *)
(* its mouse_in, and is not to be added again.  One removed while queued   *)
(* keeps its links: added again it is never queued, and removed again it   *)
(* would be taken from a queue it is not in.                               *)
(***************************************************************************)
EXTENDS Naturals, FiniteSets, SequencesExt

CONSTANTS Elem, Surface, Win, None

ASSUME TreeEditAssumption ==
  /\ Win \in Surface /\ Surface \subseteq Elem /\ None \notin Elem /\ IsFiniteSet(Elem)

VARIABLES
  kids,      \* each element's list of children
  parent,    \* each element's parent pointer
  attached,  \* the elements whose state is not UNATTACHED
  surf,      \* each element's surface pointer
  styled,    \* the elements with a style
  queue, linked, \* each surface's render queue, and the elements whose links are set
  invalid,   \* the surfaces to be redrawn whole
  under, inside, target, focus \* element_underneath, the elements with mouse_in, the
             \* target of the button that is down, and the focus

tree == << kids, parent, attached, surf, styled >>
drawing == << queue, linked, invalid >>
pointing == << under, inside, target, focus >>
vars == << tree, drawing, pointing >>

Init ==
  /\ kids = [e \in Elem |-> {}] /\ parent = [e \in Elem |-> None]
  /\ attached = {Win} /\ surf = [e \in Elem |-> IF e = Win THEN Win ELSE None]
  /\ styled = {Win}
  /\ queue = [s \in Surface |-> << >>] /\ linked = {} /\ invalid = Surface
  /\ under = Win /\ inside = {} /\ target = None /\ focus = None

\* What next leads to from e, and e: the least set of elements closed under it.
Reach(next, e) ==
  LET Closed == {S \in SUBSET Elem : e \in S /\ \A x \in S : next[x] \subseteq S}
  IN  {x \in Elem : \A S \in Closed : x \in S}

\* Everything below e in the lists ls, and e.
Subtree(ls, e) == Reach(ls, e)

\* e and what the pointers f lead to from it.
Chain(f, e) == Reach([x \in Elem |-> {f[x]} \ {None}], e)

Upward(e) == Chain(parent, e)

rtb_elem_is_in_tree(root, leaf) == leaf # None /\ root \in Upward(leaf)

-----------------------------------------------------------------------------
(* mark_dirty: an element joins its surface's queue unless it is linked or   *)
(* the surface is invalid, and then the surface its own surface's; a surface *)
(* passes the mark on in any case.  The window's mark sets its flag only.    *)
(* Of surface pointers sf, those of this state or of the next.               *)
Takes(sf, e) == e # Win /\ e \notin linked /\ sf[e] # None /\ sf[e] \notin invalid

Marked(sf, e) ==
  IF e \notin Surface /\ ~Takes(sf, e) THEN {}
  ELSE {x \in {e} \cup (Chain(sf, e) \cap Surface) : Takes(sf, x)}

\* The elements of M go to the ends of the queues q, in the order of a walk.
Join(q, sf, M) ==
  LET orders == [s \in Surface |-> SetToSeqs({x \in M : sf[x] = s})] IN
  /\ linked' = linked \cup M
  /\ \E order \in [Surface -> UNION {orders[s] : s \in Surface}] :
       /\ \A s \in Surface : order[s] \in orders[s]
       /\ queue' = [s \in Surface |-> q[s] \o order[s]]

MarkDirty(e) == Join(queue, surf, Marked(surf, e))

(* Some of R marked and then some of the surfaces of S invalidated, an inner *)
(* one before the one it draws on: that one is still valid when it is marked.*)
Redraw(q, R, S) ==
  LET marks == [e \in Elem |-> Marked(surf', e)]
      some == {UNION {marks[e] : e \in A} : A \in SUBSET {e \in R : marks[e] # {}}}
  IN \E M \in some, I \in SUBSET S :
       /\ Join(q, surf', M \cup UNION {marks[e] : e \in I})
       /\ invalid' = invalid \cup I

Ask(e) == /\ e \in attached /\ MarkDirty(e)
          /\ UNCHANGED << tree, invalid, pointing >>

Queued(s) == {queue[s][k] : k \in 1..Len(queue[s])}

\* A frame: every attached surface draws what it has queued, or all of it.
Frame ==
  /\ linked' = linked \ UNION {Queued(s) : s \in Surface \cap attached}
  /\ queue' = [s \in Surface |-> IF s \in attached THEN << >> ELSE queue[s]]
  /\ invalid' = invalid \ attached
  /\ UNCHANGED << tree, pointing >>

-----------------------------------------------------------------------------
\* Mutation: a surface hands its children its own surface, as an element does.
SurfaceForElement(self) == surf[self]

(* child_attached, of an element and of a surface.                           *)
SurfaceFor(self) == IF self \in Surface THEN self ELSE surf[self]

(* attached, all the way down: each element's surface is its parent's or its *)
(* parent itself.  Pointers of the lists ls lead up.                         *)
AttachedSurf(ls, self, child, e) ==
  LET ups == {p \in Subtree(ls, child) : e # p /\ e \in Subtree(ls, p) /\ p \in Surface}
  IN IF ups = {} THEN SurfaceFor(self)
     ELSE SurfaceFor(CHOOSE p \in ups : \A q \in ups : p \in Subtree(ls, q))

Attach(self, child) ==
  LET new == Subtree(kids', child) IN
  /\ attached' = attached \cup new
  /\ parent' = [e \in Elem |-> IF e = child THEN self
                               ELSE IF e \in new THEN CHOOSE p \in new : e \in kids'[p] ELSE parent[e]]
  /\ surf' = [e \in Elem |-> IF e \in new THEN AttachedSurf(kids', self, child, e) ELSE surf[e]]

Loose(e) == e # Win /\ \A p \in Elem : e \notin kids[p]

Addable(child) == Subtree(kids, child) \cap inside = {}

(* rtb_elem_add_child.  Under an attached parent the child is attached, the  *)
(* parent's whole subtree restyled, and the parent laid out again; so is     *)
(* what is above it, as far up as sizes change, and all that is below those. *)
(* Which elements are marked then, and which surfaces invalidated, is left   *)
(* to styles and sizes.                                                      *)
rtb_elem_add_child(self, child) ==
  /\ Loose(child) /\ self \notin Subtree(kids, child) /\ Addable(child)
  /\ kids' = [kids EXCEPT ![self] = @ \cup {child}]
  /\ IF self \in attached
       THEN /\ Attach(self, child)
            /\ styled' = styled \cup Subtree(kids', self)
            /\ Redraw(queue, attached', attached' \cap Surface)
       ELSE UNCHANGED << parent, attached, surf, styled, drawing >>
  /\ UNCHANGED pointing

QueuedBefore(child) ==
  LET q == queue[surf[child]] IN \E k \in 1..Len(q) - 1 : q[k] = child

\* Only an entry with both links set: not the last of its queue.
Unlinked(child) ==
  IF QueuedBefore(child)
    THEN [queue EXCEPT ![surf[child]] = RemoveAt(@, CHOOSE k \in 1..Len(@) : @[k] = child)]
    ELSE queue

\* Mutation: the target is repaired only if it is the child itself.
RepairedExact(self, child) ==
  IF child \in inside
    THEN /\ under' = self
         /\ target' = IF target = child THEN self ELSE target
    ELSE UNCHANGED << under, target >>

Repaired(self, child) ==
  IF child \in inside
    THEN /\ under' = self
         /\ target' = IF rtb_elem_is_in_tree(child, target) THEN self ELSE target
    ELSE UNCHANGED << under, target >>

(* detached, all the way down, and what rtb_elem_remove_child resets.        *)
Detach(child) ==
  LET old == Subtree(kids, child) IN
  /\ attached' = attached \ old
  /\ parent' = [e \in Elem |-> IF e \in old THEN None ELSE parent[e]]
  /\ surf' = [e \in Elem |-> IF e \in old THEN None ELSE surf[e]]
  /\ styled' = styled \ old

Removable(child) ==
  LET old == Subtree(kids, child) IN
  /\ focus \notin old
  /\ \A s \in Surface : Queued(s) \cap old \subseteq {child}
  /\ child \in linked => QueuedBefore(child)
  /\ target \in old => child \in inside

(* rtb_elem_remove_child; laying the parent out again invalidates it and the *)
(* surfaces in it, those that have a size.                                   *)
rtb_elem_remove_child(self, child) ==
  /\ child \in kids[self]
  /\ kids' = [kids EXCEPT ![self] = @ \ {child}]
  /\ IF self \notin attached THEN UNCHANGED << parent, attached, surf, styled, drawing, pointing >>
     ELSE /\ Removable(child)
          /\ Repaired(self, child)
          /\ Detach(child)
          /\ Redraw(Unlinked(child), {}, Subtree(kids', self) \cap Surface)
          /\ UNCHANGED << inside, focus >>

-----------------------------------------------------------------------------

(* retarget: the pointer leaves elements upward from the one underneath,     *)
(* until it is in one, and enters downward from there.                       *)
MoveTo(e) ==
  /\ e \in attached
  /\ LET left == Upward(under) \ Upward(e) IN
     inside' = (inside \ left) \cup (Upward(e) \ Upward(under))
  /\ under' = e
  /\ UNCHANGED << tree, drawing, target, focus >>

Press == /\ target = None /\ target' = under
         /\ UNCHANGED << tree, drawing, under, inside, focus >>
Release == /\ target # None /\ target' = None
           /\ UNCHANGED << tree, drawing, under, inside, focus >>
Focus(e) == /\ e \in attached /\ focus # e /\ focus' = e
            /\ UNCHANGED << tree, drawing, under, inside, target >>

Next ==
  \/ \E e \in Elem : Ask(e) \/ MoveTo(e) \/ Focus(e)
  \/ \E p, c \in Elem : rtb_elem_add_child(p, c) \/ rtb_elem_remove_child(p, c)
  \/ Frame \/ Press \/ Release

Spec == Init /\ [][Next]_vars

-----------------------------------------------------------------------------
\* The types of the variables.
TypeOK ==
  /\ kids \in [Elem -> SUBSET Elem] /\ parent \in [Elem -> Elem \cup {None}]
  /\ attached \subseteq Elem /\ surf \in [Elem -> Surface \cup {None}] /\ styled \subseteq Elem
  /\ queue \in [Surface -> Seq(Elem)]
  /\ linked \subseteq Elem /\ invalid \subseteq Surface
  /\ under \in Elem \cup {None} /\ inside \subseteq Elem
  /\ target \in Elem \cup {None} /\ focus \in Elem \cup {None}

(* The elements attached are those the window's lists lead to, and their     *)
(* parent pointers lead back, whatever was assembled before or after it was  *)
(* attached.                                                                 *)
AttachedAsListed ==
  /\ attached = Subtree(kids, Win)
  /\ \A p \in attached : \A c \in kids[p] : parent[c] = p

(* An attached element draws on the nearest surface above it, though it may  *)
(* have been moved there with all that is in it, and it has a style.         *)
SurfacesNearest ==
  \A e \in attached \ {Win} :
    /\ surf[e] = IF parent[e] \in Surface THEN parent[e] ELSE surf[parent[e]]
    /\ e \in styled

(* The window refers to no element that has left it: not as the one under    *)
(* the pointer, not as a button's target, not as the focus.                  *)
RefersToAttached == {under, target, focus} \ {None} \subseteq attached

(* What a surface of the window has queued is attached and draws on it, and  *)
(* is queued once.                                                           *)
QueuedAreDrawable ==
  \A s \in Surface \cap attached : \A k \in 1..Len(queue[s]) :
    /\ queue[s][k] \in attached /\ surf[queue[s][k]] = s
    /\ \A j \in 1..Len(queue[s]) : queue[s][j] = queue[s][k] => j = k

(* The pointer is inside the element underneath it and inside every element  *)
(* above that one.                                                           *)
InsideUpward == (Upward(under) \ {Win}) \subseteq inside

(* Of the tree itself: whatever is assembled, attached and moved.            *)
TreeSound == TypeOK /\ AttachedAsListed /\ SurfacesNearest

(* Of what refers into it: pointer, buttons, focus and the redraw queues.    *)
ReferencesSound == RefersToAttached /\ QueuedAreDrawable /\ InsideUpward
===============================================================================
