-------------------------------- MODULE Reflow --------------------------------
(***************************************************************************)
(* Reflow (element.c): how a change of one element's size is carried       *)
(* through the tree, rootward as far as sizes change and then leafward.    *)
(***************************************************************************)
EXTENDS Layout

CONSTANTS
  Win, Parent,  \* the window; Parent[e], of every other element
  Removable,    \* elements the application removes and adds again
  Sizes,        \* of texts, and minimal sizes from the style
  Styled,       \* elements whose minimal size changes
  WindowSizes,
  SizeCb, LayoutCb  \* the callbacks of all elements that are tried

VARIABLES
  elem,   \* the fields of every element
  late    \* history: a size changed that no layout has been told of

callbacks == <<size_cb, layout_cb>>
vars == <<callbacks, elem, late>>

-------------------------------------------------------------------------------
\* The beginning of reflow(): the inner rectangle follows the outer.
Update(g, e) == [g EXCEPT ![e].inner = Inset(g[e].rect)]

RECURSIVE Leafward(_, _)

\* reflow(), reflow_leafward
Leafward(g, e) == FoldLeft(Leafward, LayOut(Update(g, e), e), g[e].children)

\* The children of an element, when the size of one of them has changed.
Spread(g, e) == FoldLeft(Leafward, g, g[e].children)

\* Mutation: it is the parent's own size that is compared.
UnchangedSelf(g, h, e, inst) == h[e].rect.size = g[e].rect.size

\* "don't pass the reflow any further rootward if the element's size hasn't
\* changed as a result of it"
Unchanged(g, h, e, inst) == h[inst].rect.size = g[inst].rect.size

RECURSIVE Rootward(_, _, _)

\* The window has no parent.
Upward(g, e) == IF e = Win THEN g ELSE Rootward(g, Parent[e], e)

Carry(g, h, e, inst) == IF Unchanged(g, h, e, inst) THEN h ELSE Upward(Spread(h, e), e)

\* reflow(), reflow_rootward
Rootward(g, e, inst) == Carry(g, LayOut(Update(g, e), e), e, inst)

-------------------------------------------------------------------------------
Kids(e) == SelectSeq(SetToSeq(Elem \ {Win}), LAMBDA k : Parent[k] = e)
Nowhere == [at |-> Zero, size |-> Zero]

Init ==
  /\ size_cb \in SizeCb /\ layout_cb \in LayoutCb
  /\ \E size \in Sizes :
       elem = [e \in Elem |-> [children |-> Kids(e), rect |-> Nowhere, inner |-> Nowhere,
                              min_size |-> Zero, text |-> size]]
  /\ late = TRUE

\* rtb_window_reinit: the window is mapped or resized.
Resize(size) ==
  /\ elem' = Leafward([elem EXCEPT ![Win].rect = [at |-> Zero, size |-> size]], Win)
  /\ late' = FALSE /\ UNCHANGED callbacks

IsOpen == elem[Win].rect.size # Zero

\* Changes are tried in a tree whose layout is up to date (a bound of the model).
Calm == IsOpen /\ ~late
InTree(e) == e \in ToSet(elem[Parent[e]].children)

\* rtb_label_set_text: the text object is made anew, then the parent is reflowed.
SetText(e, size) ==
  /\ Calm /\ InTree(e)
  /\ elem' = Rootward([elem EXCEPT ![e].text = size], Parent[e], e)
  /\ UNCHANGED <<callbacks, late>>

\* reload_style: min-width or min-height changes.
Restyle(e, least) ==
  /\ Calm
  /\ elem' = Rootward([elem EXCEPT ![e].min_size = least], Parent[e], e)
  /\ UNCHANGED <<callbacks, late>>

\* rtb_window_set_scale: labels are measured again, in the midst of the reflow,
\* after the layout that places them.
Rescale(sizes) ==
  /\ Calm
  /\ LET laid == Leafward(elem, Win)
     IN  elem' = [e \in Elem |-> IF e \in Text THEN [laid[e] EXCEPT !.text = sizes[e]] ELSE laid[e]]
  /\ late' = TRUE /\ UNCHANGED callbacks

\* rtb_elem_add_child. A child that has the size already that it is now given,
\* having been in a tree before, stops the reflow.
add_child(e) ==
  /\ IsOpen /\ ~InTree(e)
  /\ LET g == [elem EXCEPT ![Parent[e]].children = Append(@, e)] IN
     /\ elem' = Rootward(g, Parent[e], e)
     /\ late' = (late \/ Unchanged(g, elem', Parent[e], e))
  /\ UNCHANGED callbacks

\* rtb_elem_remove_child reflows leafward only: what is around is not told that
\* the parent could be smaller.
remove_child(e) ==
  /\ Calm /\ InTree(e)
  /\ elem' = Leafward([elem EXCEPT ![Parent[e]].children = Remove(@, e)], Parent[e])
  /\ late' = TRUE /\ UNCHANGED callbacks

Next ==
  \/ \E size \in WindowSizes : Resize(size)
  \/ \E e \in Text, size \in Sizes : SetText(e, size)
  \/ \E e \in Styled, least \in Sizes : Restyle(e, least)
  \/ \E sizes \in [Text -> Sizes] : Rescale(sizes)
  \/ \E e \in Removable : add_child(e) \/ remove_child(e)

Spec == Init /\ [][Next]_vars

-------------------------------------------------------------------------------
Rect(e)  == elem[e].rect
Inner(e) == elem[e].inner
Laid == {e \in Elem : layout_cb[e] # "unmanaged" /\ elem[e].children # <<>>}
AxisOf(e) == IF layout_cb[e] \in {"vpack_top", "vpack_middle", "vpack_bottom"} THEN "v" ELSE "h"

\* The room left along the axis before the first and after the last child.
Before(e) == Start(Rect(Head(elem[e].children)), AxisOf(e)) - Start(Inner(e), AxisOf(e))
After(e)  == Finish(Inner(e), AxisOf(e)) - Finish(Rect(Last(elem[e].children)), AxisOf(e))

\* The types of the variables.
TypeOK ==
  /\ late \in BOOLEAN
  /\ \A e \in Elem :
       /\ ToSet(elem[e].children) \subseteq {k \in Elem \ {Win} : Parent[k] = e}
       /\ \A r \in {Rect(e), Inner(e)}, a \in Axis : r.at[a] \in Int /\ r.size[a] \in Int

\* However a change was carried through the tree, the tree is as if it had been
\* laid out from the window down: reflow_rootward stops in time, not too soon.
Settled == ~late => Leafward(elem, Win) = elem

\* Siblings keep their order and the padding between them, whatever overflows.
Ordered ==
  ~late => \A e \in Laid : \A i \in 2 .. Len(elem[e].children) :
    Start(Rect(elem[e].children[i]), AxisOf(e))
      >= Finish(Rect(elem[e].children[i - 1]), AxisOf(e)) + InnerPad

\* Children that fit are within the inner rectangle, justified as the layout says,
\* the distributed ones with even gaps; those that do not begin at its beginning
\* and leave it at its end only.
Justified ==
  ~late => \A e \in Laid :
    \/ Before(e) = 0 /\ After(e) < 0
    \/ /\ Before(e) >= 0 /\ After(e) >= 0
       /\ layout_cb[e] \in {"vpack_top", "hpack_left"} => Before(e) = 0
       /\ layout_cb[e] \in {"vpack_bottom", "hpack_right"} => After(e) = 0
       /\ layout_cb[e] \in {"vpack_middle", "hpack_center"} => After(e) - Before(e) \in 0 .. 1
       /\ layout_cb[e] = "hdistribute" /\ Len(elem[e].children) > 1 => Before(e) = 0 /\ After(e) = 0

\* Of every packed element's children: in order, apart, and where the layout
\* function puts them (layout.c).
Packed == TypeOK /\ Ordered /\ Justified
===============================================================================
