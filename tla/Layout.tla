-------------------------------- MODULE Layout --------------------------------
(***************************************************************************)
(* Sizes and positions: the size callbacks and the layouts of layout.c, as *)
(* functions of the fields g[e] of every element e: children, rect and     *)
(* inner_rect (at and size, by axis), min_size, text (a label's text       *)
(* object's size). What is the same along the axes "h" and "v" is said     *)
(* once. Coordinates are integers; rtb_elem_set_position_from_point floors.*)
(***************************************************************************)
EXTENDS Integers, SequencesExt

CONSTANTS
  Elem,
  Text,      \* the labels: their size is that of their text
  OuterPad, InnerPad,
  Align      \* Align[e]: how e is placed across the axis: "start", "middle", "end"

VARIABLES
  size_cb, layout_cb

Axis == {"h", "v"}
Other(a) == CHOOSE b \in Axis : b # a
Pair(P(_)) == [a \in Axis |-> P(a)]
Larger(m, n) == IF m > n THEN m ELSE n
Zero == Pair(LAMBDA a : 0)

Start(r, a) == r.at[a]
Finish(r, a) == r.at[a] + r.size[a]
Inset(r) == [at   |-> Pair(LAMBDA a : r.at[a] + OuterPad),
             size |-> Pair(LAMBDA a : r.size[a] - 2 * OuterPad)]

-------------------------------------------------------------------------------
(***************************************************************************)
(* Size callbacks. avail is the room there is.                             *)
(***************************************************************************)
RECURSIVE Request(_, _, _)

\* Along the axis the children one after the other, across it the largest.
Fit(g, e, axis) ==
  LET wants == [i \in DOMAIN g[e].children |-> Request(g, g[e].children[i], Zero)]
      along(n, want)  == n + want[axis] + InnerPad
      across(n, want) == Larger(n, want[Other(axis)])
      need(a) == 2 * OuterPad + IF a = axis THEN FoldLeft(along, -InnerPad, wants)
                                            ELSE FoldLeft(across, 0, wants)
  IN  Pair(LAMBDA a : Larger(need(a), g[e].min_size[a]))

hfit_children(g, e) == Fit(g, e, "h")
vfit_children(g, e) == Fit(g, e, "v")

hfill(g, e, avail) == [hfit_children(g, e) EXCEPT !["h"] = Larger(@, avail["h"])]
vfill(g, e, avail) == [vfit_children(g, e) EXCEPT !["v"] = Larger(@, avail["v"])]

\* An element is never asked to be smaller than it is.
self(g, e) == Pair(LAMBDA a : Larger(g[e].rect.size[a], g[e].min_size[a]))

\* rtb_elem_request_size
Request(g, e, avail) ==
  IF e \in Text THEN g[e].text
  ELSE CASE size_cb[e] = "self"  -> self(g, e)
         [] size_cb[e] = "hfit"  -> hfit_children(g, e)
         [] size_cb[e] = "vfit"  -> vfit_children(g, e)
         [] size_cb[e] = "hfill" -> hfill(g, e, avail)
         [] size_cb[e] = "vfill" -> vfill(g, e, avail)
         [] size_cb[e] = "fill"  -> avail

-------------------------------------------------------------------------------
(***************************************************************************)
(* Layouts. Children are placed one after the other; placing holds what is *)
(* left of the room, where the next one goes, and whether all fitted.      *)
(***************************************************************************)

\* halign, valign
Offset(e, avail, size) ==
  CASE Align[e] = "start"  -> 0
    [] Align[e] = "middle" -> (avail - size) \div 2
    [] Align[e] = "end"    -> avail - size

Put(g, k, at, size) == [g EXCEPT ![k].rect = [at |-> at, size |-> size]]

Placed(placing, e, k, axis, want, at) ==
  LET b == Other(axis)
  IN  Put(placing.g, k,
          [a \in Axis |-> IF a = axis THEN at
                          ELSE placing.g[e].inner.at[b] + Offset(k, placing.avail[b], want[b])],
          want)

Placing(g, e, pos) == [g |-> g, avail |-> g[e].inner.size, pos |-> pos, fits |-> TRUE]

\* k at pos, the next one after it.
PlaceNext(p, e, k, axis, want) ==
  [g     |-> Placed(p, e, k, axis, want, p.pos),
   avail |-> [p.avail EXCEPT ![axis] = @ - want[axis] - InnerPad],
   pos   |-> p.pos + want[axis] + InnerPad,
   fits  |-> TRUE]

PackFrom(g, e, axis, pos) ==
  LET place(p, k) == PlaceNext(p, e, k, axis, Request(p.g, k, p.avail))
  IN  FoldLeft(place, Placing(g, e, pos), g[e].children).g

\* rtb_layout_vpack_top, rtb_layout_hpack_left
vpack_top(g, e)  == PackFrom(g, e, "v", g[e].inner.at["v"])
hpack_left(g, e) == PackFrom(g, e, "h", g[e].inner.at["h"])
PackStart(g, e, axis) == IF axis = "v" THEN vpack_top(g, e) ELSE hpack_left(g, e)

Total(g, e, axis) ==
  LET add(n, k) == n + Request(g, k, g[e].inner.size)[axis] + InnerPad
  IN  FoldLeft(add, -InnerPad, g[e].children)

Centred(g, e, axis, spare) == PackFrom(g, e, axis, g[e].inner.at[axis] + spare \div 2)

\* Mutation: the children are centred even if they do not fit.
PackMiddleAlways(g, e, axis) == Centred(g, e, axis, g[e].inner.size[axis] - Total(g, e, axis))

PackMiddle(g, e, axis) ==
  LET spare == g[e].inner.size[axis] - Total(g, e, axis)
  IN  IF spare < 0 THEN PackStart(g, e, axis) ELSE Centred(g, e, axis, spare)

\* k so that it ends where the one placed before it begins, if it then begins
\* within the rectangle; as soon as one does not, no more are placed.
PlaceBefore(p, e, k, axis, want) ==
  LET pos == p.pos - want[axis] - InnerPad
  IN  IF ~p.fits \/ pos < p.g[e].inner.at[axis] THEN [p EXCEPT !.fits = FALSE]
      ELSE [PlaceNext(p, e, k, axis, want) EXCEPT
              !.g = Placed(p, e, k, axis, want, pos), !.pos = pos]

OrFromStart(p, e, axis) == IF p.fits THEN p.g ELSE PackStart(p.g, e, axis)

\* From the last child to the first; if they do not fit, from the start.
PackEnd(g, e, axis) ==
  LET place(p, k) == PlaceBefore(p, e, k, axis, Request(p.g, k, p.avail))
  IN  OrFromStart(FoldLeft(place, Placing(g, e, Finish(g[e].inner, axis) + InnerPad),
                           Reverse(g[e].children)), e, axis)

vpack_middle(g, e) == PackMiddle(g, e, "v")
hpack_center(g, e) == PackMiddle(g, e, "h")
vpack_bottom(g, e) == PackEnd(g, e, "v")
hpack_right(g, e)  == PackEnd(g, e, "h")

\* One child in the middle of the whole element, its vertical alignment ignored.
hdistribute_one(g, e) ==
  LET k == Head(g[e].children)
      x == g[e].rect.at["h"] + (g[e].rect.size["h"] - g[k].rect.size["h"]) \div 2
  IN  IF x < g[e].inner.at["h"] THEN hpack_left(g, e)
      ELSE Put(g, k, [h |-> x, v |-> g[e].inner.at["v"]], g[k].rect.size)

\* The room left over goes between the children; the last one ends at the end.
hdistribute_many(g, e) ==
  LET kids  == g[e].children
      inner == g[e].inner
      upTo(i) == FoldLeft(LAMBDA n, k : n + g[k].rect.size["h"], 0, SubSeq(kids, 1, i))
      spare == inner.size["h"] - upTo(Len(kids))
      place(h, i) ==
        LET k == kids[i] IN
        Put(h, k,
            [h |-> IF i = Len(kids) THEN Finish(inner, "h") - g[k].rect.size["h"]
                   ELSE inner.at["h"] + upTo(i - 1) + ((i - 1) * spare) \div (Len(kids) - 1),
             v |-> inner.at["v"] + Offset(k, inner.size["v"], g[k].rect.size["v"])],
            g[k].rect.size)
  IN  IF spare < (Len(kids) - 1) * InnerPad THEN hpack_left(g, e)
      ELSE FoldLeft(place, g, [i \in DOMAIN kids |-> i])

Distribute(g, e) ==
  CASE Len(g[e].children) = 0 -> g
    [] Len(g[e].children) = 1 -> hdistribute_one(g, e)
    [] OTHER                  -> hdistribute_many(g, e)

\* rtb_layout_hdistribute sizes the children first.
Measured(p, k, want) == [p EXCEPT !.g = Put(@, k, @[k].rect.at, want), !.avail["h"] = @ - want["h"]]

hdistribute(g, e) ==
  LET measure(p, k) == Measured(p, k, Request(p.g, k, p.avail))
  IN  Distribute(FoldLeft(measure, Placing(g, e, 0), g[e].children).g, e)

unmanaged(g, e) ==
  LET measure(h, k) == Put(h, k, h[k].rect.at, Request(h, k, g[e].inner.size))
  IN  FoldLeft(measure, g, g[e].children)

\* self->layout_cb(self)
LayOut(g, e) ==
  CASE layout_cb[e] = "vpack_top"    -> vpack_top(g, e)
    [] layout_cb[e] = "vpack_middle" -> vpack_middle(g, e)
    [] layout_cb[e] = "vpack_bottom" -> vpack_bottom(g, e)
    [] layout_cb[e] = "hpack_left"   -> hpack_left(g, e)
    [] layout_cb[e] = "hpack_center" -> hpack_center(g, e)
    [] layout_cb[e] = "hpack_right"  -> hpack_right(g, e)
    [] layout_cb[e] = "hdistribute"  -> hdistribute(g, e)
    [] layout_cb[e] = "unmanaged"    -> unmanaged(g, e)
===============================================================================
