-------------------------------- MODULE Render --------------------------------
(***************************************************************************)
(* The redraw pipeline: how a request made with rtb_elem_mark_dirty or     *)
(* rtb_surface_invalidate travels through the render queues of the nested  *)
(* surfaces up to window->dirty, and how rtb_window_draw serves it, one    *)
(* element at a time, while draw callbacks and frame handlers make new     *)
(* requests.                                                               *)
(*                                                                         *)
(* Everything runs under the window lock: the application's requests, the  *)
(* X events and whole frames alternate (pc = "idle" between them), and     *)
(* inside a frame only the callbacks that the frame itself runs interleave *)
(* with its steps.                                                         *)
(***************************************************************************)
EXTENDS ElementTree, SequencesExt

CONSTANTS
  DrawMarks,        \* what a draw callback may mark dirty
  DrawInvalidates,  \* the surfaces a draw callback may invalidate
  ForceRedraw       \* the values the platform passes for force_redraw

ASSUME CallbackAssumption ==
  /\ DrawMarks \subseteq Elem
  /\ DrawInvalidates \subseteq Surface
  /\ ForceRedraw \subseteq BOOLEAN

VARIABLES
  attached,       \* win->state # RTB_STATE_UNATTACHED
  obscured,       \* win->visibility = RTB_FULLY_OBSCURED
  dirty,          \* win->dirty
  surface_state,  \* RTB_SURFACE_VALID / RTB_SURFACE_INVALID, per surface
  render_queue,   \* per surface, the elements to repaint
  next_queue,     \* next_frame_render_queue, per surface
  in_redraw,      \* per surface
  render_entry,   \* the elements whose tqe_next or tqe_prev is not NULL
  force_redraw,   \* the argument of the running rtb_window_draw
  pc,             \* where rtb_window_draw is
  stack,          \* the active calls of rtb_surface_draw_children, innermost first
  ledger          \* history variable: the requests not served yet

queues == <<surface_state, render_queue, next_queue, render_entry>>
window == <<attached, obscured, force_redraw>>
vars   == <<window, dirty, queues, in_redraw, pc, stack, ledger>>

\* The phases of rtb_window_draw: the FRAME_START handlers, the window's own
\* draw, the FRAME_END handlers, the overlay's draw.
Phase   == {"idle", "start", "window", "end", "overlay"}
Drawing == {"window", "end", "overlay"}

-------------------------------------------------------------------------------
(***************************************************************************)
(* The ledger of requests. `now` holds what the next frame to start must   *)
(* repaint; a request made once drawing has begun is due in the frame      *)
(* after (`next`), unless it is served earlier. gap[e] is "none" for a     *)
(* request the pipeline honours, and else names the known hole of the code *)
(* the request fell into (see the README).                                 *)
(***************************************************************************)
Gap == {"none", "obscured", "full_redraw", "overlay", "frame_end", "stranded"}

Paint(l, e) == [now  |-> l.now \ {e},
                next |-> l.next \ {e},
                gap  |-> [l.gap EXCEPT ![e] = "none"]]

\* Elements E are requested, and E's requests fall into the holes r.
Ask(l, E, r) ==
  LET fresh == {e \in E : \/ e \notin l.now \cup l.next
                          \/ l.gap[e] # "none" /\ r[e] = "none"}
  IN  [now  |-> IF pc \in Drawing THEN l.now \ fresh ELSE l.now \cup fresh,
       next |-> IF pc \in Drawing THEN l.next \cup fresh ELSE l.next \ fresh,
       gap  |-> [e \in Elem |-> IF e \in fresh THEN r[e] ELSE l.gap[e]]]

-------------------------------------------------------------------------------
(***************************************************************************)
(* mark_dirty                                                              *)
(***************************************************************************)

\* rtb_elem_is_visible, as far as it varies: only the window's visibility
\* is ever changed, and the walk ends at the element's own surface.
Visible(s) == ~(s = Win /\ obscured)

\* Mutation of Blocked: no RTB_ELEMENT_IS_MARKED_DIRTY test.
BlockedUnmarked(e) == surface_state[SurfaceOf[e]] = "INVALID" \/ ~Visible(SurfaceOf[e])

\* The early returns of mark_dirty() of element.c.
Blocked(e) ==
  LET s == SurfaceOf[e]
  IN  \/ surface_state[s] = "INVALID"
      \/ ~Visible(s)
      \/ Target[e] \in render_entry

\* Mutation of Chain: a surface does not mark itself on its own surface.
ChainShort(e) == {e} \ Roots

\* The elements mark_dirty() is called for in turn: e, then the surfaces
\* around it. The roots have a mark_dirty() that only sets window->dirty.
Chain(e) == ({e} \cup (Above[e] \cap Surface)) \ Roots

\* A plain element stops at its early return; a surface always goes on to
\* mark the surface it is drawn on.
Marks(e) ==
  IF e \notin Surface /\ Blocked(e) THEN {}
  ELSE {Target[x] : x \in {y \in Chain(e) : ~Blocked(y)}}

\* Mutation of SetsDirty: an element that is queued leaves window->dirty alone.
SetsDirtySurface(e) == e \in Surface

\* Does the request reach window->dirty?
SetsDirty(e) == e \in Surface \/ ~Blocked(e)

\* The orders in which the elements of T can be inserted, per surface.
Listings(T) == {q \in [1..Cardinality(T) -> T] : IsInjective(q) /\ ToSet(q) = T}

Orders(T) ==
  LET On(s) == {t \in T : SurfaceOf[t] = s}
  IN  {o \in [Surface -> UNION {Listings(On(s)) : s \in Surface}] :
         \A s \in Surface : o[s] \in Listings(On(s))}

\* Mutation of Enqueue: in_redraw is not consulted.
EnqueueMain(T) ==
  /\ render_entry' = render_entry \cup T
  /\ \E o \in Orders(T) : render_queue' = [s \in Surface |-> render_queue[s] \o o[s]]
  /\ UNCHANGED next_queue

\* TAILQ_INSERT_TAIL into the queue that the surface's in_redraw selects.
Enqueue(T) ==
  /\ render_entry' = render_entry \cup T
  /\ \E o \in Orders(T) :
       /\ render_queue' = [s \in Surface |-> IF in_redraw[s] THEN render_queue[s]
                                             ELSE render_queue[s] \o o[s]]
       /\ next_queue' = [s \in Surface |-> IF in_redraw[s] THEN next_queue[s] \o o[s]
                                           ELSE next_queue[s]]

FullRedraw(s) == \E i \in DOMAIN stack : stack[i].surf = s /\ stack[i].full

\* Is a redraw of what surrounds surface s going to look at s?
Reached(s) ==
  \/ in_redraw[s] \/ \E i \in DOMAIN stack : s \in stack[i].todo
  \/ Target[s] \in render_entry \/ surface_state[SurfaceOf[s]] = "INVALID"

\* A plain element that is taken to be marked already, in a queue that an
\* earlier request has left where no redraw looks for it.
Stranded(e) ==
  /\ e \notin Surface /\ Target[e] \in render_entry
  /\ ~dirty \/ \E s \in Chain(e) \ {e} : ~Reached(s)

\* The hole, if any, that a request for e made now falls into.
GapOf(e, l) ==
  LET on    == {SurfaceOf[x] : x \in Chain(e)}
      stuck == {s \in on : /\ surface_state[s] = "INVALID"
                          /\ s \in l.now \cup l.next /\ l.gap[s] # "none"}
  IN  CASE e = Win     -> IF pc \in Drawing THEN "frame_end" ELSE "none"
        [] e = Overlay -> IF pc = "overlay" THEN "overlay" ELSE "none"
        [] OTHER ->
             IF RootOf(e) = Win /\ obscured THEN "obscured"
             ELSE IF \E s \in on : FullRedraw(s) THEN "full_redraw"
             ELSE IF RootOf(e) = Overlay /\ pc = "overlay" THEN "overlay"
             ELSE IF stuck # {} THEN l.gap[CHOOSE s \in stuck : TRUE]
             ELSE IF Stranded(e) THEN "stranded"
             ELSE "none"

\* rtb_elem_mark_dirty(e), recorded in ledger l.
MarkDirty(e, l) ==
  /\ Enqueue(Marks(e))
  /\ dirty' = (dirty \/ SetsDirty(e))
  /\ ledger' = Ask(l, {e}, [x \in {e} |-> GapOf(e, l)])
  /\ UNCHANGED surface_state

\* rtb_surface_invalidate(s): everything drawn on s is to be repainted.
SurfaceInvalidate(s, l) ==
  LET own   == GapOf(s, l)
      inner == IF own = "none" /\ FullRedraw(s) THEN "full_redraw" ELSE own
      hit   == {s} \cup Inside(s)
  IN  /\ surface_state' = [surface_state EXCEPT ![s] = "INVALID"]
      /\ Enqueue(Marks(s))
      /\ dirty' = TRUE
      /\ ledger' = Ask(l, hit, [x \in hit |-> IF x = s THEN own ELSE inner])

NoRequest(l) == ledger' = l /\ UNCHANGED <<queues, dirty>>

-------------------------------------------------------------------------------
(***************************************************************************)
(* Requests of the application: from event handlers and other threads      *)
(* between frames, and from FRAME_START and FRAME_END handlers.            *)
(***************************************************************************)
HandlersRun == attached /\ pc \in {"idle", "start", "end"}

AppMark(e) ==
  /\ HandlersRun
  /\ MarkDirty(e, ledger)
  /\ UNCHANGED <<window, in_redraw, pc, stack>>

AppInvalidate(s) ==
  /\ HandlersRun
  /\ SurfaceInvalidate(s, ledger)
  /\ UNCHANGED <<window, in_redraw, pc, stack>>

(***************************************************************************)
(* X events, drained before and after each frame.                          *)
(***************************************************************************)
Expose ==
  /\ pc = "idle"
  /\ dirty' = TRUE
  /\ UNCHANGED <<window, queues, in_redraw, pc, stack, ledger>>

VisibilityNotify ==
  /\ pc = "idle"
  /\ obscured' = ~obscured
  /\ UNCHANGED <<attached, force_redraw, dirty, queues, in_redraw, pc, stack, ledger>>

\* MapNotify or a ConfigureNotify with a new size: rtb_window_reinit attaches
\* the tree the first time and reflows it leafward, so that every surface is
\* invalidated, each one after the surfaces it contains.
Reinit ==
  /\ pc = "idle"
  /\ attached' = TRUE
  /\ surface_state' = [s \in Surface |-> "INVALID"]
  /\ Enqueue({Target[s] : s \in {x \in Surface \ Roots : ~Blocked(x)}})
  /\ dirty' = TRUE
  /\ ledger' = [now |-> Elem, next |-> {}, gap |-> [e \in Elem |-> "none"]]
  /\ UNCHANGED <<obscured, force_redraw, in_redraw, pc, stack>>

-------------------------------------------------------------------------------
(***************************************************************************)
(* rtb_window_draw                                                         *)
(***************************************************************************)

\* rtb_surface_is_dirty
IsDirty(s) == surface_state[s] = "INVALID" \/ render_queue[s] # <<>>

\* Entry of rtb_surface_draw_children(s): an INVALID surface empties its
\* queue and draws all it contains, a VALID one draws what is queued.
OpenSurface(s, below) ==
  LET full == surface_state[s] = "INVALID"
      call == [surf |-> s, full |-> full, todo |-> IF full THEN Inside(s) ELSE {}]
  IN  IF ~IsDirty(s)
      THEN stack' = below /\ UNCHANGED <<render_queue, render_entry, in_redraw>>
      ELSE /\ stack' = <<call>> \o below
           /\ in_redraw' = [in_redraw EXCEPT ![s] = TRUE]
           /\ IF full
              THEN /\ render_queue' = [render_queue EXCEPT ![s] = <<>>]
                   /\ render_entry' = render_entry \ ToSet(render_queue[s])
              ELSE UNCHANGED <<render_queue, render_entry>>

\* The visibility check, then FRAME_START is dispatched.
FrameStart(force) ==
  /\ pc = "idle" /\ attached /\ ~obscured
  /\ pc' = "start"
  /\ force_redraw' = force
  /\ UNCHANGED <<attached, obscured, dirty, queues, in_redraw, stack, ledger>>

\* if (!self->dirty || force_redraw) return 0;
NothingToDraw ==
  /\ pc = "start" /\ (~dirty \/ force_redraw)
  /\ pc' = "idle"
  /\ UNCHANGED <<window, dirty, queues, in_redraw, stack, ledger>>

DrawWindow ==
  /\ pc = "start" /\ dirty /\ ~force_redraw
  /\ pc' = "window"
  /\ OpenSurface(Win, <<>>)
  /\ ledger' = Paint(ledger, Win)
  /\ UNCHANGED <<window, dirty, surface_state, next_queue>>

\* The elements whose turn can come in the innermost surface being drawn: a
\* parent before its children, siblings in any order.
Turn(e) ==
  /\ stack # <<>>
  /\ e \in Head(stack).todo
  /\ Parent[e] \notin Head(stack).todo

Drawn(e) == <<[Head(stack) EXCEPT !.todo = @ \ {e}]>> \o Tail(stack)

\* A plain element's draw callback, which may make one request.
DrawElem(e) ==
  /\ e \notin Surface /\ Turn(e)
  /\ stack' = Drawn(e)
  /\ \/ NoRequest(Paint(ledger, e))
     \/ \E m \in DrawMarks : MarkDirty(m, Paint(ledger, e))
     \/ \E s \in DrawInvalidates : SurfaceInvalidate(s, Paint(ledger, e))
  /\ UNCHANGED <<window, in_redraw, pc>>

\* A nested surface redraws its contents if it has to, and is blitted.
DrawSurface(e) ==
  /\ e \in Surface /\ Turn(e)
  /\ OpenSurface(e, Drawn(e))
  /\ ledger' = Paint(ledger, e)
  /\ UNCHANGED <<window, dirty, surface_state, next_queue, pc>>

\* One turn of the VALID loop: unlink the head of the queue and draw it.
PopQueue ==
  /\ stack # <<>>
  /\ LET call == Head(stack)
         s    == call.surf
     IN  /\ call.todo = {} /\ ~call.full /\ render_queue[s] # <<>>
         /\ LET h == Head(render_queue[s])
            IN  /\ render_queue' = [render_queue EXCEPT ![s] = Tail(@)]
                /\ render_entry' = render_entry \ {h}
                /\ stack' = <<[call EXCEPT !.todo = Below(h)]>> \o Tail(stack)
  /\ UNCHANGED <<window, dirty, surface_state, next_queue, in_redraw, pc, ledger>>

\* Mutation of CloseSurface: in_redraw is not reset.
CloseOpen ==
  /\ stack # <<>>
  /\ LET call == Head(stack)
         s    == call.surf
     IN  /\ call.todo = {} /\ (call.full \/ render_queue[s] = <<>>)
         /\ surface_state' = IF call.full THEN [surface_state EXCEPT ![s] = "VALID"]
                                          ELSE surface_state
         /\ render_queue' = [render_queue EXCEPT ![s] = @ \o next_queue[s]]
         /\ next_queue' = [next_queue EXCEPT ![s] = <<>>]
  /\ stack' = Tail(stack)
  /\ UNCHANGED <<window, dirty, in_redraw, render_entry, pc, ledger>>

\* The end of rtb_surface_draw_children.
CloseSurface ==
  /\ stack # <<>>
  /\ LET call == Head(stack)
         s    == call.surf
     IN  /\ call.todo = {} /\ (call.full \/ render_queue[s] = <<>>)
         /\ surface_state' = IF call.full THEN [surface_state EXCEPT ![s] = "VALID"]
                                          ELSE surface_state
         /\ in_redraw' = [in_redraw EXCEPT ![s] = FALSE]
         /\ render_queue' = [render_queue EXCEPT ![s] = @ \o next_queue[s]]
         /\ next_queue' = [next_queue EXCEPT ![s] = <<>>]
  /\ stack' = Tail(stack)
  /\ UNCHANGED <<window, dirty, render_entry, pc, ledger>>

\* The window is drawn: FRAME_END is dispatched.
FrameEnd ==
  /\ pc = "window" /\ stack = <<>>
  /\ pc' = "end"
  /\ UNCHANGED <<window, dirty, queues, in_redraw, stack, ledger>>

DrawOverlay ==
  /\ pc = "end"
  /\ pc' = "overlay"
  /\ OpenSurface(Overlay, <<>>)
  /\ ledger' = Paint(ledger, Overlay)
  /\ UNCHANGED <<window, dirty, surface_state, next_queue>>

\* Mutation of Finish: the window is clean after every frame.
FinishClean ==
  /\ pc = "overlay" /\ stack = <<>>
  /\ pc' = "idle"
  /\ dirty' = FALSE
  /\ ledger' = [ledger EXCEPT !.now = @ \cup ledger.next, !.next = {}]
  /\ UNCHANGED <<window, queues, in_redraw, stack>>

\* self->dirty = !TAILQ_EMPTY(&self->render_queue); return 1;
Finish ==
  /\ pc = "overlay" /\ stack = <<>>
  /\ pc' = "idle"
  /\ dirty' = (render_queue[Win] # <<>>)
  /\ ledger' = [ledger EXCEPT !.now = @ \cup ledger.next, !.next = {}]
  /\ UNCHANGED <<window, queues, in_redraw, stack>>

-------------------------------------------------------------------------------
Init ==
  /\ attached = FALSE /\ obscured = FALSE /\ dirty = FALSE
  /\ surface_state = [s \in Surface |-> "INVALID"]
  /\ render_queue = [s \in Surface |-> <<>>]
  /\ next_queue = [s \in Surface |-> <<>>]
  /\ in_redraw = [s \in Surface |-> FALSE]
  /\ render_entry = {}
  /\ force_redraw = FALSE
  /\ pc = "idle" /\ stack = <<>>
  /\ ledger = [now |-> {}, next |-> {}, gap |-> [e \in Elem |-> "none"]]

DrawStep ==
  \/ \E e \in Elem : DrawElem(e) \/ DrawSurface(e)
  \/ PopQueue \/ CloseSurface

FrameStep ==
  \/ \E force \in ForceRedraw : FrameStart(force)
  \/ NothingToDraw \/ DrawWindow \/ DrawStep \/ FrameEnd \/ DrawOverlay \/ Finish

Next ==
  \/ \E e \in Elem : AppMark(e)
  \/ \E s \in Surface : AppInvalidate(s)
  \/ Expose \/ VisibilityNotify \/ Reinit
  \/ FrameStep

\* The frame timer fires every 10 ms for as long as the event loop runs, and
\* callbacks return, so that a frame once begun goes on to its end.
Fairness == WF_vars(FrameStep)

Spec == Init /\ [][Next]_vars /\ Fairness
-------------------------------------------------------------------------------
(***************************************************************************)
(* Safety                                                                  *)
(***************************************************************************)

Call == [surf : Surface, full : BOOLEAN, todo : SUBSET Elem]

\* Every variable has its type; a queue holds only elements that are drawn on
\* its own surface, so that mark_dirty never inserts into a foreign queue.
TypeOK ==
  /\ attached \in BOOLEAN /\ obscured \in BOOLEAN /\ dirty \in BOOLEAN
  /\ force_redraw \in BOOLEAN
  /\ surface_state \in [Surface -> {"VALID", "INVALID"}]
  /\ render_queue \in [Surface -> Seq(Elem)]
  /\ next_queue \in [Surface -> Seq(Elem)]
  /\ \A s \in Surface : ToSet(render_queue[s]) \cup ToSet(next_queue[s]) \subseteq Inside(s)
  /\ in_redraw \in [Surface -> BOOLEAN]
  /\ render_entry \in SUBSET Elem
  /\ pc \in Phase
  /\ stack \in Seq(Call)
  /\ ledger \in [now : SUBSET Elem, next : SUBSET Elem, gap : [Elem -> Gap]]

\* An element's render_entry is linked exactly while the element sits in one
\* of its surface's two queues, once: mark_dirty's "already marked" return is
\* never taken for an element nobody is going to draw, and no TAILQ_INSERT
\* hits an element that is linked elsewhere.
QueuesSound ==
  \A s \in Surface :
    /\ IsInjective(render_queue[s]) /\ IsInjective(next_queue[s])
    /\ ToSet(render_queue[s]) \cap ToSet(next_queue[s]) = {}
    /\ ToSet(render_queue[s]) \cup ToSet(next_queue[s]) = render_entry \cap Inside(s)

\* in_redraw is set exactly for the surfaces whose rtb_surface_draw_children
\* is running, each once; requests are put off to next_frame_render_queue only
\* meanwhile; a full redraw leaves nothing behind in the queue it emptied.
RedrawBracketed ==
  /\ \A i, j \in DOMAIN stack : stack[i].surf = stack[j].surf => i = j
  /\ \A s \in Surface : in_redraw[s] <=> \E i \in DOMAIN stack : stack[i].surf = s
  /\ \A s \in Surface : ~in_redraw[s] => next_queue[s] = <<>>
  /\ \A i \in DOMAIN stack : stack[i].full => render_queue[stack[i].surf] = <<>>
  /\ pc \notin {"window", "overlay"} => stack = <<>>

\* rtb_window_draw returns, having been asked for an ordinary frame.
Returns == pc # "idle" /\ pc' = "idle" /\ ~force_redraw

\* When a frame returns, whether it found the window dirty or not, every
\* request made before it began to draw has been served, but for those that
\* fell into a known hole.
Served == [][Returns => \A e \in ledger.now : ledger.gap[e] # "none"]_vars

Honoured(E) == {e \in E : ledger.gap[e] = "none"}

\* The pipeline implements the abstract redraw service.
Service ==
  INSTANCE RedrawService WITH
    due   <- Honoured(ledger.now),
    later <- Honoured(ledger.next),
    phase <- IF pc \in Drawing THEN "drawing"
             ELSE IF pc = "start" /\ ~force_redraw THEN "opening" ELSE "rest"

ImplementsService == Service!Spec

(***************************************************************************)
(* What a comment says and the code does not do.                           *)
(***************************************************************************)

\* Requests made from a draw function of a surface that is being redrawn in
\* full are served in the next frame (comment in rtb_surface_draw_children).
FullRedrawRequestsServed ==
  [][Returns => \A e \in ledger.now : ledger.gap[e] # "full_redraw"]_vars

(***************************************************************************)
(* Liveness                                                                *)
(***************************************************************************)

\* A frame ends even if draw callbacks keep marking elements, themselves
\* included: that is what next_frame_render_queue is for.
FrameTerminates == (pc # "idle") ~> (pc = "idle")

\* Once the window stays visible, an honoured request is served.
RedrawHappens ==
  <>[](~obscured) =>
    \A e \in Elem : (e \in Honoured(ledger.now)) ~> (e \notin ledger.now)
===============================================================================
