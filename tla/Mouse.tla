-------------------------------- MODULE Mouse ---------------------------------
(***************************************************************************)
(* The pointer, the focus and the looks of elements: platform/mouse.c, the *)
(* event delivery of event.c and element.c, rtb_window_focus_element.      *)
(*                                                                         *)
(* A platform event sets off a cascade of deliveries. `calls` lists what   *)
(* is left to do of the C functions that are running, innermost first, so  *)
(* that handlers can call back into the library between any two of them.   *)
(* The tree is fixed.                                                      *)
(***************************************************************************)
EXTENDS ElementTree, Integers, SequencesExt

CONSTANTS
  None,          \* NULL
  Point,         \* where the pointer can be
  WindowPoint,   \* the points strictly inside the window
  Cover,         \* Cover[p]: the elements whose rectangle contains p
  MaxButton,     \* RTB_MOUSE_BUTTON_MAX
  Focusable,     \* the elements the application moves the focus to
  ClickFocus,    \* the elements flagged RTB_ELEM_CLICK_FOCUS
  DuringDrag,    \* those flagged RTB_ELEM_ACTIVE_DURING_DRAG
  FocusMoves,    \* <<type, e, g>>: a handler of e for type may move the focus to g
  MaxNested      \* how many such moves may be under way (a bound of the model)

Button  == 0 .. MaxButton
Button1 == 0

\* RTB_MOUSE_*, RTB_DRAG_*, RTB_FOCUS, RTB_UNFOCUS and the key events.
EventType == {"ENTER", "LEAVE", "DOWN", "UP", "CLICK", "WHEEL",
              "DRAG_START", "DRAG_MOTION", "DRAG_ENTER", "DRAG_LEAVE", "DRAG_DROP",
              "FOCUS", "UNFOCUS", "KEY"}

ASSUME PointerAssumption ==
  /\ None \notin Elem
  /\ WindowPoint \subseteq Point
  /\ Cover \in [Point -> SUBSET Elem]
  /\ \A p \in WindowPoint : Roots \subseteq Cover[p]
  /\ MaxButton \in Nat /\ MaxNested \in Nat
  /\ Focusable \subseteq Elem /\ ClickFocus \subseteq Elem /\ DuringDrag \subseteq Elem
  /\ FocusMoves \subseteq EventType \X Elem \X Elem

VARIABLES
  mouse_in,            \* the elements with elem->mouse_in set
  element_underneath,  \* win->mouse.element_underneath
  mouse_in_overlay,    \* win->mouse_in_overlay
  button,              \* win->mouse.button: state and target
  focus,               \* win->focus
  state,               \* elem->state, see Shown
  calls,               \* what is left to do
  strayed,             \* history: the elements that were forgotten with mouse_in set
  balance,             \* history: ENTER minus LEAVE events, but for the roots; an
                       \* element that strays is let off its LEAVE
  pressed              \* history: where each button that is down was pressed

pointer == <<mouse_in, element_underneath, mouse_in_overlay, strayed>>
history == <<balance, pressed>>
vars    == <<pointer, button, focus, state, calls, history>>

\* elem->state as two fields: FOCUS_HOVER is [focus |-> TRUE, look |-> "HOVER"].
Shown == [focus : BOOLEAN, look : {"NORMAL", "HOVER", "ACTIVE"}]

\* elem->parent: the overlay surface is attached to the window.
Up(e) == CASE e = Win -> None [] e = Overlay -> Win [] OTHER -> Parent[e]

\* Mutation: the arguments are swapped.
InTreeSwapped(root, e) == root # None /\ e \in {root} \cup Above[root]

\* rtb_elem_is_in_tree
InTree(root, e) ==
  root \in {e} \cup Above[e] \cup (IF RootOf(e) = Overlay THEN {Win} ELSE {})

\* element_underneath_mouse
Underneath == IF element_underneath = None THEN Win ELSE element_underneath

\* The last turn of the loops over the buttons.
LastButton == MaxButton

ButtonsDown == {b \in Button : button[b].state # "UP"}

-------------------------------------------------------------------------------
(***************************************************************************)
(* The entries of `calls`: `op` is what to do, `e` the element it is about *)
(* (rtb_dispatch_raw: the element it has come to), `f` another one, `arg`  *)
(* an event type or the point of a motion, `b` a button.                   *)
(***************************************************************************)
OpName == {"motion", "rise", "descend", "clear", "cross", "drag", "exit", "enter",
           "release", "dispatch", "dispatched", "deliver", "delivered", "focus", "unfocus",
           "setfocus"}

Op(op, e, f, arg, b) == [op |-> op, e |-> e, f |-> f, arg |-> arg, b |-> b]
Do(op, e)    == Op(op, e, None, "none", 0)
At(op, e, p) == Op(op, e, None, p, 0)

Dispatch(e, type, b) == Op("dispatch", e, None, type, b)
Deliver(e, type)     == Op("deliver", e, None, type, 0)

Top  == Head(calls)
Rest == Tail(calls)
Running(op) == calls # <<>> /\ Top.op = op

\* Mutation: the flag is left as it is.
ForgetNothing(e) == mouse_in' = mouse_in

\* mouse_leave_element: mouse_in, then the events.
Forget(e) == mouse_in' = mouse_in \ {e}

\* Mutation: while a button is down only the drag event is sent.
LeaveCallsDragging(e) ==
  (IF ButtonsDown = {} THEN <<Dispatch(e, "LEAVE", 0)>> ELSE <<>>)
  \o <<Op("cross", e, None, "DRAG_LEAVE", 0)>>

LeaveCalls(e) == <<Dispatch(e, "LEAVE", 0), Op("cross", e, None, "DRAG_LEAVE", 0)>>

EnterCalls(e) == <<Dispatch(e, "ENTER", 0), Op("cross", e, None, "DRAG_ENTER", 0)>>

-------------------------------------------------------------------------------
(***************************************************************************)
(* Platform events and calls of the application between events.            *)
(***************************************************************************)
Idle == calls = <<>>

\* rtb__platform_mouse_press. The release of the press before may have gone to
\* another window: the button need not be up.
Press(b) ==
  /\ Idle
  /\ button' = [button EXCEPT ![b] = [state |-> "DOWN", target |-> Underneath]]
  /\ pressed' = [pressed EXCEPT ![b] = Underneath]
  /\ calls' = <<Dispatch(Underneath, "DOWN", b)>>
  /\ UNCHANGED <<pointer, focus, state, balance>>

\* rtb__platform_mouse_release and mouse_up: a click if the pointer is in the
\* tree of the target, else a drop if the button was dragged. A release without
\* a press has no target.
Release(b) ==
  /\ Idle
  /\ button' = [button EXCEPT ![b].state = "UP"]
  /\ LET target == button[b].target
         drops  == IF button[b].state = "DRAG"
                   THEN <<Dispatch(Underneath, "DRAG_DROP", b), Dispatch(target, "DRAG_DROP", b)>>
                   ELSE <<>>
     IN  calls' = (IF InTree(target, Underneath) THEN <<Dispatch(Underneath, "CLICK", b)>>
                                                 ELSE drops)
                  \o <<Op("release", None, None, "none", b), Dispatch(Underneath, "UP", b)>>
  /\ UNCHANGED <<pointer, focus, state, history>>

\* rtb__platform_mouse_motion
Motion(p) ==
  /\ Idle
  /\ calls' = <<At("motion", Win, p)>>
  /\ UNCHANGED <<pointer, button, focus, state, history>>

\* rtb__platform_mouse_enter_window
EnterWindow(p) ==
  /\ Idle
  /\ calls' = (IF Win \in mouse_in THEN <<Do("exit", Underneath)>> ELSE <<>>)
              \o <<Do("enter", Win), At("motion", Win, p)>>
  /\ UNCHANGED <<pointer, button, focus, state, history>>

\* rtb__platform_mouse_leave_window
LeaveWindow ==
  /\ Idle
  /\ calls' = <<Do("exit", Underneath)>>
  /\ UNCHANGED <<pointer, button, focus, state, history>>

\* rtb__platform_mouse_wheel
Wheel ==
  /\ Idle
  /\ calls' = <<Dispatch(Underneath, "WHEEL", 0)>>
  /\ UNCHANGED <<pointer, button, focus, state, history>>

\* A key event: win_event offers it to the focus, and if that did not handle it
\* to the window's own handlers, which rtb_elem_deliver_event then runs anyway.
Key ==
  /\ Idle
  /\ LET own == Deliver(Win, "KEY")
     IN  calls' \in IF focus \in {None, Win} THEN {<<own, own>>}
                   ELSE {<<Deliver(focus, "KEY"), own>>, <<Deliver(focus, "KEY"), own, own>>}
  /\ UNCHANGED <<pointer, button, focus, state, history>>

\* rtb_window_focus_element, called by the application.
AppFocus(e) ==
  /\ Idle
  /\ calls' = <<Do("focus", e)>>
  /\ UNCHANGED <<pointer, button, focus, state, history>>

-------------------------------------------------------------------------------
(***************************************************************************)
(* rtb__platform_mouse_motion, enter_window and leave_window               *)
(***************************************************************************)

\* The pointer is followed outside of the window while a button is down.
MotionBody ==
  /\ Running("motion")
  /\ LET inside == Top.arg \in WindowPoint
     IN  calls' = CASE Win \in mouse_in \/ (~inside /\ ButtonsDown # {}) ->
                         <<At("rise", Underneath, Top.arg), Do("drag", None)>> \o Rest
                    [] Win \notin mouse_in /\ inside -> <<Do("enter", Win), Top>> \o Rest
                    [] OTHER -> Rest
  /\ UNCHANGED <<pointer, button, focus, state, history>>

\* What a drag has entered from outside of the window is not left: its elements
\* touch the border, or reach beyond it.
EnterBody ==
  /\ Running("enter")
  /\ mouse_in' = mouse_in \cup {Win}
  /\ element_underneath' = Win
  /\ calls' = <<Dispatch(Win, "ENTER", 0)>> \o Rest
  /\ strayed' = strayed \cup (mouse_in \ Roots)
  /\ balance' = [e \in Elem \ Roots |-> IF e \in mouse_in THEN 0 ELSE balance[e]]
  /\ UNCHANGED <<mouse_in_overlay, button, focus, state, pressed>>

\* The loop of leave_window, from the element underneath to the root.
ExitBody ==
  /\ Running("exit")
  /\ IF Top.e = None
     THEN /\ element_underneath' = None
          /\ mouse_in' = mouse_in \ {Win}
          /\ calls' = Rest
     ELSE /\ Forget(Top.e)
          /\ calls' = LeaveCalls(Top.e) \o <<Do("exit", Up(Top.e))>> \o Rest
          /\ UNCHANGED element_underneath
  /\ UNCHANGED <<mouse_in_overlay, strayed, button, focus, state, history>>

-------------------------------------------------------------------------------
(***************************************************************************)
(* retarget                                                                *)
(***************************************************************************)

\* Leave the elements the pointer has left, up to one it is still in; then
\* look into the overlay, unless that is where the pointer is.
Rise ==
  /\ Running("rise")
  /\ LET e == Top.e IN
     IF e # Win /\ e \notin Cover[Top.arg]
     THEN /\ Forget(e)
          /\ calls' = LeaveCalls(e) \o <<[Top EXCEPT !.e = Up(e)]>> \o Rest
          /\ UNCHANGED <<element_underneath, mouse_in_overlay>>
     ELSE LET out == e = Overlay \/ (e = Win /\ mouse_in_overlay)
              ret == IF out THEN Win ELSE e
          IN  /\ mouse_in_overlay' = (mouse_in_overlay /\ ~out)
              /\ calls' = <<IF mouse_in_overlay' THEN At("descend", ret, Top.arg)
                                                 ELSE Op("descend", Overlay, ret, Top.arg, 0)>> \o Rest
              /\ UNCHANGED <<mouse_in, element_underneath>>
  /\ UNCHANGED <<strayed, button, focus, state, history>>

\* retarget_descend, from the overlay (f: what the pointer is in so far) or,
\* with f = None, from what the pointer is in. Where siblings overlap, any of
\* them may be the last in the list of children.
Descend ==
  /\ Running("descend")
  /\ LET e   == Top.e
         hit == {c \in Elem \ Roots : Parent[c] = e /\ c \in Cover[Top.arg]}
     IN  \/ \E c \in hit :
              /\ mouse_in' = mouse_in \cup {c} /\ strayed' = strayed \ {c}
              /\ calls' = EnterCalls(c) \o <<[Top EXCEPT !.e = c]>> \o Rest
              /\ UNCHANGED <<element_underneath, mouse_in_overlay>>
         \/ /\ hit = {} /\ Top.f = None
            /\ element_underneath' = e
            /\ calls' = Rest
            /\ UNCHANGED <<mouse_in, mouse_in_overlay, strayed>>
         \/ /\ hit = {} /\ Top.f # None
            /\ calls' = <<IF e = Overlay THEN At("descend", Top.f, Top.arg)
                          ELSE Op("clear", Top.f, e, "none", 0)>> \o Rest
            /\ UNCHANGED pointer
  /\ UNCHANGED <<button, focus, state, history>>

\* Something of the overlay, f, is under the pointer: leave what the pointer
\* was in. Nothing more is found below f.
Clear ==
  /\ Running("clear")
  /\ IF Top.e = Win
     THEN /\ mouse_in_overlay' = TRUE
          /\ element_underneath' = Top.f
          /\ calls' = Rest
          /\ UNCHANGED mouse_in
     ELSE /\ Forget(Top.e)
          /\ calls' = LeaveCalls(Top.e) \o <<[Top EXCEPT !.e = Up(Top.e)]>> \o Rest
          /\ UNCHANGED <<element_underneath, mouse_in_overlay>>
  /\ UNCHANGED <<strayed, button, focus, state, history>>

\* dispatch_drag_enter and dispatch_drag_leave: once per dragged button.
Cross ==
  /\ Running("cross")
  /\ LET dragged == SetToSeq({b \in Button : button[b].state = "DRAG"})
     IN  calls' = [i \in DOMAIN dragged |-> Dispatch(Top.e, Top.arg, dragged[i])] \o Rest
  /\ UNCHANGED <<pointer, button, focus, state, history>>

\* drag(), one button at a time.
Drag ==
  /\ Running("drag")
  /\ LET b    == Top.b
         next == IF b < LastButton THEN <<[Top EXCEPT !.b = b + 1]>> ELSE <<>>
     IN  /\ button' = IF button[b].state = "DOWN" THEN [button EXCEPT ![b].state = "DRAG"]
                                                  ELSE button
         /\ calls' = (CASE button[b].state = "UP"   -> <<>>
                        [] button[b].state = "DOWN" -> <<Dispatch(button[b].target, "DRAG_START", b)>>
                        [] button[b].state = "DRAG" -> <<Dispatch(button[b].target, "DRAG_MOTION", b)>>)
                     \o next \o Rest
  /\ UNCHANGED <<pointer, focus, state, history>>

\* b->target = NULL, at the end of mouse_up.
ReleaseBody ==
  /\ Running("release")
  /\ button' = [button EXCEPT ![Top.b].target = None]
  /\ pressed' = [pressed EXCEPT ![Top.b] = None]
  /\ calls' = Rest
  /\ UNCHANGED <<pointer, focus, state, balance>>

-------------------------------------------------------------------------------
(***************************************************************************)
(* rtb_dispatch_raw and rtb_elem_deliver_event                             *)
(***************************************************************************)
Look(e, look) == [focus |-> focus = e, look |-> look]

TransitionEnter(e) ==
  IF button[Button1].state = "UP" THEN Look(e, "HOVER")
  ELSE IF button[Button1].target = e THEN Look(e, "ACTIVE") ELSE state[e]

TransitionUp(e) == IF e \in mouse_in THEN TransitionEnter(e) ELSE Look(e, "NORMAL")

\* What delivering an event makes of elem->state.
Transition(e, type, b) ==
  CASE type = "ENTER" -> TransitionEnter(e)
    [] type = "LEAVE" ->
         IF button[Button1].state # "UP" /\ button[Button1].target = e /\ e \in DuringDrag
         THEN state[e] ELSE Look(e, "NORMAL")
    [] type = "FOCUS" ->
         [focus |-> TRUE, look |-> IF state[e].focus THEN "NORMAL" ELSE state[e].look]
    [] type = "UNFOCUS" ->
         [focus |-> FALSE, look |-> IF state[e].focus THEN state[e].look ELSE "NORMAL"]
    [] type = "DOWN" -> IF b = Button1 THEN Look(e, "ACTIVE") ELSE state[e]
    [] type \in {"UP", "DRAG_DROP"} -> TransitionUp(e)
    [] OTHER -> state[e]

\* on_event eats these, in every element.
Eaten == {"ENTER", "LEAVE", "DRAG_ENTER", "DRAG_LEAVE"}

\* What the code that dispatched an event does with the element that had it
\* last: a press may give it the focus, a drag makes it its target.
Returned(call) ==
  /\ button' = IF call.arg = "DRAG_START"
               THEN [button EXCEPT ![call.b].target = call.e] ELSE button
  /\ calls' = (IF call.arg = "DOWN" /\ call.b = Button1 /\ call.e \in ClickFocus
               THEN <<Do("focus", call.e)>> ELSE <<>>) \o Rest

\* The handlers of Top.e have run: its state changes, and a dispatched event
\* goes on to the parent unless it was handled.
Conclude ==
  /\ calls # <<>> /\ Top.op \in {"deliver", "delivered", "dispatch", "dispatched"}
  /\ LET e == Top.e
     IN  /\ state' = [state EXCEPT ![e] = Transition(e, Top.arg, Top.b)]
         /\ balance' = IF e \in Roots THEN balance
                        ELSE CASE Top.arg = "ENTER" -> [balance EXCEPT ![e] = @ + 1]
                               [] Top.arg = "LEAVE" -> [balance EXCEPT ![e] = @ - 1]
                               [] OTHER             -> balance
         /\ \/ /\ Top.op \in {"deliver", "delivered"}
               /\ calls' = Rest
               /\ UNCHANGED button
            \/ /\ Top.op \in {"dispatch", "dispatched"}
               /\ Returned(Top)
            \/ /\ Top.op \in {"dispatch", "dispatched"}
               /\ Top.arg \notin Eaten /\ Up(e) # None
               /\ calls' = <<Dispatch(Up(e), Top.arg, Top.b)>> \o Rest
               /\ UNCHANGED button
  /\ UNCHANGED <<pointer, focus, pressed>>

Nested == Cardinality({i \in DOMAIN calls : calls[i].op \in {"delivered", "dispatched"}})

\* A handler moves the focus to g before it returns.
HandlerFocus(g) ==
  /\ calls # <<>> /\ Top.op \in {"deliver", "dispatch"}
  /\ <<Top.arg, Top.e, g>> \in FocusMoves /\ Nested < MaxNested
  /\ calls' = <<Do("focus", g),
                [Top EXCEPT !.op = IF @ = "deliver" THEN "delivered" ELSE "dispatched"]>> \o Rest
  /\ UNCHANGED <<pointer, button, focus, state, history>>

-------------------------------------------------------------------------------
(***************************************************************************)
(* rtb_window_focus_element: FOCUS, then UNFOCUS to whatever has the focus *)
(* by then, then the change itself.                                        *)
(***************************************************************************)
\* Mutation: the element that has the focus is not told apart.
FocusElementAgain ==
  /\ Running("focus")
  /\ calls' = <<Deliver(Top.e, "FOCUS"), Do("unfocus", Top.e)>> \o Rest
  /\ UNCHANGED <<pointer, button, focus, state, history>>

FocusElement ==
  /\ Running("focus")
  /\ calls' = (IF focus = Top.e THEN <<>>
               ELSE <<Deliver(Top.e, "FOCUS"), Do("unfocus", Top.e)>>) \o Rest
  /\ UNCHANGED <<pointer, button, focus, state, history>>

Unfocus ==
  /\ Running("unfocus")
  /\ calls' = (IF focus = None THEN <<>> ELSE <<Deliver(focus, "UNFOCUS")>>)
              \o <<[Top EXCEPT !.op = "setfocus"]>> \o Rest
  /\ UNCHANGED <<pointer, button, focus, state, history>>

SetFocus ==
  /\ Running("setfocus")
  /\ focus' = Top.e
  /\ calls' = Rest
  /\ UNCHANGED <<pointer, button, state, history>>

-------------------------------------------------------------------------------
Init ==
  /\ mouse_in = {} /\ element_underneath = None /\ mouse_in_overlay = FALSE /\ strayed = {}
  /\ button = [b \in Button |-> [state |-> "UP", target |-> None]]
  /\ focus = None
  /\ state = [e \in Elem |-> [focus |-> FALSE, look |-> "NORMAL"]]
  /\ calls = <<>>
  /\ balance = [e \in Elem \ Roots |-> 0]
  /\ pressed = [b \in Button |-> None]

Event ==
  \/ \E b \in Button : Press(b) \/ Release(b)
  \/ \E p \in Point : Motion(p) \/ EnterWindow(p)
  \/ LeaveWindow \/ Wheel \/ Key
  \/ \E e \in Focusable : AppFocus(e)

Step ==
  \/ MotionBody \/ EnterBody \/ ExitBody
  \/ Rise \/ Descend \/ Clear \/ Cross \/ Drag \/ ReleaseBody
  \/ Conclude
  \/ \E g \in Elem : HandlerFocus(g)
  \/ FocusElement \/ Unfocus \/ SetFocus

Next == Event \/ Step

Spec == Init /\ [][Next]_vars
-------------------------------------------------------------------------------
(***************************************************************************)
(* Properties                                                              *)
(***************************************************************************)
\* The types of the variables.
TypeOK ==
  /\ mouse_in \in SUBSET Elem
  /\ element_underneath \in Elem \cup {None}
  /\ mouse_in_overlay \in BOOLEAN /\ strayed \subseteq Elem \ Roots
  /\ button \in [Button -> [state : {"UP", "DOWN", "DRAG"}, target : Elem \cup {None}]]
  /\ focus \in Elem \cup {None}
  /\ state \in [Elem -> Shown]
  /\ calls \in Seq([op : OpName, e : Elem \cup {None}, f : Elem \cup {None},
                    arg : EventType \cup Point \cup {"none"}, b : Button])
  /\ balance \in [Elem \ Roots -> Int]
  /\ pressed \in [Button -> Elem \cup {None}]

\* Between events, the elements that believe the pointer is in them are the
\* one underneath it and those around that one, and they have been told so; but
\* for those that strayed.
HoverAgrees ==
  Idle => \A e \in Elem \ Roots :
            LET in == element_underneath # None /\ InTree(e, element_underneath)
            IN  /\ e \in mouse_in <=> in \/ e \in strayed
                /\ in => e \notin strayed
                /\ balance[e] = IF in THEN 1 ELSE 0

\* ENTER and LEAVE alternate, and come outside in and inside out, but to what
\* strays: that is all forgotten when the pointer enters the window.
Hover == INSTANCE HoverService WITH
           Elem   <- Elem \ Roots,
           Around <- Parent
Strays == \E S \in SUBSET (Elem \ (Roots \cup strayed)) :
            /\ Running("enter") /\ strayed' = strayed \cup S
            /\ balance' = [e \in Elem \ Roots |-> IF e \in S THEN 0 ELSE balance[e]]
ImplementsHover == Hover!Init /\ [][Hover!Next \/ Strays]_balance

\* Between events, one element at most looks focused, and it is win->focus.
FocusAgrees == Idle => {e \in Elem : state[e].focus} = {focus} \ {None}

\* What keeps the focus in order: a handler of UNFOCUS leaves it alone, and one of
\* FOCUS does not give it to its own element.
OrderlyMoves == \A m \in FocusMoves : m[1] # "UNFOCUS" /\ (m[1] = "FOCUS" => m[2] # m[3])

\* Between events, an element looks hovered or active only if the pointer is in
\* it. The window may look active while a button is down that was pressed outside
\* of it. The overlay surface, which is never entered, and the elements that stay
\* active during drags are excepted.
LooksAgree ==
  Idle => \A e \in Elem \ (DuringDrag \cup {Overlay}) :
            \/ e \in mouse_in \/ state[e].look = "NORMAL"
            \/ e = Win /\ state[e].look = "ACTIVE"

\* Does this step release b over the tree of its target?
Clicks(b) == /\ button[b].state # "UP" /\ button'[b].state = "UP"
             /\ Head(calls').arg = "CLICK"

\* A click that was not a drag goes to the very element that was pressed.
PlainClickOnPressed ==
  [][\A b \in Button : Clicks(b) /\ button[b].state = "DOWN"
                         => Head(calls').e = pressed[b]]_vars

\* The parts that hold of what the pointer is in and of what shows it.
PointerSound == TypeOK /\ HoverAgrees /\ LooksAgree
===============================================================================
