----------------------------- MODULE ValueElement -----------------------------
(***************************************************************************)
(* A value element (widgets/value.c) and the knob and spinbox made of it:  *)
(* its value on a grid, what is shown of it, and the edits that its events *)
(* tell the application of. The pointer is modelled as far as one element  *)
(* sees it: what platform/mouse.c sends to an element and its parent.      *)
(*                                                                         *)
(* A value v of the code is v * Precision here; a float's rounding is that *)
(* of the normalised value to a multiple of 1 / Precision.                 *)
(***************************************************************************)
EXTENDS Integers, Sequences

CONSTANTS
  Low, High,    \* self->min, self->max
  Granularity,  \* 0 for none
  Origin,
  Precision,    \* the normalised value is a multiple of 1 / Precision
  Deltas,       \* changes of the normalised value, by drag, wheel or key
  Asked,        \* the values the application sets
  Fractions,    \* the normalised values it sets, in or out of range
  Sources,      \* of the events it derives those from: direct, derived, none
  MaxCalls      \* how far handlers nest (a bound of the model)

ASSUME ValueAssumption ==
  /\ Low \in Int /\ High \in Int /\ Low < High /\ Granularity \in Nat
  /\ Precision \in Nat \ {0} /\ Deltas \cup Fractions \subseteq Int
  /\ Asked \cup {Origin} \subseteq Low .. High
  /\ Sources \subseteq {"direct", "derived", "none"} /\ MaxCalls \in Nat

VARIABLES
  norm,      \* normalised_value, -1 until it is set
  value,
  shown,     \* the normalised value and the value at the last set_value_hook
  ve_state,  \* "REST", "DRAG", "WHEEL", "DISCRETE"
  attached,
  cursor,    \* win->mouse.current_cursor
  inside,    \* mouse.element_underneath is the element or in its tree
  mouse_in,  \* win->mouse_in: the pointer is taken to be in the window
  button,    \* of buttons 1 and 2: state, and whether the element is the target
  denied,    \* one of deny_drag_start_mod_mask is held
  calls,     \* what is left to do of the functions that run, innermost first
  editing,   \* history: how many more edits were begun than ended
  irregular, \* history: the drag under way was denied at first, or cut short
  lost,      \* history: the release of button 1 did not come to the element that
             \* was pressed: the window was left in between, with no motion, or
             \* the button was pressed again elsewhere
  strayed    \* history: the pointer entered the window while a drag had entered the
             \* element from outside of it, which forgets the element with no event

pointer == <<cursor, inside, mouse_in, button, denied, irregular, lost, strayed>>
held    == <<norm, value, shown>>
vars    == <<held, ve_state, attached, pointer, calls, editing>>

Span == High - Low

Op(op, to, by, user) == [op |-> op, to |-> to, by |-> by, user |-> user]
Begin(s)        == Op("begin", s, 0, TRUE)
End(s)          == Op("end", s, 0, TRUE)
Delta(d)        == Op("delta", "none", d, TRUE)
SetTo(v, user)  == Op("set", "none", v, user)
Cursor(c)       == Op("cursor", c, 0, TRUE)
Discretely(ops) == <<Begin("DISCRETE")>> \o ops \o <<End("DISCRETE")>>

Top  == Head(calls)
Rest == Tail(calls)
Running(op) == calls # <<>> /\ Top.op = op
Idle == calls = <<>>

Init ==
  /\ norm = -1 /\ value = 0 /\ shown = [norm |-> 0, value |-> 0]
  /\ ve_state = "REST" /\ attached = FALSE /\ cursor = "default"
  /\ inside = FALSE /\ mouse_in = FALSE /\ lost = FALSE /\ strayed = FALSE
  /\ button = [b \in 1 .. 2 |-> [state |-> "UP", on |-> FALSE]]
  /\ denied = FALSE /\ calls = <<>> /\ editing = 0 /\ irregular = FALSE

-------------------------------------------------------------------------------
(***************************************************************************)
(* The value                                                               *)
(***************************************************************************)
Clamp(n) == IF n < 0 THEN 0 ELSE IF n > Precision THEN Precision ELSE n

OnGrid(x) ==
  IF Granularity = 0 THEN x
  ELSE LET g == Granularity * Precision IN (x \div g) * g

Normalised(v) == (2 * (v - Low) * Precision + Span) \div (2 * Span)

\* Mutation: the hook is called before the value is assigned.
SetHookFirst(n, user) ==
  LET new == OnGrid(Low * Precision + Clamp(n) * Span) IN
  /\ norm' = Clamp(n)
  /\ IF Granularity # 0 /\ new = value
     THEN UNCHANGED <<value, shown>> /\ calls' = Rest
     ELSE /\ value' = new /\ shown' = [norm |-> Clamp(n), value |-> value]
          /\ calls' = (IF attached THEN <<Op("change", Top.to, 0, user)>> ELSE <<>>) \o Rest

\* rtb__value_element_set_normalised_value. On a grid, a value that stays the
\* same calls neither hook nor handlers.
Set(n, user) ==
  LET new == OnGrid(Low * Precision + Clamp(n) * Span) IN
  /\ norm' = Clamp(n)
  /\ IF Granularity # 0 /\ new = value
     THEN UNCHANGED <<value, shown>> /\ calls' = Rest
     ELSE /\ value' = new /\ shown' = [norm |-> Clamp(n), value |-> new]
          /\ calls' = (IF attached THEN <<Op("change", Top.to, 0, user)>> ELSE <<>>) \o Rest

\* RTB_VALUE_DELTA: handle_delta
DoDelta ==
  /\ Running("delta") /\ Set(norm + Top.by, TRUE)
  /\ UNCHANGED <<ve_state, attached, pointer, editing>>

\* rtb__value_element_set_value_uncooked
DoSet ==
  /\ Running("set") /\ Set(Normalised(Top.by), Top.user)
  /\ UNCHANGED <<ve_state, attached, pointer, editing>>

\* rtb__value_element_set_normalised_value, called for the application
DoFraction ==
  /\ Running("fraction") /\ Set(Top.by, Top.user)
  /\ UNCHANGED <<ve_state, attached, pointer, editing>>

\* set_value_hook of the knob and the spinbox, called when they are attached
DoHook ==
  /\ Running("hook") /\ shown' = [norm |-> norm, value |-> value] /\ calls' = Rest
  /\ UNCHANGED <<norm, value, ve_state, attached, pointer, editing>>

-------------------------------------------------------------------------------
(***************************************************************************)
(* change_state                                                            *)
(***************************************************************************)

\* The states an edit stays in when another one begins.
Stays(s) == \/ ve_state = "DRAG"
            \/ ve_state = "WHEEL" /\ s # "DRAG"
            \/ ve_state = s

\* Mutation: a drag that takes over is told of.
TellsAlways(old) == TRUE

\* A drag that takes over from a wheel or discrete edit is not told of.
Tells(old) == old = "REST"

DoBegin ==
  /\ Running("begin") /\ calls' = Rest
  /\ IF Stays(Top.to) THEN UNCHANGED <<ve_state, editing>>
     ELSE /\ ve_state' = Top.to
          /\ editing' = IF Tells(ve_state) THEN editing + 1 ELSE editing
  /\ UNCHANGED <<held, attached, pointer>>

\* Mutation: any edit is ended, not just its own.
EndsAny(s) == ve_state # "REST"

\* "we can only transition out of a state from itself"
Ends(s) == ve_state = s

DoEnd ==
  /\ Running("end") /\ calls' = Rest
  /\ IF Ends(Top.to) THEN ve_state' = "REST" /\ editing' = editing - 1
                     ELSE UNCHANGED <<ve_state, editing>>
  /\ UNCHANGED <<held, attached, pointer>>

\* RTB_VALUE_CHANGE. A handler of the application may set the value anew, with
\* this event, which comes from the user if the change did.
DoChange ==
  /\ Running("change")
  /\ \/ calls' = Rest
     \/ \E v \in Asked :
          /\ Len(calls) < MaxCalls
          /\ calls' = (IF Top.user THEN Discretely(<<SetTo(v, TRUE)>>) ELSE <<SetTo(v, FALSE)>>) \o Rest
  /\ UNCHANGED <<held, ve_state, attached, pointer, editing>>

DoCursor ==
  /\ Running("cursor") /\ cursor' = Top.to /\ calls' = Rest
  /\ UNCHANGED <<held, ve_state, attached, inside, mouse_in, button, denied, irregular,
                 lost, strayed, editing>>

-------------------------------------------------------------------------------
(***************************************************************************)
(* on_event                                                                *)
(***************************************************************************)
Event == Idle /\ attached

Modifier ==
  /\ Event /\ denied' = ~denied
  /\ UNCHANGED <<held, ve_state, attached, cursor, inside, mouse_in, button, calls, editing,
                 irregular, lost, strayed>>

\* RTB_MOUSE_DOWN: handle_mouse_down. The button need not be up.
Press(b) ==
  /\ Event
  /\ button' = [button EXCEPT ![b] = [state |-> "DOWN", on |-> inside]]
  /\ calls' = IF inside /\ b = 1 /\ ~denied THEN <<Cursor("hidden"), Begin("DRAG")>> ELSE <<>>
  /\ irregular' = IF b = 1 THEN denied ELSE irregular
  /\ lost' = IF b # 1 THEN lost ELSE ~inside /\ (lost \/ button[1].on)
  /\ UNCHANGED <<held, ve_state, attached, cursor, inside, mouse_in, denied, strayed, editing>>

\* RTB_MOUSE_LEAVE
LeaveCalls == IF ve_state = "WHEEL" THEN <<End("WHEEL")>> ELSE <<>>

\* RTB_DRAG_START is refused with a modifier held, or for any button but the
\* first; that ends the edit.
Refused(b) == denied \/ b # 1

\* What drag() makes of one button: RTB_DRAG_START or RTB_DRAG_MOTION.
DragCalls(b, d) ==
  IF button[b].state = "UP" \/ ~button[b].on THEN <<>>
  ELSE CASE button[b].state = "DRAG"                -> <<Delta(d)>>
         [] button[b].state = "DOWN" /\ Refused(b)  -> <<Cursor("default"), End("DRAG")>>
         [] button[b].state = "DOWN" /\ ~Refused(b) -> <<Cursor("hidden"), Delta(d)>>

\* Where the pointer can be: over the element, and strictly within the window or
\* not. An element may touch the border or reach beyond it.
Place == [over : BOOLEAN, within : BOOLEAN]

\* The pointer is now at p: RTB_MOUSE_LEAVE if the element is left on the way,
\* then the drag of each button.
Follow(p, d, leaves) ==
  /\ inside' = p.over
  /\ button' = [b \in 1 .. 2 |->
                  IF button[b].state = "UP" THEN button[b]
                  ELSE [state |-> "DRAG",
                        on |-> button[b].on /\ (button[b].state = "DRAG" \/ ~Refused(b))]]
  /\ calls' = (IF leaves THEN LeaveCalls ELSE <<>>) \o DragCalls(1, d) \o DragCalls(2, d)
  /\ irregular' = (irregular \/ (button[1].on /\ button[2].state = "DOWN" /\ button[2].on))
  /\ UNCHANGED <<held, ve_state, attached, cursor, denied, lost, editing>>

\* rtb__platform_mouse_motion. Outside of the window the pointer is followed
\* while a button is down.
Motion(p, d) ==
  /\ Event
  /\ mouse_in \/ (~p.within /\ \E b \in 1 .. 2 : button[b].state # "UP")
  /\ Follow(p, d, inside /\ ~p.over)
  /\ strayed' = (strayed /\ ~p.over)
  /\ UNCHANGED mouse_in

\* rtb__platform_mouse_enter_window, which the first motion within the window
\* comes to as well. It leaves what the pointer was in only if that was in the
\* window.
EnterWindow(p, d) ==
  /\ Event
  /\ Follow(p, d, inside /\ mouse_in)
  /\ strayed' = ((strayed \/ (inside /\ ~mouse_in)) /\ ~p.over)
  /\ mouse_in' = TRUE

\* rtb__platform_mouse_leave_window. The buttons stay as they are.
LeaveWindow ==
  /\ Event
  /\ calls' = IF inside THEN LeaveCalls ELSE <<>>
  /\ inside' = FALSE /\ mouse_in' = FALSE
  /\ UNCHANGED <<held, ve_state, attached, cursor, button, denied, irregular, lost, strayed, editing>>

\* Mutation: a release elsewhere ends no drag.
EndsInside(b) == b = 1 /\ inside

\* RTB_MOUSE_UP comes to the element under the pointer, and RTB_DRAG_DROP, if
\* that is another one, to the target of a drag: both end the edit. A button that
\* was released before any motion has nothing to drop.
EndsDrag(b) == b = 1 /\ (inside \/ (button[b].on /\ button[b].state = "DRAG"))

\* A release. A click that is not the first of its series, and was no drag,
\* resets the value: handle_mouse_click, handle_reset.
Release(b) ==
  /\ Event
  /\ button' = [button EXCEPT ![b] = [state |-> "UP", on |-> FALSE]]
  /\ LET ends == IF EndsDrag(b) THEN <<Cursor("default"), End("DRAG")>> ELSE <<>>
     IN  \/ calls' = ends
         \/ /\ inside /\ button[b].on /\ b = 1 /\ button[b].state = "DOWN"
            /\ calls' = Discretely(<<SetTo(Origin, TRUE)>>) \o ends
  /\ irregular' = (irregular /\ b # 1)
  /\ lost' = IF b # 1 THEN lost
             ELSE ~inside /\ (lost \/ (button[1].on /\ button[1].state = "DOWN"))
  /\ UNCHANGED <<held, ve_state, attached, cursor, inside, mouse_in, denied, strayed, editing>>

\* RTB_MOUSE_WHEEL: handle_mouse_wheel
Wheel(d) ==
  /\ Event /\ inside
  /\ calls' = <<Begin("WHEEL"), Delta(d)>>
  /\ UNCHANGED <<held, ve_state, attached, pointer, editing>>

\* RTB_KEY_PRESS, with the focus: handle_key
Key(d) ==
  /\ Event
  /\ calls' = Discretely(<<Delta(d)>>)
  /\ UNCHANGED <<held, ve_state, attached, pointer, editing>>

\* rtb_event_is_from_user tests bit 0, which RTB_EVENT_SOURCE_USER_DIRECT has not.
FromUser(source) == source = "derived"

\* rtb_value_element_set_value and _set_normalised_value, called by the
\* application. The change is told of as the user's if the event it derives
\* from is.
AppSet(op, v, source) ==
  /\ Idle
  /\ calls' = IF FromUser(source) THEN Discretely(<<Op(op, "none", v, TRUE)>>)
              ELSE <<Op(op, source, v, source = "direct")>>
  /\ UNCHANGED <<held, ve_state, attached, pointer, editing>>

\* attached() sets the value twice, then the widget calls its hook.
Attach ==
  /\ Idle /\ ~attached /\ attached' = TRUE
  /\ LET set == SetTo(IF norm = -1 THEN Origin ELSE value \div Precision, FALSE)
     IN  calls' = <<set, set, Op("hook", "none", 0, FALSE)>>
  /\ UNCHANGED <<held, ve_state, pointer, editing>>

\* Removed from the tree, with no gesture under way.
Detach ==
  /\ Event /\ ~inside /\ \A b \in 1 .. 2 : button[b].state = "UP"
  /\ attached' = FALSE
  /\ UNCHANGED <<held, ve_state, pointer, calls, editing>>

-------------------------------------------------------------------------------
Next ==
  \/ Modifier \/ Attach \/ Detach
  \/ \E b \in 1 .. 2 : Press(b) \/ Release(b)
  \/ \E d \in Deltas : \/ Wheel(d) \/ Key(d)
                      \/ \E p \in Place : Motion(p, d) \/ EnterWindow(p, d)
  \/ LeaveWindow
  \/ \E s \in Sources : \/ \E v \in Asked : AppSet("set", v, s)
                       \/ \E n \in Fractions : AppSet("fraction", n, s)
  \/ DoDelta \/ DoSet \/ DoFraction \/ DoHook \/ DoBegin \/ DoEnd \/ DoChange \/ DoCursor

Spec == Init /\ [][Next]_vars

-------------------------------------------------------------------------------
\* The types of the variables.
TypeOK ==
  /\ norm \in -1 .. Precision /\ value \in Int
  /\ shown \in [norm : -1 .. Precision, value : Int]
  /\ ve_state \in {"REST", "DRAG", "WHEEL", "DISCRETE"}
  /\ attached \in BOOLEAN /\ inside \in BOOLEAN /\ mouse_in \in BOOLEAN /\ denied \in BOOLEAN
  /\ irregular \in BOOLEAN /\ lost \in BOOLEAN /\ strayed \in BOOLEAN
  /\ cursor \in {"default", "hidden"}
  /\ button \in [1 .. 2 -> [state : {"UP", "DOWN", "DRAG"}, on : BOOLEAN]]
  /\ \A i \in DOMAIN calls :
       calls[i].op \in {"begin", "end", "delta", "set", "fraction", "hook", "change", "cursor"}

\* The application is told of the beginning and the end of edits in turn, an
\* edit that takes over from another being one with it, however handlers nest.
EditsPaired == editing = IF ve_state = "REST" THEN 0 ELSE 1

\* A change the user makes is told of between the beginning and the end of an
\* edit: always, but for a drag that was denied when the button was pressed or
\* that the second button has cut short, and for a value the application derives
\* from a mouse or key event, which rtb_event_is_from_user does not recognise.
EditsBracketChanges ==
  Running("change") /\ Top.user => editing = 1 \/ irregular \/ Top.to = "direct"

\* No edit outlives what it came from: a drag's the button, a wheel's the
\* pointer, a discrete one the call. Excepted are a drag whose release went
\* elsewhere and a wheel's edit in an element the window's entry has forgotten.
EditsEnd ==
  Idle => /\ ve_state # "DISCRETE"
          /\ ve_state = "DRAG" => (button[1].state # "UP" /\ button[1].on) \/ lost
          /\ ve_state = "WHEEL" => inside \/ strayed

\* A hidden cursor comes back: it is hidden only while the button is held on the
\* element, or after its release went elsewhere.
CursorComesBack ==
  Idle /\ cursor = "hidden" => (button[1].state # "UP" /\ button[1].on) \/ lost

\* What the knob's rotor and the spinbox's text show is the value, although on a
\* grid the hook is not called for every change of the normalised value.
ShowsValue ==
  attached /\ (calls = <<>> \/ Running("change")) =>
    /\ shown.value = value
    /\ OnGrid(Low * Precision + shown.norm * Span) = value

\* Of the gestures (handle_mouse_down, handle_drag, on_event): what they began
\* ends with them, the edit and the hidden cursor.
GesturesEnd == EditsEnd /\ CursorComesBack

\* Of the value, however the calls that set it nest.
ValueSound == TypeOK /\ ShowsValue
===============================================================================
