------------------------------- MODULE Patchbay -------------------------------
(***************************************************************************)
(* The patchbay widget: ports, the patches between them, and the gesture   *)
(* that patches two of them (widgets/patchbay). Positions, colours and the *)
(* order patches are drawn in are left out.                                *)
(***************************************************************************)
EXTENDS Naturals, FiniteSets

CONSTANTS
  Port,        \* every port there may be
  OutputPort,  \* those of PORT_TYPE_OUTPUT
  Nothing      \* NULL, or an element that is not a port

ASSUME PortAssumption == IsFiniteSet(Port) /\ OutputPort \subseteq Port /\ Nothing \notin Port

VARIABLES
  ports,     \* the ports that are initialised
  patches,   \* canvas->patches: how many there are between two ports
  lists,     \* port->patches of every port, as the ports they are between
  progress,  \* canvas->patch_in_progress
  mouse,     \* button 1: its state and target; the element underneath; mouse_in
  loose,     \* history: a port was freed that a gesture under way is about
  lost,      \* history: the release of a button pressed on a port came to no port:
             \* the window was left in between, with no motion, or the button was
             \* pressed again elsewhere
  strayed    \* history: the pointer entered the window while it was over a port
             \* from outside of it, which forgets the port with no event

graph   == <<ports, patches, lists>>
gesture == <<progress, mouse, loose, lost, strayed>>

Patch == OutputPort \X (Port \ OutputPort)

\* The ports that canvas->patches has patches between.
Linked == {c \in Patch : patches[c] > 0}

SameType(a, b) == a \in OutputPort <=> b \in OutputPort

\* from and to, whichever way round the ports were given.
Pair(a, b) == IF a \in OutputPort THEN <<a, b>> ELSE <<b, a>>

\* get_patch, rtb_patchbay_are_ports_connected
HasPatch(a, b) == ~SameType(a, b) /\ Pair(a, b) \in lists[Pair(a, b)[1]]

\* rtb_patchbay_free_patch, for each patch in the set
FreePatches(gone) ==
  /\ patches' = [c \in Patch |-> IF c \in gone THEN 0 ELSE patches[c]]
  /\ lists' = [p \in Port |-> lists[p] \ gone]

\* rtb_patchbay_disconnect_ports
Disconnect(a, b) ==
  IF HasPatch(a, b) THEN FreePatches({Pair(a, b)}) ELSE UNCHANGED <<patches, lists>>

\* Mutation: no look at whether there is such a patch.
ConnectAgain(a, b) ==
  /\ patches' = [patches EXCEPT ![Pair(a, b)] = @ + 1]
  /\ lists' = [p \in Port |-> lists[p] \cup IF p \in {a, b} THEN {Pair(a, b)} ELSE {}]

\* rtb_patchbay_connect_ports
Connect(a, b) ==
  IF SameType(a, b) \/ HasPatch(a, b) THEN UNCHANGED <<patches, lists>>
  ELSE /\ patches' = [patches EXCEPT ![Pair(a, b)] = @ + 1]
       /\ lists' = [p \in Port |-> lists[p] \cup IF p \in {a, b} THEN {Pair(a, b)} ELSE {}]

\* rtb_patchbay_port_init
PortInit(p) ==
  /\ ports' = ports \cup {p}
  /\ lists' = [lists EXCEPT ![p] = {}]

\* rtb_patchbay_port_fini. Unlinking the port from the tree moves the pointer to
\* its parent; patch_in_progress, and a button pressed on the port when the
\* pointer has left it, keep the address.
PortFini(gone) ==
  /\ ports' = ports \ gone
  /\ FreePatches(UNION {lists[p] : p \in gone})
  /\ loose' = (loose \/ {mouse.target, progress.from, progress.to} \cap gone # {})
  /\ mouse' = [mouse EXCEPT !.under = IF @ \in gone THEN Nothing ELSE @]
  /\ UNCHANGED <<progress, lost, strayed>>

-------------------------------------------------------------------------------
(***************************************************************************)
(* The gesture. What the code does with a loose port is undefined: nothing *)
(* is said of the pointer from there on.                                   *)
(***************************************************************************)
Idle == [from |-> Nothing, to |-> Nothing]

\* RTB_MOUSE_DOWN: start_patching. The button need not be up.
Press ==
  /\ ~loose
  /\ mouse' = [mouse EXCEPT !.state = "DOWN", !.target = mouse.under]
  /\ progress' = IF mouse.under \in Port THEN [Idle EXCEPT !.from = mouse.under] ELSE progress
  /\ lost' = (mouse.under \notin Port /\ (lost \/ mouse.target \in Port))
  /\ strayed' = (strayed /\ lost')
  /\ UNCHANGED <<graph, loose>>

\* RTB_DRAG_LEAVE to what is underneath
Left == IF mouse.state = "DRAG" /\ mouse.under \in Port
        THEN [progress EXCEPT !.to = Nothing] ELSE progress

\* RTB_DRAG_ENTER to u, with patch p in progress
Entered(p, u) ==
  IF mouse.state = "DRAG" /\ u \in Port /\ p.from # Nothing /\ ~SameType(u, p.from)
  THEN [p EXCEPT !.to = u] ELSE p

\* RTB_DRAG_START or RTB_DRAG_MOTION, over u
Dragged(u) == [mouse EXCEPT !.under = u, !.state = IF @ = "DOWN" THEN "DRAG" ELSE @]

\* rtb__platform_mouse_motion: retarget and drag. On one port the pointer may pass
\* from the label to the margin, which it leaves the port for, or back. Outside of
\* the window it is followed while a button is down, this one or another.
MovePointer(u) ==
  /\ ~loose
  /\ mouse' = Dragged(u)
  /\ progress' \in IF u = mouse.under THEN {progress, Left, Entered(progress, u)}
                   ELSE {Entered(Left, u)}
  /\ UNCHANGED <<graph, loose, lost, strayed>>

\* rtb__platform_mouse_enter_window, which the first motion within the window
\* comes to as well. What the pointer was over is left only if it was in the window.
EnterWindow(u) ==
  /\ ~loose
  /\ mouse' = [Dragged(u) EXCEPT !.within = TRUE]
  /\ progress' = Entered(IF mouse.within THEN Left ELSE progress, u)
  /\ strayed' = (strayed \/ (~mouse.within /\ mouse.under \in Port))
  /\ UNCHANGED <<graph, loose, lost>>

\* rtb__platform_mouse_leave_window. The button stays as it is.
LeaveWindow ==
  /\ ~loose
  /\ mouse' = [mouse EXCEPT !.under = Nothing, !.within = FALSE]
  /\ progress' = Left
  /\ UNCHANGED <<graph, loose, lost, strayed>>

\* Dropped on a port of the other type: handle_connection asks the application
\* to connect or to disconnect the two.
Asks == /\ ~loose /\ mouse.state = "DRAG"
        /\ mouse.target \in Port /\ mouse.under \in Port
        /\ ~SameType(mouse.target, mouse.under)

\* Mutation: a drag that is dropped on no port is not stopped.
StopsUnder == mouse.under \in Port

\* stop_patching: by RTB_DRAG_DROP on the port the drag came from, or by
\* RTB_MOUSE_UP on the port under the pointer. A button that was released before
\* any motion has nothing to drop.
Stops == \/ mouse.under \in Port
         \/ mouse.state = "DRAG" /\ mouse.target \in Port

\* What a release leaves of the gesture.
Released ==
  /\ mouse' = [mouse EXCEPT !.state = "UP", !.target = Nothing]
  /\ progress' = IF Stops THEN Idle ELSE progress
  /\ lost' = (mouse.under \notin Port
                /\ (lost \/ (mouse.state = "DOWN" /\ mouse.target \in Port)))
  /\ strayed' = (strayed /\ lost')
  /\ loose' = loose

\* rtb__platform_mouse_release as the ports see it, but for the request.
Release == ~loose /\ Released /\ UNCHANGED graph

\* What draw_patches reads: both ends of every patch and of the one in progress.
Drawn == {c[1] : c \in Linked} \cup {c[2] : c \in Linked}
           \cup ({progress.from, progress.to} \ {Nothing})

PatchbayInit ==
  /\ progress = Idle /\ loose = FALSE /\ lost = FALSE /\ strayed = FALSE
  /\ mouse = [state |-> "UP", target |-> Nothing, under |-> Nothing, within |-> FALSE]

PatchbayTypeOK ==
  /\ ports \subseteq Port
  /\ patches \in [Patch -> Nat]
  /\ lists \in [Port -> SUBSET Patch]
  /\ progress \in [from : Port \cup {Nothing}, to : Port \cup {Nothing}]
  /\ mouse \in [state : {"UP", "DOWN", "DRAG"}, target : Port \cup {Nothing},
                under : Port \cup {Nothing}, within : BOOLEAN]
  /\ loose \in BOOLEAN /\ lost \in BOOLEAN /\ strayed \in BOOLEAN
===============================================================================
