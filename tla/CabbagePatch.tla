----------------------------- MODULE CabbagePatch -----------------------------
(***************************************************************************)
(* examples/cabbage_patch.c: a patchbay that shows the connections of a    *)
(* JACK server and edits them. Two threads share it: the one that runs the *)
(* window, and the one JACK runs the callbacks in, one after the other.    *)
(* The server tells of every change by a notification; other programs      *)
(* change the connections too.                                             *)
(***************************************************************************)
EXTENDS Patchbay, SequencesExt

CONSTANTS
  Client,   \* the programs connected to the server
  Owner,    \* Owner[p]: the client port p belongs to
  Found,    \* Found[p]: the port client_get_port finds for the name of p: the first
            \* of its client's whose name begins with that name, p or a longer one
  MaxSteps  \* how many changes are made to the connections (a bound of the model)

ASSUME ClientAssumption ==
  /\ Owner \in [Port -> Client] /\ MaxSteps \in Nat
  /\ Found \in [Port -> Port] /\ \A p \in Port : Owner[Found[p]] = Owner[p]

VARIABLES
  clients,  \* the list of clients that have a node
  jack,     \* the server: its ports and connections
  notes,    \* the notifications still to be delivered
  lock,     \* who holds the window lock
  ui,       \* the window's thread: polling, event, locked, called, exiting, done
  request,  \* what the window's thread is asking of JACK
  cb,       \* JACK's thread: idle, or what it does with a notification
  missed,   \* history: list_ports took a port for another, or a notification was
            \* ignored that told of something else
  steps     \* how many changes have been made

server == <<jack, notes>>
app    == <<clients, lock, ui, request, cb, missed>>
vars   == <<graph, gesture, server, app, steps>>

NoRequest == [op |-> "none", pair |-> <<>>]
Request   == {NoRequest} \cup [op : {"connect", "disconnect"}, pair : Patch]

Note(kind, of, self) == [kind |-> kind, of |-> of, self |-> self]
NoCall == [at |-> "idle", note |-> Note("none", <<>>, FALSE)]

Connections(P) == {c \in jack.connections : c[1] \in P \/ c[2] \in P}

\* The notifications for a set of connections or ports, in any order.
Each(kind, S) == LET s == SetToSeq(S) IN [i \in DOMAIN s |-> Note(kind, s[i], FALSE)]

\* connect_jack_port, for the connections C
Listed(C) ==
  {Pair(Found[c[1]], Found[c[2]]) : c \in {d \in C : ~SameType(Found[d[1]], Found[d[2]])}}

\* list_ports: what the server has when the program is started, but for the ports
\* that client_get_port takes for others. The server is taken to be at rest from
\* there to jack_activate.
Init ==
  /\ jack \in [ports : {Port}, connections : {C \in SUBSET Patch : Cardinality(C) <= 1}]
  /\ ports = jack.ports /\ clients = {Owner[p] : p \in jack.ports}
  /\ LET shown == Listed(jack.connections)
     IN  /\ patches = [c \in Patch |-> IF c \in shown THEN 1 ELSE 0]
         /\ lists = [p \in Port |-> {c \in shown : p \in {c[1], c[2]}}]
         /\ missed = (shown # jack.connections)
  /\ notes = <<>> /\ lock = "none" /\ ui = "polling" /\ cb = NoCall
  /\ request = NoRequest /\ steps = 0
  /\ PatchbayInit

-------------------------------------------------------------------------------
(***************************************************************************)
(* The server and the other programs                                       *)
(***************************************************************************)
Change == steps < MaxSteps /\ steps' = steps + 1

OtherConnects(c) ==
  /\ Change /\ c \notin jack.connections /\ {c[1], c[2]} \subseteq jack.ports
  /\ jack' = [jack EXCEPT !.connections = @ \cup {c}]
  /\ notes' = Append(notes, Note("connect", c, FALSE))
  /\ UNCHANGED <<graph, gesture, app>>

OtherDisconnects(c) ==
  /\ Change /\ c \in jack.connections
  /\ jack' = [jack EXCEPT !.connections = @ \ {c}]
  /\ notes' = Append(notes, Note("disconnect", c, FALSE))
  /\ UNCHANGED <<graph, gesture, app>>

PortAppears(p) ==
  /\ Change /\ p \notin jack.ports
  /\ jack' = [jack EXCEPT !.ports = @ \cup {p}]
  /\ notes' = Append(notes, Note("registered", p, FALSE))
  /\ UNCHANGED <<graph, gesture, app>>

\* A program closes, or one of its ports: what was connected is told of first,
\* then the ports, then the client.
Vanish(P, left) ==
  /\ Change /\ P # {} /\ P \subseteq jack.ports
  /\ jack' = [ports |-> jack.ports \ P, connections |-> jack.connections \ Connections(P)]
  /\ notes' = notes \o Each("disconnect", Connections(P)) \o Each("unregistered", P)
                    \o Each("client_left", left)
  /\ UNCHANGED <<graph, gesture, app>>

PortVanishes(p) == Vanish({p}, {})
ClientCloses(c) == Vanish({p \in jack.ports : Owner[p] = c}, {c})

-------------------------------------------------------------------------------
(***************************************************************************)
(* The window's thread                                                     *)
(***************************************************************************)

\* rtb_window_lock, before a batch of events or a frame
UiLock ==
  /\ ui = "polling" /\ lock = "none"
  /\ lock' = "ui" /\ ui' = "event"
  /\ UNCHANGED <<graph, gesture, server, clients, request, cb, missed, steps>>

UiUnlock ==
  /\ ui = "event" /\ request = NoRequest
  /\ lock' = "none" /\ ui' = "polling"
  /\ UNCHANGED <<graph, gesture, server, clients, request, cb, missed, steps>>

UiPointer ==
  /\ ui = "event" /\ request = NoRequest
  /\ \/ Press
     \/ \E u \in ports \cup {Nothing} : MovePointer(u) \/ EnterWindow(u)
     \/ LeaveWindow
     \/ ~Asks /\ Release
  /\ UNCHANGED <<server, app, steps>>

\* A drop: dispatch_connect or dispatch_disconnect.
UiDrop ==
  /\ ui = "event" /\ request = NoRequest /\ Asks /\ Change
  /\ request' = [op |-> IF HasPatch(mouse.target, mouse.under) THEN "disconnect" ELSE "connect",
                 pair |-> Pair(mouse.target, mouse.under)]
  /\ UNCHANGED <<graph, gesture, server, clients, lock, ui, cb, missed>>

\* connection, disconnection: connection_from_gui is locked
UiMutex ==
  /\ ui = "event" /\ request # NoRequest
  /\ ui' = "locked"
  /\ UNCHANGED <<graph, gesture, server, clients, lock, request, cb, missed, steps>>

\* jack_connect, jack_disconnect: what the server does. The request is dropped if
\* it refuses. Whether the call waits for JACK's thread is up to the server.
UiCall ==
  /\ ui = "locked"
  /\ ui' = "called"
  /\ LET c  == request.pair
         on == request.op = "connect"
     IN  IF {c[1], c[2]} \subseteq jack.ports /\ (c \in jack.connections <=> ~on)
         THEN /\ jack' = [jack EXCEPT !.connections = IF on THEN @ \cup {c} ELSE @ \ {c}]
              /\ notes' = Append(notes, Note(request.op, c, TRUE))
              /\ UNCHANGED request
         ELSE request' = NoRequest /\ UNCHANGED server
  /\ UNCHANGED <<graph, gesture, clients, lock, cb, missed, steps>>

\* Mutation: the showing is left to the notification.
UiShowLater ==
  /\ ui = "called"
  /\ ui' = "event" /\ request' = NoRequest
  /\ Released
  /\ UNCHANGED <<graph, server, clients, lock, cb, missed, steps>>

\* What the server has done is shown, connection_from_gui is unlocked, and the
\* rest of the release is gone through.
UiShow ==
  /\ ui = "called"
  /\ ui' = "event" /\ request' = NoRequest
  /\ CASE request.op = "connect"    -> Connect(request.pair[1], request.pair[2])
       [] request.op = "disconnect" -> FreePatches({request.pair})
       [] OTHER                     -> UNCHANGED <<patches, lists>>
  /\ Released
  /\ UNCHANGED <<ports, server, clients, lock, cb, missed, steps>>

\* Mutation: main gives the lock back before it closes the JACK client.
UiExitUnlocked ==
  /\ ui = "polling" /\ lock = "none"
  /\ lock' = "none" /\ ui' = "exiting"
  /\ clients' = {}
  /\ PortFini(ports)
  /\ UNCHANGED <<server, request, cb, missed, steps>>

\* The event loop has ended: main takes the lock, never to give it back, and
\* frees the clients (free_client_tailq).
UiExit ==
  /\ ui = "polling" /\ lock = "none"
  /\ lock' = "ui" /\ ui' = "exiting"
  /\ clients' = {}
  /\ PortFini(ports)
  /\ UNCHANGED <<server, request, cb, missed, steps>>

\* Mutation: the window lock is taken again.
UiCloseLocked ==
  /\ ui = "exiting" /\ cb = NoCall /\ lock = "none"
  /\ ui' = "done" /\ notes' = <<>>
  /\ UNCHANGED <<graph, gesture, jack, clients, lock, request, cb, missed, steps>>

\* fini_jack: closing the client waits for its thread.
UiClose ==
  /\ ui = "exiting" /\ cb = NoCall
  /\ ui' = "done" /\ notes' = <<>>
  /\ UNCHANGED <<graph, gesture, jack, clients, lock, request, cb, missed, steps>>

-------------------------------------------------------------------------------
(***************************************************************************)
(* JACK's thread                                                           *)
(***************************************************************************)
IsConnection(n) == n.kind \in {"connect", "disconnect"}

\* pthread_mutex_trylock(&state.connection_from_gui) fails
GuiHasMutex == ui \in {"locked", "called"}

\* The call the window's thread is in is the one the notification tells of.
OwnNote(n) == n.self /\ ui = "called" /\ request = [op |-> n.kind, pair |-> n.of]

\* jackport_to_rtbport without ALLOCATE: both ports are shown.
Known(n) == {Owner[n.of[1]], Owner[n.of[2]]} \subseteq clients /\ {n.of[1], n.of[2]} \subseteq ports

\* port_connection up to the lock, port_registration, client_registration:
\* a notification is ignored or the thread goes on to wait for the lock.
Called ==
  /\ cb = NoCall /\ notes # <<>> /\ ui # "done"
  /\ LET n == Head(notes)
         ignored == \/ IsConnection(n) /\ (GuiHasMutex \/ ~Known(n))
                    \/ n.kind = "client_left" /\ n.of \notin clients
     IN  /\ cb' = IF ignored THEN NoCall ELSE [at |-> "waiting", note |-> n]
         /\ missed' = (missed \/ (IsConnection(n) /\ GuiHasMutex /\ ~OwnNote(n)))
  /\ notes' = Tail(notes)
  /\ UNCHANGED <<graph, gesture, jack, clients, lock, ui, request, steps>>

CallbackLock ==
  /\ cb.at = "waiting" /\ lock = "none"
  /\ lock' = "jack" /\ cb' = [cb EXCEPT !.at = "holding"]
  /\ UNCHANGED <<graph, gesture, server, clients, ui, request, missed, steps>>

\* Mutation: a port that goes takes its client's node with it.
NodesOfPorts(n) ==
  CASE n.kind = "registered"   -> clients \cup {Owner[n.of]}
    [] n.kind = "unregistered" -> clients \ {Owner[n.of]}
    [] n.kind = "client_left"  -> clients \ {n.of}

\* The nodes: get_client_or_alloc makes one for any port told of, free_client
\* takes one away.
Nodes(n) == IF n.kind = "client_left" THEN clients \ {n.of} ELSE clients \cup {Owner[n.of]}

\* What a callback does under the lock.
CallbackBody ==
  /\ cb.at = "holding"
  /\ LET n == cb.note IN
     \/ /\ n.kind = "connect" /\ Connect(n.of[1], n.of[2])
        /\ UNCHANGED <<ports, clients, gesture>>
     \/ /\ n.kind = "disconnect" /\ Disconnect(n.of[1], n.of[2])
        /\ UNCHANGED <<ports, clients, gesture>>
     \/ /\ n.kind = "registered" /\ clients' = Nodes(n)
        /\ PortInit(n.of) /\ UNCHANGED <<patches, gesture>>
     \/ /\ n.kind = "unregistered" /\ clients' = Nodes(n)
        /\ PortFini({n.of} \cap ports)
     \/ /\ n.kind = "client_left" /\ clients' = Nodes(n)
        /\ PortFini({p \in ports : Owner[p] = n.of})
  /\ lock' = "none" /\ cb' = NoCall
  /\ UNCHANGED <<server, ui, request, missed, steps>>

-------------------------------------------------------------------------------
Next ==
  \/ \E c \in Patch : OtherConnects(c) \/ OtherDisconnects(c)
  \/ \E p \in Port : PortAppears(p) \/ PortVanishes(p)
  \/ \E c \in Client : ClientCloses(c)
  \/ UiLock \/ UiUnlock \/ UiPointer \/ UiDrop \/ UiMutex \/ UiCall \/ UiShow
  \/ UiExit \/ UiClose
  \/ Called \/ CallbackLock \/ CallbackBody

\* The window's thread asks the server, which may wait for JACK's thread
\* (cabbage_patch.c:503), while that waits for the window lock: past the trylock
\* when connection_from_gui was locked, or with a notification of another kind.
Hung == ui \in {"locked", "called"} /\ cb.at = "waiting"

\* Both threads go on, and the window lock, which the window's thread gives
\* back after every batch of events, comes to the one that waits for it. JACK's
\* calls return unless its thread waits. Nobody has to move the mouse or to close
\* the window.
Fairness ==
  /\ WF_vars(UiUnlock) /\ WF_vars(UiMutex) /\ WF_vars(UiClose)
  /\ WF_vars(~Hung /\ UiCall) /\ WF_vars(~Hung /\ UiShow)
  /\ WF_vars(Called) /\ SF_vars(CallbackLock) /\ WF_vars(CallbackBody)

Spec == Init /\ [][Next]_vars /\ Fairness

-------------------------------------------------------------------------------
\* The types of the variables.
TypeOK ==
  /\ PatchbayTypeOK
  /\ clients \subseteq Client
  /\ jack.ports \subseteq Port /\ jack.connections \subseteq Patch
  /\ lock \in {"none", "ui", "jack"}
  /\ ui \in {"polling", "event", "locked", "called", "exiting", "done"}
  /\ request \in Request
  /\ cb.at \in {"idle", "waiting", "holding"}
  /\ missed \in BOOLEAN /\ steps \in 0 .. MaxSteps

\* The three lists a patch is linked into (port.c:333-335) agree, and a pair of
\* ports has one patch at most, although both threads make patches: the window's
\* thread for a connection it has made, JACK's thread when it is told of it.
ListsAgree ==
  /\ \A c \in Patch : patches[c] <= 1
  /\ \A p \in Port : lists[p] = {c \in Linked : p \in {c[1], c[2]}}

\* What draw_patches reads is there: a patch does not outlive its ports, and
\* patch_in_progress does not either unless a port is freed in a gesture.
DrawsWhatIsThere == ~loose => Drawn \subseteq ports

\* A patch is in progress just while the button is held that was pressed on its
\* port, unless the release came to no port, and leads to the port under the
\* pointer only, unless the window's entry has forgotten that port.
PatchFollowsButton ==
  ~loose /\ ui # "exiting" /\ ui # "done" =>
    /\ lost \/ progress.from = IF mouse.state = "UP" THEN Nothing ELSE mouse.target
    /\ strayed \/ progress.to \in {Nothing, mouse.under}

\* port_connection looks its ports up before it takes the window lock
\* (cabbage_patch.c:456): they are still there when it has it.
CallbackPortsLive ==
  cb.at = "holding" /\ IsConnection(cb.note) => {cb.note.of[1], cb.note.of[2]} \subseteq ports

\* The patchbay shows what the server has.
Shown == ports = jack.ports /\ Linked = jack.connections

\* With nothing left to be told the patchbay shows what the server has, unless a
\* notification about something else came while the window's thread held
\* connection_from_gui, or list_ports took a port for another.
ShownWhenTold ==
  notes = <<>> /\ cb = NoCall /\ ui \in {"polling", "event"} /\ request = NoRequest
    => missed \/ Shown

\* After the last change the patchbay comes to show what the server has, unless the
\* two threads wait for one another.
ShownAtLast == <>[](missed \/ Shown \/ Hung \/ ui \in {"exiting", "done"})

\* Main, which closes the JACK client with the window lock held
\* (cabbage_patch.c:613), gets to its end unless a callback waits for the lock.
ExitsUnlessCalled == ui = "exiting" ~> (ui = "done" \/ cb.at = "waiting")

\* Of the patchbay: its lists are consistent whichever thread has the lock.
PatchbaySound == TypeOK /\ ListsAgree

\* Of the gesture: whatever ports come and go during a drag, what is drawn of it
\* is there and is what the pointer is doing (draw_patches, on_event).
GestureSound == DrawsWhatIsThere /\ PatchFollowsButton
===============================================================================
