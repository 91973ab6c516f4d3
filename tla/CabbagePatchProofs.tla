--------------------------- MODULE CabbagePatchProofs ---------------------------
(***************************************************************************)
(* Theorems about the two threads of cabbage_patch, for any ports, any     *)
(* clients and any number of changes on the server.                        *)
(***************************************************************************)
EXTENDS CabbagePatch, FiniteSetTheorems, SequenceTheorems, TLAPS

-------------------------------------------------------------------------------
\* The window lock is where the code of its holder is: main, which takes it for
\* good when the event loop ends, and a callback never have it together.
LockHeld ==
  /\ ui \in {"event", "locked", "called", "exiting", "done"} => lock = "ui"
  /\ cb.at = "holding" => lock = "jack"
  /\ ui \in {"polling", "event", "locked", "called", "exiting", "done"}

\* A callback that waits may lose its ports to main only, and then waits for ever.
PortsKept ==
  cb.at \in {"waiting", "holding"} /\ IsConnection(cb.note) =>
    \/ {cb.note.of[1], cb.note.of[2]} \subseteq ports
    \/ cb.at = "waiting" /\ ui \in {"exiting", "done"}

CallbackInv == LockHeld /\ PortsKept

LEMMA NoCallFacts == NoCall.at = "idle"
BY DEF NoCall

LEMMA InitCallback == Init => CallbackInv
BY NoCallFacts DEF Init, CallbackInv, LockHeld, PortsKept

\* Nothing changes for a callback while others change the server.
LEMMA ServerCallback ==
  ASSUME CallbackInv, UNCHANGED <<graph, app>>
  PROVE  CallbackInv'
BY DEF CallbackInv, LockHeld, PortsKept, IsConnection, graph, app

LEMMA UiCallback ==
  ASSUME CallbackInv,
         UiLock \/ UiUnlock \/ UiPointer \/ UiDrop \/ UiMutex \/ UiCall \/ UiShow \/ UiExit \/ UiClose
  PROVE  CallbackInv'
<1>. USE DEF CallbackInv, LockHeld, PortsKept, IsConnection
<1>1. CASE UiLock
  BY <1>1 DEF UiLock, graph
<1>2. CASE UiUnlock
  BY <1>2 DEF UiUnlock, graph
<1>3. CASE UiPointer
  BY <1>3 DEF UiPointer, app, graph, Press, MovePointer, EnterWindow, LeaveWindow, Release
<1>4. CASE UiDrop
  BY <1>4 DEF UiDrop, graph
<1>5. CASE UiMutex
  BY <1>5 DEF UiMutex, graph
<1>6. CASE UiCall
  BY <1>6 DEF UiCall, graph
<1>7. CASE UiShow
  BY <1>7 DEF UiShow
<1>8. CASE UiExit
  BY <1>8 DEF UiExit
<1>9. CASE UiClose
  BY <1>9 DEF UiClose, graph
<1>. QED  BY <1>1, <1>2, <1>3, <1>4, <1>5, <1>6, <1>7, <1>8, <1>9

LEMMA JackCallback ==
  ASSUME CallbackInv, Called \/ CallbackLock \/ CallbackBody
  PROVE  CallbackInv'
<1>1. CASE Called
  <2>1. CASE cb' = NoCall
    BY <1>1, <2>1, NoCallFacts DEF Called, CallbackInv, LockHeld, PortsKept
  <2>2. CASE cb' # NoCall
    <3>1. cb' = [at |-> "waiting", note |-> Head(notes)]
      BY <1>1, <2>2 DEF Called
    <3>2. IsConnection(Head(notes)) => Known(Head(notes))
      BY <1>1, <2>2 DEF Called
    <3>3. cb'.at = "waiting" /\ cb'.note = Head(notes) /\ UNCHANGED <<ports, ui, lock>>
      BY <1>1, <3>1 DEF Called, graph
    <3>. QED  BY <3>2, <3>3 DEF CallbackInv, LockHeld, PortsKept, Known, IsConnection
  <2>. QED  BY <2>1, <2>2
<1>2. CASE CallbackLock
  <2>1. cb'.at = "holding" /\ cb'.note = cb.note
    BY <1>2 DEF CallbackLock
  <2>. QED  BY <1>2, <2>1 DEF CallbackLock, CallbackInv, LockHeld, PortsKept, IsConnection, graph
<1>3. CASE CallbackBody
  BY <1>3, NoCallFacts DEF CallbackBody, CallbackInv, LockHeld, PortsKept
<1>. QED  BY <1>1, <1>2, <1>3

LEMMA NextCallback == CallbackInv /\ [Next]_vars => CallbackInv'
<1>. SUFFICES ASSUME CallbackInv, [Next]_vars PROVE CallbackInv'
  OBVIOUS
<1>1. ASSUME NEW c \in Patch, OtherConnects(c) \/ OtherDisconnects(c) PROVE CallbackInv'
  BY <1>1, ServerCallback DEF OtherConnects, OtherDisconnects
<1>2. ASSUME NEW p \in Port, PortAppears(p) \/ PortVanishes(p) PROVE CallbackInv'
  BY <1>2, ServerCallback DEF PortAppears, PortVanishes, Vanish
<1>3. ASSUME NEW c \in Client, ClientCloses(c) PROVE CallbackInv'
  BY <1>3, ServerCallback DEF ClientCloses, Vanish
<1>4. CASE UNCHANGED vars
  BY <1>4, ServerCallback DEF vars
<1>. QED  BY <1>1, <1>2, <1>3, <1>4, UiCallback, JackCallback DEF Next

\* Whatever programs come and go: the ports a callback has looked up before it
\* takes the window lock are still there when it has it. Only main frees ports
\* from another thread, and main then keeps the lock.
THEOREM PortsLive == Spec => []CallbackPortsLive
<1>1. CallbackInv => CallbackPortsLive
  BY DEF CallbackInv, PortsKept, CallbackPortsLive
<1>. QED  BY <1>1, InitCallback, NextCallback, PTL DEF Spec
-------------------------------------------------------------------------------
(***************************************************************************)
(* What the notifications still to come say                                *)
(***************************************************************************)

\* After the first n notes of s, of which those in Y say yes and those in N say
\* no, the answer is yes; base is the answer before.
Says(s, n, Y, N, base) ==
  \/ base /\ \A k \in 1 .. n : s[k] \notin N
  \/ \E i \in 1 .. n : s[i] \in Y /\ \A k \in i + 1 .. n : s[k] \notin N

\* The answer once JACK's thread has done what it is at.
Done(Y, N, base) == IF cb.at = "idle" THEN base ELSE cb.note \in Y \/ (base /\ cb.note \notin N)

NoteType ==
  {n \in [kind : {"connect", "disconnect", "registered", "unregistered", "client_left"},
          of : Patch \cup Port \cup Client, self : BOOLEAN] :
     /\ n.kind \in {"connect", "disconnect"} => n.of \in Patch
     /\ n.kind \in {"registered", "unregistered"} => n.of \in Port
     /\ n.kind = "client_left" => n.of \in Client}

Made(p)  == {n \in NoteType : n.kind = "registered" /\ n.of = p}
Freed(p) == {n \in NoteType : n.kind = "unregistered" /\ n.of = p}

\* A patch is made for a connection, and freed with it or with a port of its.
Patched(c) == {n \in NoteType : n.kind = "connect" /\ n.of = c}
Cut(c)     == {n \in NoteType : /\ n.kind \in {"disconnect", "unregistered"}
                                /\ n.of \in IF n.kind = "disconnect" THEN {c} ELSE {c[1], c[2]}}

\* The client of the port is told to have left.
Orphans(n, p) == n.kind = "client_left" /\ n.of = Owner[p]

AppTyped ==
  /\ clients \subseteq Client
  /\ jack \in [ports : SUBSET Port, connections : SUBSET Patch]
  /\ notes \in Seq(NoteType)
  /\ lock \in {"none", "ui", "jack"}
  /\ ui \in {"polling", "event", "locked", "called", "exiting", "done"}
  /\ request \in Request
  /\ cb \in {NoCall} \cup [at : {"waiting", "holding"}, note : NoteType]
  /\ missed \in BOOLEAN /\ steps \in 0 .. MaxSteps

GraphOK ==
  ports \subseteq Port /\ patches \in [Patch -> Nat] /\ lists \in [Port -> SUBSET Patch] /\ ListsAgree

Gone == ui \in {"exiting", "done"}

\* A patch is linked between ports that are there, as the nodes of ports are.
LinkInv ==
  /\ \A c \in Linked : {c[1], c[2]} \subseteq ports
  /\ \A p \in ports : Owner[p] \in clients
  /\ Gone => ports = {}

\* What is asked of the server is about the ports that the drag was between.
RequestInv ==
  /\ request # NoRequest =>
       ui \in {"event", "locked", "called"} /\ {request.pair[1], request.pair[2]} \subseteq ports
  /\ ui = "locked" => request # NoRequest
  /\ request # NoRequest \/ ui = "called" => mouse.state = "DRAG" /\ mouse.target \in Port

Place == Port \cup {Nothing}
Patching == [from : Place, to : Place]
Button == [state : {"UP", "DOWN", "DRAG"}, target : Place, under : Place, within : BOOLEAN]

GestureTyped ==
  /\ progress \in Patching /\ mouse \in Button
  /\ loose \in BOOLEAN /\ lost \in BOOLEAN /\ strayed \in BOOLEAN

\* Only a drag leads a patch anywhere, and none leads from nowhere.
GestureInv ==
  /\ mouse.under \in ports \cup {Nothing}
  /\ ~loose =>
       /\ {mouse.target, progress.from, progress.to} \subseteq ports \cup {Nothing}
       /\ mouse.state = "UP" => mouse.target = Nothing
       /\ progress.from = Nothing => progress.to = Nothing
       /\ ~lost => progress.from = IF mouse.state = "UP" THEN Nothing ELSE mouse.target
       /\ ~strayed => /\ progress.to \in {Nothing, mouse.under}
                      /\ mouse.state # "DRAG" => progress.to = Nothing

GestureOK == ports \subseteq Port /\ GestureTyped /\ GestureInv

In(n, p)  == Says(notes, n, Made(p), Freed(p), Done(Made(p), Freed(p), p \in ports))
Out(n, p) == Says(notes, n, Freed(p), Made(p), Done(Freed(p), Made(p), p \notin ports))

\* What takes a port to be there, or not to be, comes when it is so.
Fits(n, note, p) ==
  /\ note \in Made(p) \/ Orphans(note, p) => Out(n, p)
  /\ note.kind = "connect" /\ p \in {note.of[1], note.of[2]} => In(n, p)

\* A port is told of when it comes and when it goes, in turn.
PortOK(p) ==
  /\ p \in jack.ports => In(Len(notes), p)
  /\ p \notin jack.ports => Out(Len(notes), p)
  /\ \A j \in 1 .. Len(notes) : Fits(j - 1, notes[j], p)
  /\ cb.at # "idle" /\ (cb.note \in Made(p) \/ Orphans(cb.note, p)) => p \notin ports

PortInv == \A p \in Port : PortOK(p)

\* A connection the window's thread has made or cut is about to be shown.
Showing(c) == ui = "called" /\ request # NoRequest /\ request.pair = c
Shows(c)   == IF Showing(c) THEN request.op = "connect" ELSE c \in Linked

\* What the server has of a connection is what is shown once all is told.
ConnectionOK(c) ==
  /\ c \in jack.connections =>
       Says(notes, Len(notes), Patched(c), Cut(c), Done(Patched(c), Cut(c), Shows(c)))
  /\ c \notin jack.connections =>
       Says(notes, Len(notes), Cut(c), Patched(c), Done(Cut(c), Patched(c), ~Shows(c)))

ConnectionInv == \A c \in Patch : ConnectionOK(c)

PatchInv == AppTyped /\ CallbackInv /\ GraphOK /\ LinkInv /\ RequestInv /\ GestureOK
ToldInv  == ~Gone => PortInv /\ (~missed => ConnectionInv)

-------------------------------------------------------------------------------
(***************************************************************************)
(* Sequences of notifications                                              *)
(***************************************************************************)
LEMMA SaysPrefix ==
  ASSUME NEW T, NEW s \in Seq(T), NEW t \in Seq(T), NEW n \in 0 .. Len(s), NEW Y, NEW N, NEW base
  PROVE  Says(s \o t, n, Y, N, base) <=> Says(s, n, Y, N, base)
<1>. DEFINE u == s \o t
<1>1. \A k \in 1 .. n : u[k] = s[k]
  <2>. DEFINE m == Len(s)
  <2>1. m \in Nat /\ n <= m /\ \A k \in 1 .. m + Len(t) : u[k] = IF k <= m THEN s[k] ELSE t[k - m]
    BY ConcatProperties, LenProperties
  <2>2. Len(t) \in Nat
    BY LenProperties
  <2>. HIDE DEF m, u
  <2>. QED  BY <2>1, <2>2
<1>. HIDE DEF u
<1>2. \A i \in 1 .. n : \A k \in i + 1 .. n : k \in 1 .. n
  OBVIOUS
<1>. QED  BY <1>1, <1>2 DEF Says, u

LEMMA Joined ==
  ASSUME NEW T, NEW s \in Seq(T), NEW t \in Seq(T)
  PROVE  /\ s \o t \in Seq(T) /\ Len(s) \in Nat /\ Len(t) \in Nat /\ Len(s \o t) = Len(s) + Len(t)
         /\ \A k \in 1 .. Len(s) : (s \o t)[k] = s[k]
         /\ \A k \in 1 .. Len(t) : (s \o t)[Len(s) + k] = t[k]
         /\ \A k \in 1 .. Len(s \o t) : k \in 1 .. Len(s) \/ (k - Len(s) \in 1 .. Len(t) /\ k = Len(s) + (k - Len(s)))
<1>. DEFINE u == s \o t
            m == Len(s)
            n == Len(t)
<1>1. /\ u \in Seq(T) /\ m \in Nat /\ n \in Nat /\ Len(u) = m + n
      /\ \A k \in 1 .. m + n : u[k] = IF k <= m THEN s[k] ELSE t[k - m]
  BY ConcatProperties, LenProperties
<1>. HIDE DEF u, m, n
<1>2. \A k \in 1 .. m : u[k] = s[k]
  BY <1>1
<1>3. \A k \in 1 .. n : u[m + k] = t[k]
  <2>. TAKE k \in 1 .. n
  <2>1. m + k \in 1 .. m + n /\ ~(m + k <= m) /\ (m + k) - m = k
    BY <1>1
  <2>. QED  BY <1>1, <2>1
<1>4. \A k \in 1 .. Len(u) : k \in 1 .. m \/ (k - m \in 1 .. n /\ k = m + (k - m))
  BY <1>1
<1>. QED  BY <1>1, <1>2, <1>3, <1>4 DEF u, m, n

\* Notes that do not say no change no answer.
LEMMA SaysKept ==
  ASSUME NEW T, NEW s \in Seq(T), NEW t \in Seq(T), NEW m \in 0 .. Len(t), NEW Y, NEW N, NEW base,
         Says(s, Len(s), Y, N, base), \A k \in 1 .. Len(t) : t[k] \notin N
  PROVE  Says(s \o t, Len(s) + m, Y, N, base)
<1>. DEFINE u == s \o t
            l == Len(s)
<1>1. /\ l \in Nat /\ Len(t) \in Nat /\ Len(u) = l + Len(t)
      /\ \A k \in 1 .. l : u[k] = s[k]
      /\ \A k \in 1 .. Len(t) : u[l + k] = t[k]
      /\ \A k \in 1 .. Len(u) : k \in 1 .. l \/ (k - l \in 1 .. Len(t) /\ k = l + (k - l))
  BY Joined
<1>. HIDE DEF u
<1>2. \A k \in 1 .. l + m : (k \in 1 .. l /\ u[k] = s[k]) \/ u[k] \notin N
  <2>. TAKE k \in 1 .. l + m
  <2>1. k \in 1 .. Len(u)
    BY <1>1
  <2>2. CASE k - l \in 1 .. Len(t) /\ k = l + (k - l)
    <3>1. u[k] = t[k - l]
      BY <1>1, <2>2
    <3>. QED  BY <2>2, <3>1
  <2>. QED  BY <1>1, <2>1, <2>2
<1>3. CASE base /\ \A k \in 1 .. l : s[k] \notin N
  BY <1>2, <1>3 DEF Says, u
<1>4. ASSUME NEW i \in 1 .. l, s[i] \in Y, \A k \in i + 1 .. l : s[k] \notin N
      PROVE  Says(u, l + m, Y, N, base)
  <2>1. i \in 1 .. l + m /\ u[i] \in Y
    BY <1>1, <1>4
  <2>2. \A k \in i + 1 .. l + m : u[k] \notin N
    <3>. TAKE k \in i + 1 .. l + m
    <3>1. k \in 1 .. l + m /\ (k \in 1 .. l => k \in i + 1 .. l)
      BY <1>1
    <3>. QED  BY <1>2, <1>4, <3>1
  <2>. QED  BY <2>1, <2>2 DEF Says
<1>. HIDE DEF l
<1>. QED  BY <1>3, <1>4 DEF Says, u, l

\* One that says yes, none after it that says no.
LEMMA SaysNew ==
  ASSUME NEW T, NEW s \in Seq(T), NEW t \in Seq(T), NEW i \in 1 .. Len(t), NEW m \in i .. Len(t),
         NEW Y, NEW N, NEW base, t[i] \in Y, \A k \in 1 .. Len(t) : t[k] \notin N
  PROVE  Says(s \o t, Len(s) + m, Y, N, base)
<1>. DEFINE u == s \o t
            l == Len(s)
<1>1. /\ l \in Nat /\ Len(t) \in Nat /\ \A k \in 1 .. Len(t) : u[l + k] = t[k]
  BY Joined
<1>. HIDE DEF u, l
<1>2. l + i \in 1 .. l + m /\ u[l + i] \in Y
  BY <1>1
<1>3. \A k \in (l + i) + 1 .. l + m : u[k] \notin N
  <2>. TAKE k \in (l + i) + 1 .. l + m
  <2>1. k - l \in 1 .. Len(t) /\ k = l + (k - l)
    BY <1>1
  <2>2. u[k] = t[k - l]
    BY <1>1, <2>1
  <2>. QED  BY <2>1, <2>2
<1>. QED  BY <1>2, <1>3 DEF Says, u, l

\* When the first note is taken, it decides what is answered before the others.
LEMMA SaysTaken ==
  ASSUME NEW T, NEW s \in Seq(T), s # <<>>, NEW n \in 1 .. Len(s), NEW Y, NEW N, NEW base, Says(s, n, Y, N, base)
  PROVE  Says(Tail(s), n - 1, Y, N, Head(s) \in Y \/ (base /\ Head(s) \notin N))
<1>. DEFINE t == Tail(s)
            b == Head(s) \in Y \/ (base /\ Head(s) \notin N)
            l == Len(s)
<1>1. l \in Nat /\ l > 0 /\ Head(s) = s[1] /\ \A k \in 1 .. l - 1 : t[k] = s[k + 1]
  BY HeadTailProperties, EmptySeq, LenProperties
<1>. HIDE DEF t, l
<1>2. CASE base /\ \A k \in 1 .. n : s[k] \notin N
  <2>1. b
    BY <1>1, <1>2
  <2>2. \A k \in 1 .. n - 1 : k + 1 \in 1 .. n /\ k \in 1 .. l - 1
    BY <1>1 DEF l
  <2>. QED  BY <1>1, <1>2, <2>1, <2>2 DEF Says, t
<1>3. ASSUME NEW i \in 1 .. n, s[i] \in Y, \A k \in i + 1 .. n : s[k] \notin N
      PROVE  Says(t, n - 1, Y, N, b)
  <2>1. CASE i = 1
    <3>1. b
      BY <1>1, <1>3, <2>1
    <3>2. \A k \in 1 .. n - 1 : k + 1 \in i + 1 .. n /\ k \in 1 .. l - 1
      BY <1>1, <2>1 DEF l
    <3>. QED  BY <1>1, <1>3, <3>1, <3>2 DEF Says
  <2>2. CASE i # 1
    <3>1. i - 1 \in 1 .. n - 1 /\ i - 1 \in 1 .. l - 1 /\ (i - 1) + 1 = i
      BY <1>1, <2>2 DEF l
    <3>2. t[i - 1] \in Y
      BY <1>1, <1>3, <3>1
    <3>3. \A k \in (i - 1) + 1 .. n - 1 : k + 1 \in i + 1 .. n /\ k \in 1 .. l - 1
      BY <1>1, <2>2 DEF l
    <3>. QED  BY <1>1, <1>3, <3>1, <3>2, <3>3 DEF Says
  <2>. QED  BY <2>1, <2>2
<1>. QED  BY <1>2, <1>3 DEF Says, t

LEMMA SaysBase ==
  ASSUME NEW s, NEW n, NEW Y, NEW N, NEW base, NEW other, Says(s, n, Y, N, base), base => other
  PROVE  Says(s, n, Y, N, other)
BY DEF Says

LEMMA SetToSeqFacts ==
  ASSUME NEW S, IsFiniteSet(S)
  PROVE  /\ Cardinality(S) \in Nat /\ SetToSeq(S) \in [1 .. Cardinality(S) -> S]
         /\ \A x \in S : \E i \in 1 .. Cardinality(S) : SetToSeq(S)[i] = x
<1>. DEFINE n == Cardinality(S)
            s == SetToSeq(S)
<1>1. n \in Nat /\ \E f \in [1 .. n -> S] : IsInjective(f)
  BY FS_CardinalityType DEF ExistsBijection, Bijection, Injection
<1>2. s \in [1 .. n -> S] /\ IsInjective(s)
  BY <1>1 DEF SetToSeq
<1>3. Cardinality(1 .. n) = n
  BY <1>1, FS_Interval
<1>. HIDE DEF s
<1>4. s \in Surjection(1 .. n, S)
  <2>1. s \in Injection(1 .. n, S)
    BY <1>2 DEF Injection
  <2>. QED  BY <1>3, <2>1, FS_Injection
<1>. QED  BY <1>1, <1>2, <1>4 DEF s, Surjection

LEMMA EachFacts ==
  ASSUME NEW kind, NEW S, IsFiniteSet(S), NEW T, \A x \in S : Note(kind, x, FALSE) \in T
  PROVE  /\ Each(kind, S) \in Seq(T)
         /\ \A i \in 1 .. Len(Each(kind, S)) : \E x \in S : Each(kind, S)[i] = Note(kind, x, FALSE)
         /\ \A x \in S : \E i \in 1 .. Len(Each(kind, S)) : Each(kind, S)[i] = Note(kind, x, FALSE)
<1>. DEFINE s == SetToSeq(S)
            n == Cardinality(S)
            e == Each(kind, S)
<1>1. n \in Nat /\ s \in [1 .. n -> S] /\ \A x \in S : \E i \in 1 .. n : s[i] = x
  BY SetToSeqFacts
<1>2. e = [i \in DOMAIN s |-> Note(kind, s[i], FALSE)]
  BY DEF Each
<1>. HIDE DEF s, n, e
<1>3. e \in [1 .. n -> T] /\ \A i \in 1 .. n : e[i] = Note(kind, s[i], FALSE)
  BY <1>1, <1>2
<1>4. e \in Seq(T) /\ Len(e) = n
  BY <1>1, <1>3
<1>. QED  BY <1>1, <1>3, <1>4 DEF e

LEMMA Appended ==
  ASSUME NEW T, NEW s \in Seq(T), NEW x \in T
  PROVE  Append(s, x) = s \o <<x>> /\ <<x>> \in Seq(T) /\ Len(<<x>>) = 1 /\ <<x>>[1] = x /\ Append(s, x) \in Seq(T)
<1>. DEFINE t == <<x>>
            u == s \o t
            v == Append(s, x)
            m == Len(s)
<1>1. t \in Seq(T) /\ Len(t) = 1 /\ t[1] = x
  OBVIOUS
<1>. HIDE DEF t
<1>2. m \in Nat /\ u \in Seq(T) /\ Len(u) = m + 1 /\ (\A k \in 1 .. m : u[k] = s[k]) /\ u[m + 1] = x
  <2>1. 1 \in 1 .. Len(t)
    BY <1>1
  <2>. QED  BY <1>1, <2>1, Joined
<1>3. v \in Seq(T) /\ Len(v) = m + 1 /\ (\A k \in 1 .. m : v[k] = s[k]) /\ v[m + 1] = x
  BY LenProperties
<1>. HIDE DEF u, v, m
<1>4. \A k \in 1 .. Len(v) : v[k] = u[k]
  <2>. TAKE k \in 1 .. Len(v)
  <2>1. k \in 1 .. m \/ k = m + 1
    BY <1>2, <1>3
  <2>. QED  BY <1>2, <1>3, <2>1
<1>5. v = u
  BY <1>2, <1>3, <1>4, SeqEqual
<1>. QED  BY <1>1, <1>3, <1>5 DEF u, v, t

\* Three sequences, one after another, are put after s.
Follow(s, a, b, c, t) ==
  /\ s \o a \o b \o c = s \o t
  /\ Len(a) \in Nat /\ Len(b) \in Nat /\ Len(c) \in Nat /\ Len(t) = Len(a) + Len(b) + Len(c)
  /\ \A k \in 1 .. Len(a) : t[k] = a[k]
  /\ \A k \in 1 .. Len(b) : t[Len(a) + k] = b[k]
  /\ \A k \in 1 .. Len(t) :
       \/ k \in 1 .. Len(a) /\ t[k] = a[k]
       \/ k - Len(a) \in 1 .. Len(b) /\ t[k] = b[k - Len(a)]
       \/ k - Len(a) - Len(b) \in 1 .. Len(c) /\ t[k] = c[k - Len(a) - Len(b)]

LEMMA Thrice ==
  ASSUME NEW T, NEW s \in Seq(T), NEW a \in Seq(T), NEW b \in Seq(T), NEW c \in Seq(T)
  PROVE  \E t \in Seq(T) : Follow(s, a, b, c, t)
<1>. DEFINE d == b \o c
            t == a \o d
            l == Len(a)
            m == Len(b)
            n == Len(c)
<1>1. /\ d \in Seq(T) /\ m \in Nat /\ n \in Nat /\ Len(d) = m + n
      /\ \A k \in 1 .. m : d[k] = b[k]
      /\ \A k \in 1 .. n : d[m + k] = c[k]
  BY Joined
<1>. HIDE DEF d
<1>2. /\ t \in Seq(T) /\ l \in Nat /\ Len(t) = l + Len(d)
      /\ \A k \in 1 .. l : t[k] = a[k]
      /\ \A k \in 1 .. Len(d) : t[l + k] = d[k]
  <2>1. /\ a \o d \in Seq(T) /\ Len(a) \in Nat /\ Len(d) \in Nat /\ Len(a \o d) = Len(a) + Len(d)
        /\ \A k \in 1 .. Len(a) : (a \o d)[k] = a[k]
        /\ \A k \in 1 .. Len(d) : (a \o d)[Len(a) + k] = d[k]
    <3>1. d \in Seq(T)
      BY <1>1
    <3>. QED  BY <3>1, Joined
  <2>. QED  BY <2>1
<1>3. s \o a \o b \o c = s \o t
  <2>1. (s \o a) \o b \in Seq(T) /\ s \o a \in Seq(T)
    BY ConcatProperties
  <2>2. ((s \o a) \o b) \o c = (s \o a) \o (b \o c)
    BY <2>1, ConcatAssociative
  <2>3. (s \o a) \o d = s \o (a \o d)
    BY <1>1, ConcatAssociative, SMTT(30)
  <2>. QED  BY <2>2, <2>3 DEF d
<1>. HIDE DEF t, l, m, n
<1>4. \A k \in 1 .. m : t[l + k] = b[k]
  BY <1>1, <1>2
<1>5. \A k \in 1 .. n : t[l + (m + k)] = c[k]
  <2>. TAKE k \in 1 .. n
  <2>1. m + k \in 1 .. Len(d)
    BY <1>1
  <2>. QED  BY <1>1, <1>2, <2>1
<1>6. \A k \in 1 .. Len(t) :
        \/ k \in 1 .. l /\ t[k] = a[k]
        \/ k - l \in 1 .. m /\ t[k] = b[k - l]
        \/ k - l - m \in 1 .. n /\ t[k] = c[k - l - m]
  <2>. TAKE k \in 1 .. Len(t)
  <2>1. CASE k \in 1 .. l
    BY <1>2, <2>1
  <2>2. CASE k - l \in 1 .. m
    <3>1. k = l + (k - l)
      BY <1>1, <1>2
    <3>2. t[l + (k - l)] = b[k - l]
      BY <1>4, <2>2
    <3>. QED  BY <2>2, <3>1, <3>2
  <2>3. CASE k - l - m \in 1 .. n
    <3>1. k = l + (m + (k - l - m))
      BY <1>1, <1>2
    <3>2. t[l + (m + (k - l - m))] = c[k - l - m]
      BY <1>5, <2>3
    <3>. QED  BY <2>3, <3>1, <3>2
  <2>. QED  BY <1>1, <1>2, <2>1, <2>2, <2>3
<1>7. Len(t) = l + m + n
  BY <1>1, <1>2
<1>. QED  BY <1>1, <1>2, <1>3, <1>4, <1>6, <1>7 DEF l, m, n, Follow

-------------------------------------------------------------------------------
(***************************************************************************)
(* The types                                                               *)
(***************************************************************************)
LEMMA PatchFacts ==
  ASSUME NEW c \in Patch
  PROVE  /\ c[1] \in Port /\ c[2] \in Port /\ c[1] # c[2] /\ ~SameType(c[1], c[2]) /\ Pair(c[1], c[2]) = c
         /\ c = <<c[1], c[2]>>
BY PortAssumption DEF Patch, SameType, Pair

LEMMA PairFacts ==
  ASSUME NEW a \in Port, NEW b \in Port, ~SameType(a, b)
  PROVE  /\ Pair(a, b) \in Patch /\ {Pair(a, b)[1], Pair(a, b)[2]} = {a, b}
         /\ \A p : p \in {Pair(a, b)[1], Pair(a, b)[2]} <=> p \in {a, b}
BY PortAssumption DEF Patch, SameType, Pair

\* What list_ports makes are patches.
LEMMA ListedFacts ==
  ASSUME NEW C \in SUBSET Patch
  PROVE  Listed(C) \subseteq Patch
<1>1. ASSUME NEW c \in C, ~SameType(Found[c[1]], Found[c[2]]) PROVE Pair(Found[c[1]], Found[c[2]]) \in Patch
  <2>1. Found[c[1]] \in Port /\ Found[c[2]] \in Port
    BY PatchFacts, ClientAssumption
  <2>. QED  BY <1>1, <2>1, PairFacts
<1>. QED  BY <1>1 DEF Listed

LEMMA NoteFields ==
  \A k, x, self : Note(k, x, self).kind = k /\ Note(k, x, self).of = x /\ Note(k, x, self).self = self
BY DEF Note

LEMMA NoteTyped ==
  /\ \A c \in Patch, self \in BOOLEAN :
       Note("connect", c, self) \in NoteType /\ Note("disconnect", c, self) \in NoteType
  /\ \A p \in Port : Note("registered", p, FALSE) \in NoteType /\ Note("unregistered", p, FALSE) \in NoteType
  /\ \A c \in Client : Note("client_left", c, FALSE) \in NoteType
BY DEF Note, NoteType

\* What is told of when ports vanish, in this order.
LEMMA VanishNotes ==
  ASSUME AppTyped, NEW P \in SUBSET Port, NEW left \in SUBSET Client, IsFiniteSet(left), Vanish(P, left)
  PROVE  \E t \in Seq(NoteType) :
           /\ notes' = notes \o t
           /\ \A i \in 1 .. Len(t) :
                \/ \E c \in Connections(P) : t[i] = Note("disconnect", c, FALSE)
                \/ \E p \in P : t[i] = Note("unregistered", p, FALSE)
                \/ \E c \in left : t[i] = Note("client_left", c, FALSE)
           /\ \A c \in Connections(P) : \E i \in 1 .. Len(t) : t[i] = Note("disconnect", c, FALSE)
           /\ \A p \in P : \E i \in 1 .. Len(t) :
                /\ t[i] = Note("unregistered", p, FALSE)
                /\ \A k \in 1 .. Len(t) : t[k].kind = "client_left" => i < k
<1>. DEFINE a == Each("disconnect", Connections(P))
            b == Each("unregistered", P)
            d == Each("client_left", left)
<1>1. Connections(P) \in SUBSET Patch /\ IsFiniteSet(Connections(P)) /\ IsFiniteSet(P)
  <2>1. IsFiniteSet(Port \ OutputPort) /\ IsFiniteSet(OutputPort)
    BY PortAssumption, FS_Difference, FS_Subset
  <2>2. IsFiniteSet(Patch)
    BY <2>1, FS_Product DEF Patch
  <2>3. Connections(P) \in SUBSET Patch
    BY DEF AppTyped, Connections
  <2>. QED  BY <2>2, <2>3, PortAssumption, FS_Subset
<1>2. /\ a \in Seq(NoteType)
      /\ \A i \in 1 .. Len(a) : \E c \in Connections(P) : a[i] = Note("disconnect", c, FALSE)
      /\ \A c \in Connections(P) : \E i \in 1 .. Len(a) : a[i] = Note("disconnect", c, FALSE)
  <2>1. \A c \in Connections(P) : Note("disconnect", c, FALSE) \in NoteType
    BY <1>1, NoteTyped
  <2>. QED  BY <1>1, <2>1, EachFacts
<1>3. /\ b \in Seq(NoteType)
      /\ \A i \in 1 .. Len(b) : \E p \in P : b[i] = Note("unregistered", p, FALSE)
      /\ \A p \in P : \E i \in 1 .. Len(b) : b[i] = Note("unregistered", p, FALSE)
  <2>1. \A p \in P : Note("unregistered", p, FALSE) \in NoteType
    BY NoteTyped
  <2>. QED  BY <1>1, <2>1, EachFacts
<1>4. d \in Seq(NoteType) /\ \A i \in 1 .. Len(d) : \E c \in left : d[i] = Note("client_left", c, FALSE)
  <2>1. \A c \in left : Note("client_left", c, FALSE) \in NoteType
    BY NoteTyped
  <2>. QED  BY <2>1, EachFacts
<1>5. notes \in Seq(NoteType) /\ notes' = notes \o a \o b \o d
  BY DEF Vanish, AppTyped
<1>. HIDE DEF a, b, d
<1>. DEFINE l == Len(a)
            m == Len(b)
            n == Len(d)
<1>6. PICK t \in Seq(NoteType) :
        /\ notes' = notes \o t
        /\ l \in Nat /\ m \in Nat /\ n \in Nat /\ Len(t) = l + m + n
        /\ \A k \in 1 .. l : t[k] = a[k]
        /\ \A k \in 1 .. m : t[l + k] = b[k]
        /\ \A k \in 1 .. Len(t) :
             \/ k \in 1 .. l /\ t[k] = a[k]
             \/ k - l \in 1 .. m /\ t[k] = b[k - l]
             \/ k - l - m \in 1 .. n /\ t[k] = d[k - l - m]
  <2>1. a \in Seq(NoteType) /\ b \in Seq(NoteType) /\ d \in Seq(NoteType) /\ notes \in Seq(NoteType)
    BY <1>2, <1>3, <1>4, <1>5
  <2>2. PICK t \in Seq(NoteType) : Follow(notes, a, b, d, t)
    BY <2>1, Thrice
  <2>. QED  BY <1>5, <2>2 DEF Follow
<1>. HIDE DEF l, m, n
<1>7. \A k \in 1 .. Len(t) :
        \/ \E c \in Connections(P) : t[k] = Note("disconnect", c, FALSE)
        \/ \E p \in P : t[k] = Note("unregistered", p, FALSE)
        \/ (\E c \in left : t[k] = Note("client_left", c, FALSE)) /\ k > l + m
  <2>. TAKE k \in 1 .. Len(t)
  <2>1. CASE k \in 1 .. l /\ t[k] = a[k]
    BY <1>2, <2>1 DEF l
  <2>2. CASE k - l \in 1 .. m /\ t[k] = b[k - l]
    BY <1>3, <2>2 DEF m
  <2>3. CASE k - l - m \in 1 .. n /\ t[k] = d[k - l - m]
    <3>1. k > l + m
      BY <1>6, <2>3
    <3>. QED  BY <1>4, <2>3, <3>1 DEF n
  <2>. QED  BY <1>6, <2>1, <2>2, <2>3
<1>8. ASSUME NEW c \in Connections(P) PROVE \E i \in 1 .. Len(t) : t[i] = Note("disconnect", c, FALSE)
  <2>1. PICK i \in 1 .. l : a[i] = Note("disconnect", c, FALSE)
    BY <1>2 DEF l
  <2>2. i \in 1 .. Len(t) /\ t[i] = a[i]
    BY <1>6
  <2>. QED  BY <2>1, <2>2
<1>9. ASSUME NEW p \in P
      PROVE  \E i \in 1 .. Len(t) : /\ t[i] = Note("unregistered", p, FALSE)
                                    /\ \A k \in 1 .. Len(t) : t[k].kind = "client_left" => i < k
  <2>1. PICK j \in 1 .. m : b[j] = Note("unregistered", p, FALSE)
    BY <1>3 DEF m
  <2>2. l + j \in 1 .. Len(t) /\ l + j <= l + m /\ t[l + j] = b[j]
    BY <1>6
  <2>3. \A k \in 1 .. Len(t) : t[k].kind = "client_left" => k > l + m
    <3>. TAKE k \in 1 .. Len(t)
    <3>1. CASE \E c \in Connections(P) : t[k] = Note("disconnect", c, FALSE)
      <4>1. t[k].kind = "disconnect"
        BY <3>1 DEF Note
      <4>. QED  BY <4>1
    <3>2. CASE \E q \in P : t[k] = Note("unregistered", q, FALSE)
      <4>1. t[k].kind = "unregistered"
        BY <3>2 DEF Note
      <4>. QED  BY <4>1
    <3>. QED  BY <1>7, <3>1, <3>2
  <2>4. \A k \in 1 .. Len(t) : k > l + m => l + j < k
    BY <1>6
  <2>. QED  BY <2>1, <2>2, <2>3, <2>4
<1>. QED  BY <1>6, <1>7, <1>8, <1>9

-------------------------------------------------------------------------------
(***************************************************************************)
(* The patches                                                             *)
(***************************************************************************)
LEMMA FreeGraph ==
  ASSUME GraphOK, NEW gone, FreePatches(gone), ports' \subseteq Port
  PROVE  GraphOK' /\ Linked' = Linked \ gone
<1>1. patches' \in [Patch -> Nat] /\ \A c \in Patch : patches'[c] = IF c \in gone THEN 0 ELSE patches[c]
  BY DEF FreePatches, GraphOK
<1>2. lists' \in [Port -> SUBSET Patch] /\ \A p \in Port : lists'[p] = lists[p] \ gone
  BY DEF FreePatches, GraphOK
<1>3. Linked' = Linked \ gone
  BY <1>1 DEF Linked, GraphOK
<1>4. ListsAgree'
  <2>1. \A c \in Patch : patches'[c] <= 1
    BY <1>1 DEF GraphOK, ListsAgree
  <2>2. \A p \in Port : lists'[p] = {c \in Linked' : p \in {c[1], c[2]}}
    BY <1>2, <1>3 DEF GraphOK, ListsAgree
  <2>. QED  BY <2>1, <2>2 DEF ListsAgree
<1>. QED  BY <1>1, <1>2, <1>3, <1>4 DEF GraphOK

\* There is a patch where the list of the port it is from has one.
LEMMA HasLinked ==
  ASSUME GraphOK, NEW c \in Patch
  PROVE  HasPatch(c[1], c[2]) <=> c \in Linked
BY PatchFacts DEF HasPatch, GraphOK, ListsAgree, Linked

LEMMA ConnectGraph ==
  ASSUME GraphOK, NEW c \in Patch, Connect(c[1], c[2]), UNCHANGED ports
  PROVE  GraphOK' /\ Linked' = Linked \cup {c}
<1>0. /\ c[1] \in Port /\ c[2] \in Port /\ c[1] # c[2] /\ ~SameType(c[1], c[2]) /\ Pair(c[1], c[2]) = c
      /\ HasPatch(c[1], c[2]) <=> c \in Linked
  BY PatchFacts, HasLinked
<1>1. CASE c \in Linked
  <2>1. UNCHANGED <<patches, lists>>
    BY <1>0, <1>1 DEF Connect
  <2>. QED  BY <1>1, <2>1 DEF GraphOK, ListsAgree, Linked
<1>2. CASE c \notin Linked
  <2>1. /\ patches' = [patches EXCEPT ![c] = @ + 1]
        /\ lists' = [p \in Port |-> lists[p] \cup IF p \in {c[1], c[2]} THEN {c} ELSE {}]
    BY <1>0, <1>2 DEF Connect
  <2>2. patches[c] = 0
    BY <1>2 DEF Linked, GraphOK
  <2>3. patches' \in [Patch -> Nat] /\ \A d \in Patch : patches'[d] = IF d = c THEN 1 ELSE patches[d]
    BY <2>1, <2>2 DEF GraphOK
  <2>4. Linked' = Linked \cup {c}
    BY <2>3 DEF Linked
  <2>5. /\ lists' \in [Port -> SUBSET Patch]
        /\ \A p \in Port : lists'[p] = lists[p] \cup IF p \in {c[1], c[2]} THEN {c} ELSE {}
    BY <2>1 DEF GraphOK
  <2>6. \A p \in Port : lists'[p] = {d \in Linked' : p \in {d[1], d[2]}}
    BY <2>4, <2>5 DEF GraphOK, ListsAgree
  <2>7. \A d \in Patch : patches'[d] <= 1
    BY <2>3 DEF GraphOK, ListsAgree
  <2>. QED  BY <2>3, <2>4, <2>5, <2>6, <2>7 DEF GraphOK, ListsAgree
<1>. QED  BY <1>1, <1>2

LEMMA DisconnectGraph ==
  ASSUME GraphOK, NEW c \in Patch, Disconnect(c[1], c[2]), UNCHANGED ports
  PROVE  GraphOK' /\ Linked' = Linked \ {c}
<1>0. Pair(c[1], c[2]) = c /\ (HasPatch(c[1], c[2]) <=> c \in Linked)
  BY PatchFacts, HasLinked
<1>1. CASE c \in Linked
  <2>1. FreePatches({c})
    BY <1>0, <1>1 DEF Disconnect
  <2>2. ports' \subseteq Port
    BY DEF GraphOK
  <2>. QED  BY <2>1, <2>2, FreeGraph
<1>2. CASE c \notin Linked
  <2>1. UNCHANGED <<patches, lists>>
    BY <1>0, <1>2 DEF Disconnect
  <2>. QED  BY <1>2, <2>1 DEF GraphOK, ListsAgree, Linked
<1>. QED  BY <1>1, <1>2

LEMMA FiniGraph ==
  ASSUME GraphOK, NEW gone, gone \subseteq ports, PortFini(gone)
  PROVE  GraphOK' /\ ports' = ports \ gone /\ Linked' = {c \in Linked : {c[1], c[2]} \cap gone = {}}
<1>. DEFINE freed == UNION {lists[p] : p \in gone}
<1>1. ports' = ports \ gone /\ FreePatches(freed) /\ ports' \subseteq Port
  BY DEF PortFini, GraphOK
<1>2. \A c \in Linked : c \in freed <=> {c[1], c[2]} \cap gone # {}
  BY DEF GraphOK, ListsAgree
<1>. HIDE DEF freed
<1>3. GraphOK' /\ Linked' = Linked \ freed
  BY <1>1, FreeGraph
<1>. QED  BY <1>1, <1>2, <1>3

-------------------------------------------------------------------------------
(***************************************************************************)
(* The gesture                                                             *)
(***************************************************************************)
LEMMA GestureKept ==
  ASSUME GestureOK, ports \subseteq ports', ports' \subseteq Port, UNCHANGED gesture
  PROVE  GestureOK'
BY DEF GestureOK, GestureTyped, GestureInv, gesture

LEMMA FiniGesture ==
  ASSUME GestureOK, NEW gone, gone \subseteq ports, PortFini(gone)
  PROVE  GestureOK'
<1>1. /\ ports' = ports \ gone /\ UNCHANGED <<progress, lost, strayed>>
      /\ loose' = (loose \/ {mouse.target, progress.from, progress.to} \cap gone # {})
      /\ mouse' = [mouse EXCEPT !.under = IF @ \in gone THEN Nothing ELSE @]
  BY DEF PortFini
<1>2. mouse'.state = mouse.state /\ mouse'.target = mouse.target
      /\ mouse'.under = IF mouse.under \in gone THEN Nothing ELSE mouse.under
  BY <1>1 DEF GestureOK, GestureTyped, Button
<1>3. GestureTyped'
  <2>1. mouse' \in Button
    BY <1>1 DEF GestureOK, GestureTyped, Button, Place
  <2>2. loose' \in BOOLEAN
    BY <1>1
  <2>. QED  BY <1>1, <2>1, <2>2 DEF GestureOK, GestureTyped
<1>4. ASSUME ~loose' PROVE ~loose /\ {mouse.target, progress.from, progress.to} \cap gone = {}
  BY <1>1, <1>4
<1>5. Nothing \notin gone
  BY PortAssumption DEF GestureOK
<1>6. GestureInv'
  BY <1>1, <1>2, <1>4, <1>5 DEF GestureOK, GestureInv
<1>. QED  BY <1>1, <1>3, <1>6 DEF GestureOK

LEMMA PressGesture ==
  ASSUME GestureOK, Press
  PROVE  GestureOK' /\ UNCHANGED <<graph, loose>>
<1>1. /\ ~loose /\ UNCHANGED <<graph, loose>>
      /\ mouse' = [mouse EXCEPT !.state = "DOWN", !.target = mouse.under]
      /\ progress' = IF mouse.under \in Port THEN [Idle EXCEPT !.from = mouse.under] ELSE progress
      /\ lost' = (mouse.under \notin Port /\ (lost \/ mouse.target \in Port))
      /\ strayed' = (strayed /\ lost')
  BY DEF Press
<1>2. /\ mouse'.state = "DOWN" /\ mouse'.target = mouse.under /\ mouse'.under = mouse.under
      /\ mouse' \in Button
  BY <1>1 DEF GestureOK, GestureTyped, Button
<1>3. ports' = ports /\ loose' = loose
  BY <1>1 DEF graph
<1>4. lost' \in BOOLEAN /\ strayed' \in BOOLEAN
  BY <1>1
<1>5. CASE mouse.under \in Port
  <2>1. progress'.from = mouse.under /\ progress'.to = Nothing /\ progress' \in Patching
    BY <1>1, <1>5 DEF Idle, Patching, Place
  <2>. QED  BY <1>1, <1>2, <1>3, <1>4, <1>5, <2>1, PortAssumption DEF GestureOK, GestureTyped, GestureInv
<1>6. CASE mouse.under \notin Port
  <2>1. mouse.under = Nothing /\ progress' = progress
    BY <1>1, <1>6 DEF GestureOK, GestureInv
  <2>2. ~lost' => ~lost /\ mouse.target = Nothing
    BY <1>1, <1>6 DEF GestureOK, GestureTyped, Button, Place
  <2>3. ~lost' => progress.from = Nothing /\ progress.to = Nothing
    BY <1>1, <2>2 DEF GestureOK, GestureInv
  <2>4. ~strayed' => progress.to = Nothing
    BY <1>1, <1>4, <2>1, <2>3 DEF GestureOK, GestureTyped, GestureInv
  <2>. QED  BY <1>1, <1>2, <1>3, <1>4, <2>1, <2>3, <2>4 DEF GestureOK, GestureTyped, GestureInv
<1>. QED  BY <1>1, <1>3, <1>5, <1>6

\* A port is left by a drag before another one is entered: where the patch leads
\* to after each.
LEMMA LeftGesture ==
  ASSUME GestureOK, ~loose
  PROVE  /\ Left \in Patching /\ Left.from = progress.from
         /\ Left.to \in {Nothing, progress.to} /\ (~strayed => Left.to = Nothing)
<1>1. CASE mouse.state = "DRAG" /\ mouse.under \in Port
  BY <1>1 DEF Left, GestureOK, GestureTyped, Patching, Place
<1>2. CASE ~(mouse.state = "DRAG" /\ mouse.under \in Port)
  BY <1>2 DEF Left, GestureOK, GestureTyped, GestureInv
<1>. QED  BY <1>1, <1>2

LEMMA EnteredGesture ==
  ASSUME NEW p \in Patching, NEW u \in Place
  PROVE  /\ Entered(p, u) \in Patching /\ Entered(p, u).from = p.from
         /\ \/ Entered(p, u).to = p.to
            \/ Entered(p, u).to = u /\ p.from # Nothing /\ mouse.state = "DRAG"
BY DEF Entered, Patching, Place

\* The pointer comes to be over u, the patch in progress leading there or nowhere.
LEMMA DraggedGesture ==
  ASSUME GestureOK, ~loose, UNCHANGED <<graph, loose, lost>>,
         NEW u \in ports \cup {Nothing}, NEW w \in BOOLEAN,
         mouse' = [Dragged(u) EXCEPT !.within = w], strayed' \in BOOLEAN,
         progress' \in Patching, progress'.from = progress.from,
         progress'.to \in ports \cup {Nothing}, progress.from = Nothing => progress'.to = Nothing,
         ~strayed' => progress'.to \in {Nothing, u} /\ (mouse.state # "DRAG" => progress'.to = Nothing)
  PROVE  GestureOK'
<1>1. /\ mouse'.state = (IF mouse.state = "DOWN" THEN "DRAG" ELSE mouse.state)
      /\ mouse'.target = mouse.target /\ mouse'.under = u /\ mouse' \in Button
  BY DEF Dragged, GestureOK, GestureTyped, Button, Place
<1>2. ports' = ports
  BY DEF graph
<1>. QED  BY <1>1, <1>2 DEF GestureOK, GestureTyped, GestureInv

LEMMA MoveGesture ==
  ASSUME GestureOK, NEW u \in ports \cup {Nothing}, MovePointer(u)
  PROVE  GestureOK' /\ UNCHANGED <<graph, loose>>
<1>1. /\ ~loose /\ UNCHANGED <<graph, loose, lost, strayed>> /\ mouse' = Dragged(u)
      /\ progress' \in IF u = mouse.under THEN {progress, Left, Entered(progress, u)} ELSE {Entered(Left, u)}
  BY DEF MovePointer
<1>2. mouse' = [Dragged(u) EXCEPT !.within = mouse.within] /\ mouse.within \in BOOLEAN
  BY <1>1 DEF Dragged, GestureOK, GestureTyped, Button
<1>3. u \in Place /\ progress \in Patching
  BY DEF GestureOK, GestureTyped, Place
<1>4. /\ Left \in Patching /\ Left.from = progress.from
      /\ Left.to \in {Nothing, progress.to} /\ (~strayed => Left.to = Nothing)
  BY <1>1, LeftGesture
<1>5. /\ {progress.from, progress.to} \subseteq ports \cup {Nothing}
      /\ progress.from = Nothing => progress.to = Nothing
      /\ ~strayed => /\ progress.to \in {Nothing, mouse.under}
                     /\ mouse.state # "DRAG" => progress.to = Nothing
  BY <1>1 DEF GestureOK, GestureInv
<1>6. \A p \in Patching : /\ Entered(p, u) \in Patching /\ Entered(p, u).from = p.from
                          /\ \/ Entered(p, u).to = p.to
                             \/ Entered(p, u).to = u /\ p.from # Nothing /\ mouse.state = "DRAG"
  BY <1>3, EnteredGesture
<1>7. /\ progress' \in Patching /\ progress'.from = progress.from
      /\ progress'.to \in ports \cup {Nothing} /\ (progress.from = Nothing => progress'.to = Nothing)
      /\ ~strayed => progress'.to \in {Nothing, u} /\ (mouse.state # "DRAG" => progress'.to = Nothing)
  <2>. DEFINE Fits1(p) == /\ p \in Patching /\ p.from = progress.from
                          /\ p.to \in ports \cup {Nothing} /\ (progress.from = Nothing => p.to = Nothing)
                          /\ ~strayed => p.to \in {Nothing, u} /\ (mouse.state # "DRAG" => p.to = Nothing)
  <2>1. Fits1(Left)
    BY <1>4, <1>5
  <2>2. Fits1(Entered(Left, u))
    BY <1>4, <1>5, <1>6
  <2>3. CASE u = mouse.under
    <3>1. Fits1(progress)
      BY <1>3, <1>5, <2>3
    <3>2. Fits1(Entered(progress, u))
      BY <1>3, <1>5, <1>6, <2>3
    <3>. QED  BY <1>1, <2>1, <2>3, <3>1, <3>2
  <2>4. CASE u # mouse.under
    BY <1>1, <2>2, <2>4
  <2>. QED  BY <2>3, <2>4
<1>8. strayed' \in BOOLEAN /\ strayed' = strayed
  BY <1>1 DEF GestureOK, GestureTyped
<1>. QED  BY <1>1, <1>2, <1>7, <1>8, DraggedGesture

LEMMA EnterGesture ==
  ASSUME GestureOK, NEW u \in ports \cup {Nothing}, EnterWindow(u)
  PROVE  GestureOK' /\ UNCHANGED <<graph, loose>>
<1>. DEFINE p == IF mouse.within THEN Left ELSE progress
<1>1. /\ ~loose /\ UNCHANGED <<graph, loose, lost>> /\ mouse' = [Dragged(u) EXCEPT !.within = TRUE]
      /\ progress' = Entered(p, u)
      /\ strayed' = (strayed \/ (~mouse.within /\ mouse.under \in Port))
  BY DEF EnterWindow
<1>2. /\ Left \in Patching /\ Left.from = progress.from
      /\ Left.to \in {Nothing, progress.to} /\ (~strayed => Left.to = Nothing)
  BY <1>1, LeftGesture
<1>3. /\ {progress.from, progress.to} \subseteq ports \cup {Nothing} /\ progress \in Patching
      /\ progress.from = Nothing => progress.to = Nothing
      /\ ~strayed => progress.to \in {Nothing, mouse.under}
      /\ u \in Place /\ mouse.under \in Place
  BY <1>1 DEF GestureOK, GestureTyped, GestureInv, Place
<1>4. /\ p \in Patching /\ p.from = progress.from /\ p.to \in {Nothing, progress.to}
      /\ ~strayed' => p.to = Nothing
  BY <1>1, <1>2, <1>3 DEF Place
<1>. HIDE DEF p
<1>5. /\ progress' \in Patching /\ progress'.from = p.from
      /\ \/ progress'.to = p.to
         \/ progress'.to = u /\ p.from # Nothing /\ mouse.state = "DRAG"
  BY <1>1, <1>3, <1>4, EnteredGesture
<1>6. strayed' \in BOOLEAN
  BY <1>1 DEF GestureOK, GestureTyped
<1>7. /\ progress'.from = progress.from /\ progress'.to \in ports \cup {Nothing}
      /\ progress.from = Nothing => progress'.to = Nothing
      /\ ~strayed' => progress'.to \in {Nothing, u} /\ (mouse.state # "DRAG" => progress'.to = Nothing)
  BY <1>3, <1>4, <1>5
<1>. QED  BY <1>1, <1>5, <1>6, <1>7, DraggedGesture

LEMMA LeaveGesture ==
  ASSUME GestureOK, LeaveWindow
  PROVE  GestureOK' /\ UNCHANGED <<graph, loose>>
<1>1. /\ ~loose /\ UNCHANGED <<graph, loose, lost, strayed>> /\ progress' = Left
      /\ mouse' = [mouse EXCEPT !.under = Nothing, !.within = FALSE]
  BY DEF LeaveWindow
<1>2. /\ mouse'.state = mouse.state /\ mouse'.target = mouse.target /\ mouse'.under = Nothing
      /\ mouse' \in Button
  BY <1>1 DEF GestureOK, GestureTyped, Button, Place
<1>3. /\ Left \in Patching /\ Left.from = progress.from
      /\ Left.to \in {Nothing, progress.to} /\ (~strayed => Left.to = Nothing)
  BY <1>1, LeftGesture
<1>4. ports' = ports
  BY <1>1 DEF graph
<1>. QED  BY <1>1, <1>2, <1>3, <1>4 DEF GestureOK, GestureTyped, GestureInv

\* The button comes up, the port the drag came from there or not.
LEMMA ReleaseGesture ==
  ASSUME GestureOK, ports' = ports, Released
  PROVE  GestureOK'
<1>0. /\ mouse' = [mouse EXCEPT !.state = "UP", !.target = Nothing]
      /\ progress' = IF Stops THEN Idle ELSE progress
      /\ lost' = (mouse.under \notin Port
                    /\ (lost \/ (mouse.state = "DOWN" /\ mouse.target \in Port)))
      /\ strayed' = (strayed /\ lost') /\ loose' = loose
  BY DEF Released
<1>1. /\ mouse'.state = "UP" /\ mouse'.target = Nothing /\ mouse'.under = mouse.under
      /\ mouse' \in Button
  BY <1>0 DEF GestureOK, GestureTyped, Button, Place
<1>2. progress' \in Patching /\ lost' \in BOOLEAN /\ strayed' \in BOOLEAN
  BY <1>0 DEF GestureOK, GestureTyped, Idle, Patching, Place
<1>3. CASE Stops
  <2>1. progress'.from = Nothing /\ progress'.to = Nothing
    BY <1>0, <1>3 DEF Idle
  <2>. QED  BY <1>0, <1>1, <1>2, <2>1 DEF GestureOK, GestureTyped, GestureInv
<1>4. CASE ~Stops
  <2>1. mouse.under = Nothing /\ progress' = progress /\ ~(mouse.state = "DRAG" /\ mouse.target \in Port)
    BY <1>0, <1>4 DEF Stops, GestureOK, GestureInv
  <2>2. ASSUME ~loose, ~lost' PROVE ~lost /\ progress.from = Nothing /\ progress.to = Nothing
    <3>1. ~lost /\ ~(mouse.state = "DOWN" /\ mouse.target \in Port)
      BY <1>0, <2>1, <2>2, PortAssumption
    <3>2. mouse.state = "UP" \/ mouse.target = Nothing
      BY <2>1, <3>1 DEF GestureOK, GestureTyped, Button, Place
    <3>. QED  BY <2>2, <3>1, <3>2 DEF GestureOK, GestureInv
  <2>3. ASSUME ~loose, ~strayed' PROVE progress.to = Nothing
    BY <1>0, <1>2, <2>1, <2>2, <2>3 DEF GestureOK, GestureTyped, GestureInv
  <2>. QED  BY <1>0, <1>1, <1>2, <2>1, <2>2, <2>3 DEF GestureOK, GestureTyped, GestureInv
<1>. QED  BY <1>3, <1>4

-------------------------------------------------------------------------------
(***************************************************************************)
(* The steps                                                               *)
(***************************************************************************)
LEMMA InitPatch == Init => PatchInv
<1>. SUFFICES ASSUME Init PROVE PatchInv
  OBVIOUS
<1>. DEFINE shown == Listed(jack.connections)
<1>1. /\ jack \in [ports : SUBSET Port, connections : SUBSET Patch] /\ jack.ports = Port
      /\ ports = Port /\ notes = <<>> /\ lock = "none" /\ ui = "polling" /\ cb = NoCall
      /\ request = NoRequest /\ missed = (shown # jack.connections) /\ steps = 0
      /\ clients = {Owner[p] : p \in Port}
  BY DEF Init
<1>2. AppTyped
  <2>1. clients \subseteq Client
    BY <1>1, ClientAssumption
  <2>2. notes \in Seq(NoteType) /\ request \in Request
    BY <1>1 DEF Request
  <2>3. cb \in {NoCall} \cup [at : {"waiting", "holding"}, note : NoteType]
    <3>1. cb = NoCall
      BY <1>1
    <3>. QED  BY <3>1
  <2>4. missed \in BOOLEAN /\ steps \in 0 .. MaxSteps
    <3>1. steps = 0
      BY <1>1
    <3>2. missed \in BOOLEAN
      BY <1>1
    <3>3. steps \in 0 .. MaxSteps
      BY <3>1, ClientAssumption
    <3>. QED  BY <3>2, <3>3
  <2>5. lock \in {"none", "ui", "jack"} /\ ui \in {"polling", "event", "locked", "called", "exiting", "done"}
    BY <1>1
  <2>6. jack \in [ports : SUBSET Port, connections : SUBSET Patch]
    BY <1>1
  <2>. QED  BY <2>1, <2>2, <2>3, <2>4, <2>5, <2>6 DEF AppTyped
<1>3. shown \subseteq Patch
  BY <1>1, ListedFacts
<1>4. /\ patches \in [Patch -> Nat] /\ lists \in [Port -> SUBSET Patch]
      /\ \A c \in Patch : patches[c] = IF c \in shown THEN 1 ELSE 0
      /\ \A p \in Port : lists[p] = {c \in shown : p \in {c[1], c[2]}}
  <2>1. /\ patches = [c \in Patch |-> IF c \in shown THEN 1 ELSE 0]
        /\ lists = [p \in Port |-> {c \in shown : p \in {c[1], c[2]}}]
    BY DEF Init
  <2>. HIDE DEF shown
  <2>. QED  BY <1>3, <2>1
<1>. HIDE DEF shown
<1>5. Linked = shown
  BY <1>3, <1>4 DEF Linked
<1>6. GraphOK /\ LinkInv
  BY <1>1, <1>3, <1>4, <1>5, PatchFacts DEF GraphOK, ListsAgree, LinkInv, Gone
<1>7. RequestInv
  BY <1>1 DEF RequestInv
<1>8. GestureOK
  BY <1>1 DEF Init, PatchbayInit, Idle, GestureOK, GestureTyped, GestureInv, Button, Patching, Place
<1>. QED  BY <1>2, <1>6, <1>7, <1>8, InitCallback DEF PatchInv

\* The patchbay and the gesture are as they were.
LEMMA PatchKept ==
  ASSUME PatchInv, CallbackInv', AppTyped', RequestInv', UNCHANGED <<graph, gesture, clients>>,
         ui' \in {"exiting", "done"} => ui \in {"exiting", "done"}
  PROVE  PatchInv'
<1>1. GraphOK'
  BY DEF PatchInv, GraphOK, ListsAgree, Linked, graph
<1>2. LinkInv'
  BY DEF PatchInv, LinkInv, Linked, Gone, graph
<1>3. GestureOK'
  BY GestureKept DEF PatchInv, GestureOK, graph
<1>. QED  BY <1>1, <1>2, <1>3 DEF PatchInv

LEMMA ServerPatch ==
  ASSUME PatchInv, CallbackInv', UNCHANGED <<graph, gesture, app>>,
         jack' \in [ports : SUBSET Port, connections : SUBSET Patch], notes' \in Seq(NoteType),
         steps' \in 0 .. MaxSteps
  PROVE  PatchInv'
<1>1. AppTyped'
  BY DEF PatchInv, AppTyped, app
<1>2. RequestInv'
  BY DEF PatchInv, RequestInv, app, graph, gesture
<1>. QED  BY <1>1, <1>2, PatchKept DEF app

LEMMA ChangePatch ==
  ASSUME PatchInv, CallbackInv',
         \/ \E c \in Patch : OtherConnects(c) \/ OtherDisconnects(c)
         \/ \E p \in Port : PortAppears(p) \/ PortVanishes(p)
         \/ \E c \in Client : ClientCloses(c)
  PROVE  PatchInv'
<1>1. jack \in [ports : SUBSET Port, connections : SUBSET Patch] /\ notes \in Seq(NoteType)
      /\ steps \in 0 .. MaxSteps
  BY DEF PatchInv, AppTyped
<1>2. ASSUME NEW c \in Patch, OtherConnects(c) \/ OtherDisconnects(c) PROVE PatchInv'
  <2>1. Note("connect", c, FALSE) \in NoteType /\ Note("disconnect", c, FALSE) \in NoteType
    BY NoteTyped
  <2>2. notes' = Append(notes, Note("connect", c, FALSE)) \/ notes' = Append(notes, Note("disconnect", c, FALSE))
    BY <1>2 DEF OtherConnects, OtherDisconnects
  <2>3. notes' \in Seq(NoteType)
    BY <1>1, <2>1, <2>2, Appended
  <2>4. \/ jack' = [jack EXCEPT !.connections = jack.connections \cup {c}]
        \/ jack' = [jack EXCEPT !.connections = jack.connections \ {c}]
    BY <1>2 DEF OtherConnects, OtherDisconnects
  <2>5. jack' \in [ports : SUBSET Port, connections : SUBSET Patch]
    BY <1>1, <2>4
  <2>6. steps' \in 0 .. MaxSteps
    <3>1. steps < MaxSteps /\ steps' = steps + 1
      BY <1>2 DEF OtherConnects, OtherDisconnects, Change
    <3>. QED  BY <1>1, <3>1, ClientAssumption
  <2>. QED  BY <1>2, <2>3, <2>5, <2>6, ServerPatch DEF OtherConnects, OtherDisconnects
<1>3. ASSUME NEW p \in Port, PortAppears(p) PROVE PatchInv'
  <2>1. notes' \in Seq(NoteType)
    BY <1>1, <1>3, NoteTyped, Appended DEF PortAppears
  <2>2. jack' \in [ports : SUBSET Port, connections : SUBSET Patch] /\ steps' \in 0 .. MaxSteps
    BY <1>1, <1>3, ClientAssumption DEF PortAppears, Change
  <2>. QED  BY <1>3, <2>1, <2>2, ServerPatch DEF PortAppears
<1>4. ASSUME NEW P \in SUBSET Port, NEW left \in SUBSET Client, IsFiniteSet(left), Vanish(P, left) PROVE PatchInv'
  <2>1. PICK t \in Seq(NoteType) : notes' = notes \o t
    BY <1>4, VanishNotes DEF PatchInv
  <2>2. notes' \in Seq(NoteType)
    BY <1>1, <2>1, ConcatProperties
  <2>3. jack' \in [ports : SUBSET Port, connections : SUBSET Patch] /\ steps' \in 0 .. MaxSteps
    BY <1>1, <1>4, ClientAssumption DEF Vanish, Change
  <2>. QED  BY <1>4, <2>2, <2>3, ServerPatch DEF Vanish
<1>5. ASSUME NEW p \in Port, PortVanishes(p) PROVE PatchInv'
  BY <1>4, <1>5, FS_EmptySet DEF PortVanishes
<1>6. ASSUME NEW c \in Client, ClientCloses(c) PROVE PatchInv'
  <2>1. {p \in jack.ports : Owner[p] = c} \in SUBSET Port /\ {c} \in SUBSET Client
    BY <1>1
  <2>2. IsFiniteSet({c})
    BY FS_Singleton
  <2>. QED  BY <1>4, <1>6, <2>1, <2>2 DEF ClientCloses
<1>. QED  BY <1>2, <1>3, <1>5, <1>6

LEMMA UiPatch ==
  ASSUME PatchInv, CallbackInv', UiLock \/ UiUnlock \/ UiDrop \/ UiMutex \/ UiCall \/ UiClose
  PROVE  PatchInv'
<1>0. AppTyped /\ RequestInv /\ GestureTyped /\ GestureInv /\ ports \subseteq Port
  BY DEF PatchInv, GestureOK
<1>1. CASE UiLock
  <2>1. AppTyped'
    BY <1>0, <1>1 DEF UiLock, AppTyped, server
  <2>2. RequestInv'
    BY <1>0, <1>1 DEF UiLock, RequestInv, graph, gesture
  <2>. QED  BY <1>1, <2>1, <2>2, PatchKept DEF UiLock
<1>2. CASE UiUnlock
  <2>1. AppTyped'
    BY <1>0, <1>2 DEF UiUnlock, AppTyped, server
  <2>2. RequestInv'
    BY <1>0, <1>2 DEF UiUnlock, RequestInv, graph, gesture
  <2>. QED  BY <1>2, <2>1, <2>2, PatchKept DEF UiUnlock
<1>3. CASE UiDrop
  <2>1. /\ ~loose /\ mouse.state = "DRAG" /\ mouse.target \in Port /\ mouse.under \in Port
        /\ ~SameType(mouse.target, mouse.under)
    BY <1>3 DEF UiDrop, Asks
  <2>. DEFINE c == Pair(mouse.target, mouse.under)
  <2>2. c \in Patch /\ {c[1], c[2]} = {mouse.target, mouse.under}
    BY <2>1, PairFacts
  <2>3. {mouse.target, mouse.under} \subseteq ports
    BY <1>0, <2>1, PortAssumption DEF GestureInv
  <2>. HIDE DEF c
  <2>4. request' \in Request /\ request'.pair = c
    BY <1>3, <2>2 DEF UiDrop, Request, c
  <2>5. steps' \in 0 .. MaxSteps
    BY <1>0, <1>3, ClientAssumption DEF UiDrop, Change, AppTyped
  <2>6. AppTyped'
    BY <1>0, <1>3, <2>4, <2>5 DEF UiDrop, AppTyped, server
  <2>7. RequestInv'
    BY <1>0, <1>3, <2>1, <2>2, <2>3, <2>4 DEF UiDrop, RequestInv, graph, gesture
  <2>. QED  BY <1>3, <2>6, <2>7, PatchKept DEF UiDrop
<1>4. CASE UiMutex
  <2>1. AppTyped'
    BY <1>0, <1>4 DEF UiMutex, AppTyped, server
  <2>2. RequestInv'
    BY <1>0, <1>4 DEF UiMutex, RequestInv, graph, gesture
  <2>. QED  BY <1>4, <2>1, <2>2, PatchKept DEF UiMutex
<1>5. CASE UiCall
  <2>1. request # NoRequest /\ request.pair \in Patch /\ request.op \in {"connect", "disconnect"}
    BY <1>0, <1>5 DEF UiCall, RequestInv, AppTyped, Request
  <2>2. Note(request.op, request.pair, TRUE) \in NoteType
    BY <2>1, NoteTyped
  <2>3. jack' \in [ports : SUBSET Port, connections : SUBSET Patch] /\ notes' \in Seq(NoteType) /\ request' \in Request
    <3>1. CASE request' = NoRequest /\ UNCHANGED server
      BY <1>0, <3>1 DEF AppTyped, server, Request
    <3>2. CASE ~(request' = NoRequest /\ UNCHANGED server)
      <4>1. /\ jack' = [jack EXCEPT !.connections = IF request.op = "connect" THEN @ \cup {request.pair}
                                                                           ELSE @ \ {request.pair}]
            /\ notes' = Append(notes, Note(request.op, request.pair, TRUE)) /\ request' = request
        BY <1>5, <3>2 DEF UiCall
      <4>2. notes' \in Seq(NoteType)
        BY <1>0, <2>2, <4>1, Appended DEF AppTyped
      <4>. QED  BY <1>0, <2>1, <4>1, <4>2 DEF AppTyped
    <3>. QED  BY <3>1, <3>2
  <2>4. AppTyped'
    BY <1>0, <1>5, <2>3 DEF UiCall, AppTyped
  <2>5. request' = request \/ request' = NoRequest
    BY <1>5 DEF UiCall
  <2>6. RequestInv'
    BY <1>0, <1>5, <2>1, <2>5 DEF UiCall, RequestInv, graph, gesture
  <2>. QED  BY <1>5, <2>4, <2>6, PatchKept DEF UiCall
<1>6. CASE UiClose
  <2>1. AppTyped'
    BY <1>0, <1>6, EmptySeq DEF UiClose, AppTyped
  <2>2. RequestInv'
    BY <1>0, <1>6 DEF UiClose, RequestInv, graph, gesture
  <2>. QED  BY <1>6, <2>1, <2>2, PatchKept DEF UiClose
<1>. QED  BY <1>1, <1>2, <1>3, <1>4, <1>5, <1>6

LEMMA PointerPatch ==
  ASSUME PatchInv, CallbackInv', UiPointer
  PROVE  PatchInv'
<1>1. GestureOK' /\ UNCHANGED graph
  <2>1. CASE Press
    BY <2>1, PressGesture DEF PatchInv
  <2>2. ASSUME NEW u \in ports \cup {Nothing}, MovePointer(u) \/ EnterWindow(u)
        PROVE  GestureOK' /\ UNCHANGED graph
    BY <2>2, MoveGesture, EnterGesture DEF PatchInv
  <2>3. CASE LeaveWindow
    BY <2>3, LeaveGesture DEF PatchInv
  <2>4. CASE Release
    BY <2>4, ReleaseGesture DEF PatchInv, Release, graph
  <2>. QED  BY <2>1, <2>2, <2>3, <2>4 DEF UiPointer
<1>2. AppTyped' /\ UNCHANGED app /\ request = NoRequest /\ ui = "event"
  BY DEF UiPointer, PatchInv, AppTyped, server, app
<1>3. RequestInv'
  BY <1>2 DEF RequestInv, app
<1>4. GraphOK' /\ LinkInv'
  BY <1>1, <1>2 DEF PatchInv, GraphOK, LinkInv, ListsAgree, Linked, Gone, graph, app
<1>. QED  BY <1>1, <1>2, <1>3, <1>4 DEF PatchInv

LEMMA ShowPatch ==
  ASSUME PatchInv, CallbackInv', UiShow
  PROVE  /\ PatchInv' /\ UNCHANGED <<ports, clients, jack, notes, cb, missed>>
         /\ Linked' = IF request = NoRequest THEN Linked
                      ELSE IF request.op = "connect" THEN Linked \cup {request.pair} ELSE Linked \ {request.pair}
<1>1. /\ ui = "called" /\ ui' = "event" /\ request' = NoRequest
      /\ UNCHANGED <<ports, jack, notes, clients, lock, cb, missed, steps>> /\ Released
  BY DEF UiShow, server
<1>2. request = NoRequest \/ (request # NoRequest /\ request.pair \in Patch /\ request.op \in {"connect", "disconnect"}
                              /\ {request.pair[1], request.pair[2]} \subseteq ports)
  BY DEF PatchInv, AppTyped, Request, RequestInv
<1>3. GraphOK /\ GestureOK /\ LinkInv /\ ports' \subseteq Port
  BY <1>1 DEF PatchInv, RequestInv, GraphOK
<1>4. /\ GraphOK' /\ \A c \in Linked' : {c[1], c[2]} \subseteq ports
      /\ Linked' = IF request = NoRequest THEN Linked
                   ELSE IF request.op = "connect" THEN Linked \cup {request.pair} ELSE Linked \ {request.pair}
  <2>1. CASE request = NoRequest
    <3>1. UNCHANGED <<patches, lists>>
      BY <2>1 DEF UiShow, NoRequest
    <3>. QED  BY <1>1, <1>3, <2>1, <3>1 DEF GraphOK, ListsAgree, Linked, LinkInv
  <2>2. CASE request # NoRequest /\ request.op = "connect"
    <3>1. Connect(request.pair[1], request.pair[2])
      BY <2>2 DEF UiShow
    <3>2. GraphOK' /\ Linked' = Linked \cup {request.pair}
      BY <1>1, <1>2, <1>3, <2>2, <3>1, ConnectGraph
    <3>. QED  BY <1>2, <1>3, <2>2, <3>2 DEF LinkInv
  <2>3. CASE request # NoRequest /\ request.op = "disconnect"
    <3>1. FreePatches({request.pair})
      BY <2>3 DEF UiShow
    <3>2. GraphOK' /\ Linked' = Linked \ {request.pair}
      BY <1>3, <3>1, FreeGraph
    <3>. QED  BY <1>3, <2>3, <3>2 DEF LinkInv
  <2>. QED  BY <1>2, <2>1, <2>2, <2>3
<1>5. LinkInv'
  BY <1>1, <1>3, <1>4 DEF LinkInv, Gone
<1>6. GestureOK'
  BY <1>1, <1>3, ReleaseGesture
<1>7. AppTyped'
  BY <1>1 DEF PatchInv, AppTyped, Request
<1>8. RequestInv'
  BY <1>1 DEF RequestInv
<1>. QED  BY <1>1, <1>4, <1>5, <1>6, <1>7, <1>8 DEF PatchInv

LEMMA ExitPatch ==
  ASSUME PatchInv, CallbackInv', UiExit
  PROVE  PatchInv'
<1>1. /\ ui = "polling" /\ ui' = "exiting" /\ clients' = {} /\ lock' = "ui" /\ PortFini(ports)
      /\ UNCHANGED <<jack, notes, request, cb, missed, steps>>
  BY DEF UiExit, server
<1>2. GraphOK /\ GestureOK /\ LinkInv /\ request = NoRequest
  BY <1>1 DEF PatchInv, RequestInv
<1>3. GraphOK' /\ GestureOK' /\ ports' = {} /\ Linked' = {c \in Linked : {c[1], c[2]} \cap ports = {}}
  <2>1. ports' = ports \ ports /\ ports \subseteq ports
    BY <1>1 DEF PortFini
  <2>. QED  BY <1>1, <1>2, <2>1, FiniGraph, FiniGesture
<1>4. LinkInv'
  BY <1>2, <1>3 DEF LinkInv
<1>5. AppTyped' /\ RequestInv'
  BY <1>1, <1>2 DEF PatchInv, AppTyped, RequestInv
<1>. QED  BY <1>3, <1>4, <1>5 DEF PatchInv

LEMMA CalledPatch ==
  ASSUME PatchInv, CallbackInv', Called \/ CallbackLock
  PROVE  PatchInv'
<1>1. AppTyped'
  <2>1. CASE Called
    <3>1. Head(notes) \in NoteType /\ Tail(notes) \in Seq(NoteType)
      BY <2>1, HeadTailProperties DEF Called, PatchInv, AppTyped
    <3>2. cb' \in {NoCall} \cup [at : {"waiting", "holding"}, note : NoteType]
      BY <2>1, <3>1 DEF Called
    <3>3. missed' \in BOOLEAN
      BY <2>1 DEF Called
    <3>. QED  BY <2>1, <3>1, <3>2, <3>3 DEF Called, PatchInv, AppTyped
  <2>2. CASE CallbackLock
    BY <2>2, NoCallFacts DEF CallbackLock, PatchInv, AppTyped, server
  <2>. QED  BY <2>1, <2>2
<1>2. RequestInv'
  BY DEF Called, CallbackLock, PatchInv, RequestInv, graph, gesture
<1>. QED  BY <1>1, <1>2, PatchKept DEF Called, CallbackLock

\* What a callback is at when it does something.
LEMMA HoldingFacts ==
  ASSUME PatchInv, CallbackBody
  PROVE  /\ cb.note \in NoteType /\ ui = "polling" /\ ui' = "polling" /\ lock' = "none" /\ cb' = NoCall
         /\ request = NoRequest /\ request' = NoRequest
         /\ UNCHANGED <<jack, notes, missed, steps>>
         /\ IsConnection(cb.note) => {cb.note.of[1], cb.note.of[2]} \subseteq ports
<1>1. cb.at = "holding" /\ ui' = ui /\ request' = request /\ lock' = "none" /\ cb' = NoCall
      /\ UNCHANGED <<jack, notes, missed, steps>>
  BY DEF CallbackBody, server
<1>2. cb.note \in NoteType
  BY <1>1, NoCallFacts DEF PatchInv, AppTyped
<1>3. ui = "polling"
  BY <1>1 DEF PatchInv, CallbackInv, LockHeld
<1>4. request = NoRequest
  BY <1>3 DEF PatchInv, RequestInv
<1>. QED  BY <1>1, <1>2, <1>3, <1>4 DEF PatchInv, CallbackInv, PortsKept

LEMMA BodyPatch ==
  ASSUME PatchInv, CallbackInv', CallbackBody, cb.note.kind = "registered" => cb.note.of \notin ports
  PROVE  /\ PatchInv'
         /\ \/ /\ cb.note.kind = "connect" /\ Linked' = Linked \cup {cb.note.of}
               /\ ports' = ports /\ clients' = clients
            \/ /\ cb.note.kind = "disconnect" /\ Linked' = Linked \ {cb.note.of}
               /\ ports' = ports /\ clients' = clients
            \/ /\ cb.note.kind = "registered" /\ Linked' = Linked
               /\ ports' = ports \cup {cb.note.of} /\ clients' = clients \cup {Owner[cb.note.of]}
            \/ /\ cb.note.kind = "unregistered" /\ ports' = ports \ {cb.note.of}
               /\ Linked' = {c \in Linked : cb.note.of \notin {c[1], c[2]}}
            \/ /\ cb.note.kind = "client_left" /\ ports' = {p \in ports : Owner[p] # cb.note.of}
               /\ Linked' = {c \in Linked : {c[1], c[2]} \subseteq ports'}
<1>. DEFINE n == cb.note
<1>1. /\ n \in NoteType /\ ui = "polling" /\ ui' = "polling" /\ lock' = "none" /\ cb' = NoCall
      /\ request = NoRequest /\ request' = NoRequest
      /\ UNCHANGED <<jack, notes, missed, steps>>
      /\ IsConnection(n) => {n.of[1], n.of[2]} \subseteq ports
  BY HoldingFacts
<1>2. GraphOK /\ GestureOK /\ LinkInv /\ AppTyped /\ ports \subseteq Port
  BY DEF PatchInv, GraphOK
<1>3. RequestInv'
  BY <1>1 DEF RequestInv
<1>4. clients' \subseteq Client => AppTyped'
  BY <1>1, <1>2 DEF AppTyped
<1>5. ~Gone'
  BY <1>1 DEF Gone
<1>6. CASE n.kind \in {"connect", "disconnect"}
  <2>1. n.of \in Patch /\ {n.of[1], n.of[2]} \subseteq ports
    BY <1>1, <1>6 DEF NoteType, IsConnection
  <2>2. /\ UNCHANGED <<ports, clients, gesture>>
        /\ n.kind = "connect" => Connect(n.of[1], n.of[2])
        /\ n.kind = "disconnect" => Disconnect(n.of[1], n.of[2])
    BY <1>6 DEF CallbackBody
  <2>3. GraphOK' /\ Linked' = IF n.kind = "connect" THEN Linked \cup {n.of} ELSE Linked \ {n.of}
    BY <1>2, <1>6, <2>1, <2>2, ConnectGraph, DisconnectGraph
  <2>4. LinkInv'
    BY <1>2, <1>5, <2>1, <2>2, <2>3 DEF LinkInv
  <2>5. GestureOK' /\ AppTyped'
    BY <1>2, <1>4, <2>2, GestureKept DEF AppTyped
  <2>. QED  BY <1>3, <1>6, <2>2, <2>3, <2>4, <2>5 DEF PatchInv
<1>7. CASE n.kind = "registered"
  <2>1. n.of \in Port /\ n.of \notin ports
    BY <1>1, <1>7 DEF NoteType
  <2>2. ports' = ports \cup {n.of} /\ lists' = [lists EXCEPT ![n.of] = {}] /\ UNCHANGED <<patches, gesture>>
        /\ clients' = clients \cup {Owner[n.of]}
    BY <1>7 DEF CallbackBody, PortInit, Nodes
  <2>3. Linked' = Linked
    BY <2>2 DEF Linked
  <2>4. lists[n.of] = {}
    BY <1>2, <2>1 DEF GraphOK, ListsAgree, LinkInv
  <2>5. lists' = lists
    BY <1>2, <2>1, <2>2, <2>4 DEF GraphOK
  <2>6. GraphOK'
    BY <1>2, <2>1, <2>2, <2>3, <2>5 DEF GraphOK, ListsAgree
  <2>7. LinkInv'
    BY <1>2, <1>5, <2>2, <2>3 DEF LinkInv
  <2>8. GestureOK'
    BY <1>2, <2>1, <2>2, GestureKept
  <2>9. AppTyped'
    BY <1>2, <1>4, <2>1, <2>2, ClientAssumption DEF AppTyped
  <2>. QED  BY <1>3, <1>7, <2>2, <2>3, <2>6, <2>7, <2>8, <2>9 DEF PatchInv
<1>8. CASE n.kind = "unregistered"
  <2>1. n.of \in Port
    BY <1>1, <1>8 DEF NoteType
  <2>. DEFINE gone == {n.of} \cap ports
  <2>2. PortFini(gone) /\ clients' = clients \cup {Owner[n.of]} /\ gone \subseteq ports
    BY <1>8 DEF CallbackBody, Nodes
  <2>3. GraphOK' /\ GestureOK' /\ ports' = ports \ gone /\ Linked' = {c \in Linked : {c[1], c[2]} \cap gone = {}}
    BY <1>2, <2>2, FiniGraph, FiniGesture
  <2>4. ports' = ports \ {n.of} /\ Linked' = {c \in Linked : n.of \notin {c[1], c[2]}}
    BY <1>2, <2>3 DEF LinkInv
  <2>5. LinkInv'
    BY <1>2, <1>5, <2>2, <2>4 DEF LinkInv
  <2>6. AppTyped'
    BY <1>2, <1>4, <2>1, <2>2, ClientAssumption DEF AppTyped
  <2>. QED  BY <1>3, <1>8, <2>3, <2>4, <2>5, <2>6 DEF PatchInv
<1>9. CASE n.kind = "client_left"
  <2>. DEFINE gone == {p \in ports : Owner[p] = n.of}
  <2>1. PortFini(gone) /\ clients' = clients \ {n.of} /\ gone \subseteq ports
    BY <1>9 DEF CallbackBody, Nodes
  <2>2. GraphOK' /\ GestureOK' /\ ports' = ports \ gone /\ Linked' = {c \in Linked : {c[1], c[2]} \cap gone = {}}
    BY <1>2, <2>1, FiniGraph, FiniGesture
  <2>3. ports' = {p \in ports : Owner[p] # n.of} /\ Linked' = {c \in Linked : {c[1], c[2]} \subseteq ports'}
    BY <1>2, <2>2 DEF LinkInv
  <2>4. LinkInv'
    BY <1>2, <1>5, <2>1, <2>3 DEF LinkInv
  <2>5. AppTyped'
    BY <1>2, <1>4, <2>1 DEF AppTyped
  <2>. QED  BY <1>3, <1>9, <2>2, <2>3, <2>4, <2>5 DEF PatchInv
<1>. QED  BY <1>1, <1>6, <1>7, <1>8, <1>9 DEF NoteType

-------------------------------------------------------------------------------
(***************************************************************************)
(* What is told                                                            *)
(***************************************************************************)
LEMMA KindFacts ==
  /\ \A n, p : n \in Made(p) => n.kind = "registered" /\ n.of = p
  /\ \A n, p : n \in Freed(p) => n.kind = "unregistered" /\ n.of = p
  /\ \A n, c : n \in Patched(c) => n.kind = "connect" /\ n.of = c
  /\ \A n, c : n \in Cut(c) => \/ n.kind = "disconnect" /\ n.of = c
                               \/ n.kind = "unregistered" /\ n.of \in {c[1], c[2]}
BY DEF Made, Freed, Patched, Cut

LEMMA KindMembers ==
  ASSUME NEW n \in NoteType
  PROVE  /\ n.kind = "registered" => n \in Made(n.of)
         /\ n.kind = "unregistered" => n \in Freed(n.of)
         /\ n.kind = "connect" => n \in Patched(n.of)
         /\ n.kind = "disconnect" => n \in Cut(n.of)
         /\ \A c : n.kind = "unregistered" /\ n.of \in {c[1], c[2]} => n \in Cut(c)
BY DEF Made, Freed, Patched, Cut

\* More is told of: of what is there, what was so is so until it is told otherwise.
LEMMA InAfter ==
  ASSUME AppTyped, NEW p \in Port, NEW t \in Seq(NoteType), notes' = notes \o t, UNCHANGED <<ports, cb>>
  PROVE  /\ \A n \in 0 .. Len(notes) : (In(n, p) => In(n, p)') /\ (Out(n, p) => Out(n, p)')
         /\ In(Len(notes), p) /\ (\A k \in 1 .. Len(t) : t[k] \notin Freed(p)) =>
              \A m \in 0 .. Len(t) : \A n : n = Len(notes) + m => In(n, p)'
         /\ Out(Len(notes), p) /\ (\A k \in 1 .. Len(t) : t[k] \notin Made(p)) =>
              \A m \in 0 .. Len(t) : \A n : n = Len(notes) + m => Out(n, p)'
         /\ \A i \in 1 .. Len(t) : t[i] \in Made(p) /\ (\A k \in 1 .. Len(t) : t[k] \notin Freed(p)) =>
              \A m \in i .. Len(t) : \A n : n = Len(notes) + m => In(n, p)'
         /\ \A i \in 1 .. Len(t) : t[i] \in Freed(p) /\ (\A k \in 1 .. Len(t) : t[k] \notin Made(p)) =>
              \A m \in i .. Len(t) : \A n : n = Len(notes) + m => Out(n, p)'
<1>. DEFINE I == Done(Made(p), Freed(p), p \in ports)
            O == Done(Freed(p), Made(p), p \notin ports)
<1>1. notes \in Seq(NoteType)
  BY DEF AppTyped
<1>2. \A n : /\ In(n, p) <=> Says(notes, n, Made(p), Freed(p), I)
             /\ Out(n, p) <=> Says(notes, n, Freed(p), Made(p), O)
  BY DEF In, Out
<1>3. \A n : /\ In(n, p)' <=> Says(notes \o t, n, Made(p), Freed(p), I)
             /\ Out(n, p)' <=> Says(notes \o t, n, Freed(p), Made(p), O)
  BY DEF In, Out, Done, Says
<1>. HIDE DEF I, O
<1>4. \A n \in 0 .. Len(notes) : (In(n, p) => In(n, p)') /\ (Out(n, p) => Out(n, p)')
  BY <1>1, <1>2, <1>3, SaysPrefix
<1>5. ASSUME In(Len(notes), p), \A k \in 1 .. Len(t) : t[k] \notin Freed(p),
             NEW m \in 0 .. Len(t), NEW n, n = Len(notes) + m
      PROVE  In(n, p)'
  <2>1. Says(notes, Len(notes), Made(p), Freed(p), I)
    BY <1>2, <1>5
  <2>2. Says(notes \o t, Len(notes) + m, Made(p), Freed(p), I)
    BY <1>1, <1>5, <2>1, SaysKept
  <2>. QED  BY <1>3, <1>5, <2>2
<1>6. ASSUME Out(Len(notes), p), \A k \in 1 .. Len(t) : t[k] \notin Made(p),
             NEW m \in 0 .. Len(t), NEW n, n = Len(notes) + m
      PROVE  Out(n, p)'
  <2>1. Says(notes, Len(notes), Freed(p), Made(p), O)
    BY <1>2, <1>6
  <2>2. Says(notes \o t, Len(notes) + m, Freed(p), Made(p), O)
    BY <1>1, <1>6, <2>1, SaysKept
  <2>. QED  BY <1>3, <1>6, <2>2
<1>7. ASSUME NEW i \in 1 .. Len(t), t[i] \in Made(p), \A k \in 1 .. Len(t) : t[k] \notin Freed(p),
             NEW m \in i .. Len(t), NEW n, n = Len(notes) + m
      PROVE  In(n, p)'
  <2>1. Says(notes \o t, Len(notes) + m, Made(p), Freed(p), I)
    BY <1>1, <1>7, SaysNew
  <2>. QED  BY <1>3, <1>7, <2>1
<1>8. ASSUME NEW i \in 1 .. Len(t), t[i] \in Freed(p), \A k \in 1 .. Len(t) : t[k] \notin Made(p),
             NEW m \in i .. Len(t), NEW n, n = Len(notes) + m
      PROVE  Out(n, p)'
  <2>1. Says(notes \o t, Len(notes) + m, Freed(p), Made(p), O)
    BY <1>1, <1>8, SaysNew
  <2>. QED  BY <1>3, <1>8, <2>1
<1>. QED  BY <1>4, <1>5, <1>6, <1>7, <1>8

\* What is told of next fits if it fits where it comes.
LEMMA PortAppended ==
  ASSUME AppTyped, NEW p \in Port, PortOK(p), NEW t \in Seq(NoteType), notes' = notes \o t, UNCHANGED <<ports, cb>>,
         \A k \in 1 .. Len(t) : \A n : n = Len(notes) + (k - 1) => Fits(n, t[k], p)',
         \A n : n = Len(notes) + Len(t) =>
           (p \in jack'.ports => In(n, p)') /\ (p \notin jack'.ports => Out(n, p)')
  PROVE  PortOK(p)'
<1>0. notes \in Seq(NoteType)
  BY DEF AppTyped
<1>. DEFINE l == Len(notes)
<1>1. /\ l \in Nat /\ Len(t) \in Nat /\ Len(notes') = l + Len(t)
      /\ \A k \in 1 .. l : notes'[k] = notes[k]
      /\ \A k \in 1 .. Len(t) : notes'[l + k] = t[k]
      /\ \A k \in 1 .. Len(notes') : k \in 1 .. l \/ (k - l \in 1 .. Len(t) /\ k = l + (k - l))
  BY <1>0, Joined
<1>2. \A n \in 0 .. l : (In(n, p) => In(n, p)') /\ (Out(n, p) => Out(n, p)')
  BY InAfter
<1>3. \A j \in 1 .. l : Fits(j - 1, notes[j], p)
  BY DEF PortOK
<1>4. \A k \in 1 .. Len(t) : \A n : n = l + (k - 1) => Fits(n, t[k], p)'
  OBVIOUS
<1>5. cb.at # "idle" /\ (cb.note \in Made(p) \/ Orphans(cb.note, p)) => p \notin ports
  BY DEF PortOK
<1>6. \A n : n = l + Len(t) => (p \in jack'.ports => In(n, p)') /\ (p \notin jack'.ports => Out(n, p)')
  OBVIOUS
<1>. HIDE DEF l
<1>7. ASSUME NEW j \in 1 .. Len(notes') PROVE Fits(j - 1, notes[j], p)'
  <2>1. CASE j \in 1 .. l
    <3>1. j - 1 \in 0 .. l /\ Fits(j - 1, notes[j], p) /\ notes'[j] = notes[j]
      BY <1>1, <1>3, <2>1
    <3>. QED  BY <1>2, <3>1 DEF Fits, Orphans
  <2>2. CASE j - l \in 1 .. Len(t) /\ j = l + (j - l)
    <3>1. \E k \in 1 .. Len(t) : k = j - l
      BY <2>2
    <3>2. PICK k \in 1 .. Len(t) : k = j - l
      BY <3>1
    <3>3. notes'[j] = t[k] /\ j - 1 = l + (k - 1)
      BY <1>1, <2>2, <3>2
    <3>4. Fits(j - 1, t[k], p)'
      BY <1>4, <3>3
    <3>. QED  BY <3>3, <3>4 DEF Fits, Orphans
  <2>. QED  BY <1>1, <2>1, <2>2
<1>8. (p \in jack'.ports => In(Len(notes), p)') /\ (p \notin jack'.ports => Out(Len(notes), p)')
  BY <1>1, <1>6
<1>. QED  BY <1>5, <1>7, <1>8 DEF PortOK

\* What is told of next of a connection is the last that is said of it.
LEMMA ConnectionAppended ==
  ASSUME AppTyped, NEW c \in Patch, ConnectionOK(c), NEW t \in Seq(NoteType), notes' = notes \o t, cb' = cb,
         \/ /\ c \in jack'.connections <=> c \in jack.connections
            /\ Shows(c)' <=> Shows(c)
            /\ c \in jack.connections => \A k \in 1 .. Len(t) : t[k] \notin Cut(c)
            /\ c \notin jack.connections => \A k \in 1 .. Len(t) : t[k] \notin Patched(c)
         \/ /\ c \in jack'.connections /\ \A k \in 1 .. Len(t) : t[k] \notin Cut(c)
            /\ \E i \in 1 .. Len(t) : t[i] \in Patched(c)
         \/ /\ c \notin jack'.connections /\ \A k \in 1 .. Len(t) : t[k] \notin Patched(c)
            /\ \E i \in 1 .. Len(t) : t[i] \in Cut(c)
  PROVE  ConnectionOK(c)'
<1>. DEFINE l == Len(notes)
            m == Len(t)
            I == Done(Patched(c), Cut(c), Shows(c))
            O == Done(Cut(c), Patched(c), ~Shows(c))
            J == Done(Patched(c), Cut(c), Shows(c)')
            Q == Done(Cut(c), Patched(c), ~Shows(c)')
<1>1. notes \in Seq(NoteType)
  BY DEF AppTyped
<1>2. l \in Nat /\ m \in Nat /\ Len(notes \o t) = l + m /\ m \in 0 .. m
  BY <1>1, Joined
<1>3. ConnectionOK(c)' <=>
        /\ c \in jack'.connections => Says(notes \o t, Len(notes \o t), Patched(c), Cut(c), J)
        /\ c \notin jack'.connections => Says(notes \o t, Len(notes \o t), Cut(c), Patched(c), Q)
  BY DEF ConnectionOK, Done, Says
<1>4. /\ c \in jack.connections => Says(notes, l, Patched(c), Cut(c), I)
      /\ c \notin jack.connections => Says(notes, l, Cut(c), Patched(c), O)
  BY DEF ConnectionOK
<1>5. (Shows(c)' <=> Shows(c)) => (I => J) /\ (O => Q)
  BY DEF Done
<1>. HIDE DEF I, O, J, Q
<1>6. CASE /\ c \in jack'.connections <=> c \in jack.connections
           /\ Shows(c)' <=> Shows(c)
           /\ c \in jack.connections => \A k \in 1 .. m : t[k] \notin Cut(c)
           /\ c \notin jack.connections => \A k \in 1 .. m : t[k] \notin Patched(c)
  <2>1. c \in jack.connections => Says(notes \o t, l + m, Patched(c), Cut(c), I)
    BY <1>1, <1>2, <1>4, <1>6, SaysKept
  <2>2. c \notin jack.connections => Says(notes \o t, l + m, Cut(c), Patched(c), O)
    BY <1>1, <1>2, <1>4, <1>6, SaysKept
  <2>3. c \in jack.connections => Says(notes \o t, l + m, Patched(c), Cut(c), J)
    BY <1>5, <1>6, <2>1, SaysBase
  <2>4. c \notin jack.connections => Says(notes \o t, l + m, Cut(c), Patched(c), Q)
    BY <1>5, <1>6, <2>2, SaysBase
  <2>. QED  BY <1>2, <1>3, <1>6, <2>3, <2>4
<1>7. ASSUME c \in jack'.connections, \A k \in 1 .. m : t[k] \notin Cut(c), NEW i \in 1 .. m, t[i] \in Patched(c)
      PROVE  ConnectionOK(c)'
  <2>1. m \in i .. m
    BY <1>2
  <2>2. Says(notes \o t, l + m, Patched(c), Cut(c), J)
    BY <1>1, <1>7, <2>1, SaysNew
  <2>. QED  BY <1>2, <1>3, <1>7, <2>2
<1>8. ASSUME c \notin jack'.connections, \A k \in 1 .. m : t[k] \notin Patched(c), NEW i \in 1 .. m, t[i] \in Cut(c)
      PROVE  ConnectionOK(c)'
  <2>1. m \in i .. m
    BY <1>2
  <2>2. Says(notes \o t, l + m, Cut(c), Patched(c), Q)
    BY <1>1, <1>8, <2>1, SaysNew
  <2>. QED  BY <1>2, <1>3, <1>8, <2>2
<1>. QED  BY <1>6, <1>7, <1>8

\* A connection is made or cut, by another program or by the window's thread.
LEMMA ConnectTold ==
  ASSUME PatchInv, PortInv, NEW c \in Patch, NEW self \in BOOLEAN, {c[1], c[2]} \subseteq jack.ports,
         jack' = [jack EXCEPT !.connections = @ \cup {c}], notes' = Append(notes, Note("connect", c, self)),
         UNCHANGED <<ports, cb>>, \A d \in Patch : d # c => (Shows(d)' <=> Shows(d))
  PROVE  PortInv' /\ (ConnectionInv => ConnectionInv')
<1>0. PICK x \in NoteType : x = Note("connect", c, self)
  BY NoteTyped
<1>1. AppTyped /\ x \in NoteType /\ x.kind = "connect" /\ x.of = c
  BY <1>0, NoteFields DEF PatchInv
<1>2. jack'.ports = jack.ports /\ jack'.connections = jack.connections \cup {c}
  BY <1>1 DEF AppTyped
<1>3. notes' = Append(notes, x) /\ notes \in Seq(NoteType)
  BY <1>0, <1>1 DEF AppTyped
<1>4. PICK t \in Seq(NoteType) : Len(t) = 1 /\ t[1] = x /\ notes' = notes \o t
  <2>1. /\ Append(notes, x) = notes \o <<x>> /\ <<x>> \in Seq(NoteType)
        /\ Len(<<x>>) = 1 /\ <<x>>[1] = x
    BY <1>3, Appended
  <2>. QED  BY <1>3, <2>1
<1>5. \A k \in 1 .. Len(t) : k = 1 /\ t[k] = x
  BY <1>4
<1>6. ASSUME NEW p \in Port PROVE PortOK(p)'
  <2>1. PortOK(p)
    BY DEF PortInv
  <2>2. x \notin Made(p) /\ x \notin Freed(p)
    BY <1>1, KindFacts
  <2>3. \A m \in 0 .. Len(t) : \A n : n = Len(notes) + m =>
          (p \in jack.ports => In(n, p)') /\ (p \notin jack.ports => Out(n, p)')
    <3>1. (p \in jack.ports => In(Len(notes), p)) /\ (p \notin jack.ports => Out(Len(notes), p))
      BY <2>1 DEF PortOK
    <3>. QED  BY <1>1, <1>4, <1>5, <2>2, <3>1, InAfter
  <2>4. \A k \in 1 .. Len(t) : \A n : n = Len(notes) + (k - 1) => Fits(n, t[k], p)'
    <3>1. \A n : n = Len(notes) + 0 => (p \in jack.ports => In(n, p)')
      BY <1>4, <2>3
    <3>2. \A n : n = Len(notes) + 0 => Fits(n, x, p)'
      BY <1>1, <2>2, <3>1 DEF Fits, Orphans
    <3>. TAKE k \in 1 .. Len(t)
    <3>. TAKE n
    <3>3. k = 1 /\ t[k] = x
      BY <1>5
    <3>4. n = Len(notes) + (k - 1) => n = Len(notes) + 0
      BY <3>3
    <3>. QED  BY <3>2, <3>3, <3>4
  <2>5. \A n : n = Len(notes) + Len(t) => (p \in jack'.ports => In(n, p)') /\ (p \notin jack'.ports => Out(n, p)')
    BY <1>2, <1>4, <2>3
  <2>. QED  BY <1>1, <1>4, <2>1, <2>4, <2>5, PortAppended
<1>7. ASSUME ConnectionInv, NEW d \in Patch PROVE ConnectionOK(d)'
  <2>1. ConnectionOK(d)
    BY <1>7 DEF ConnectionInv
  <2>2. x \notin Cut(d) /\ (x \in Patched(d) => d = c) /\ x \in Patched(c)
    BY <1>1, KindFacts, KindMembers
  <2>3. CASE d = c
    <3>1. /\ d \in jack'.connections /\ \A k \in 1 .. Len(t) : t[k] \notin Cut(d)
          /\ \E i \in 1 .. Len(t) : t[i] \in Patched(d)
      BY <1>2, <1>4, <1>5, <2>2, <2>3
    <3>. QED  BY <1>1, <1>4, <2>1, <3>1, ConnectionAppended
  <2>4. CASE d # c
    <3>1. /\ d \in jack'.connections <=> d \in jack.connections
          /\ Shows(d)' <=> Shows(d)
          /\ \A k \in 1 .. Len(t) : t[k] \notin Cut(d) /\ t[k] \notin Patched(d)
      BY <1>2, <1>5, <2>2, <2>4
    <3>. QED  BY <1>1, <1>4, <2>1, <3>1, ConnectionAppended
  <2>. QED  BY <2>3, <2>4
<1>. QED  BY <1>6, <1>7 DEF PortInv, ConnectionInv

LEMMA DisconnectTold ==
  ASSUME PatchInv, PortInv, NEW c \in Patch, NEW self \in BOOLEAN,
         jack' = [jack EXCEPT !.connections = @ \ {c}], notes' = Append(notes, Note("disconnect", c, self)),
         UNCHANGED <<ports, cb>>, \A d \in Patch : d # c => (Shows(d)' <=> Shows(d))
  PROVE  PortInv' /\ (ConnectionInv => ConnectionInv')
<1>0. PICK x \in NoteType : x = Note("disconnect", c, self)
  BY NoteTyped
<1>1. AppTyped /\ x \in NoteType /\ x.kind = "disconnect" /\ x.of = c
  BY <1>0, NoteFields DEF PatchInv
<1>2. jack'.ports = jack.ports /\ jack'.connections = jack.connections \ {c}
  BY <1>1 DEF AppTyped
<1>3. notes' = Append(notes, x) /\ notes \in Seq(NoteType)
  BY <1>0, <1>1 DEF AppTyped
<1>4. PICK t \in Seq(NoteType) : Len(t) = 1 /\ t[1] = x /\ notes' = notes \o t
  <2>1. /\ Append(notes, x) = notes \o <<x>> /\ <<x>> \in Seq(NoteType)
        /\ Len(<<x>>) = 1 /\ <<x>>[1] = x
    BY <1>3, Appended
  <2>. QED  BY <1>3, <2>1
<1>5. \A k \in 1 .. Len(t) : k = 1 /\ t[k] = x
  BY <1>4
<1>6. ASSUME NEW p \in Port PROVE PortOK(p)'
  <2>1. PortOK(p)
    BY DEF PortInv
  <2>2. x \notin Made(p) /\ x \notin Freed(p)
    BY <1>1, KindFacts
  <2>3. \A m \in 0 .. Len(t) : \A n : n = Len(notes) + m =>
          (p \in jack.ports => In(n, p)') /\ (p \notin jack.ports => Out(n, p)')
    <3>1. (p \in jack.ports => In(Len(notes), p)) /\ (p \notin jack.ports => Out(Len(notes), p))
      BY <2>1 DEF PortOK
    <3>. QED  BY <1>1, <1>4, <1>5, <2>2, <3>1, InAfter
  <2>4. \A k \in 1 .. Len(t) : \A n : n = Len(notes) + (k - 1) => Fits(n, t[k], p)'
    <3>. TAKE k \in 1 .. Len(t)
    <3>. TAKE n
    <3>1. t[k] = x
      BY <1>5
    <3>. QED  BY <1>1, <2>2, <3>1 DEF Fits, Orphans
  <2>5. \A n : n = Len(notes) + Len(t) => (p \in jack'.ports => In(n, p)') /\ (p \notin jack'.ports => Out(n, p)')
    BY <1>2, <1>4, <2>3
  <2>. QED  BY <1>1, <1>4, <2>1, <2>4, <2>5, PortAppended
<1>7. ASSUME ConnectionInv, NEW d \in Patch PROVE ConnectionOK(d)'
  <2>1. ConnectionOK(d)
    BY <1>7 DEF ConnectionInv
  <2>2. x \notin Patched(d) /\ (x \in Cut(d) => d = c) /\ x \in Cut(c)
    BY <1>1, KindFacts, KindMembers
  <2>3. CASE d = c
    <3>1. /\ d \notin jack'.connections /\ \A k \in 1 .. Len(t) : t[k] \notin Patched(d)
          /\ \E i \in 1 .. Len(t) : t[i] \in Cut(d)
      BY <1>2, <1>4, <1>5, <2>2, <2>3
    <3>. QED  BY <1>1, <1>4, <2>1, <3>1, ConnectionAppended
  <2>4. CASE d # c
    <3>1. /\ d \in jack'.connections <=> d \in jack.connections
          /\ Shows(d)' <=> Shows(d)
          /\ \A k \in 1 .. Len(t) : t[k] \notin Cut(d) /\ t[k] \notin Patched(d)
      BY <1>2, <1>5, <2>2, <2>4
    <3>. QED  BY <1>1, <1>4, <2>1, <3>1, ConnectionAppended
  <2>. QED  BY <2>3, <2>4
<1>. QED  BY <1>6, <1>7 DEF PortInv, ConnectionInv

LEMMA AppearTold ==
  ASSUME PatchInv, PortInv, NEW q \in Port, PortAppears(q)
  PROVE  PortInv' /\ (ConnectionInv => ConnectionInv')
<1>0. PICK x \in NoteType : x = Note("registered", q, FALSE)
  BY NoteTyped
<1>1. AppTyped /\ x.kind = "registered" /\ x.of = q /\ UNCHANGED <<ports, cb, ui, request, patches>>
  BY <1>0, NoteFields DEF PatchInv, PortAppears, graph, app
<1>2. jack'.ports = jack.ports \cup {q} /\ jack'.connections = jack.connections /\ q \notin jack.ports
  BY <1>1 DEF AppTyped, PortAppears
<1>3. notes' = Append(notes, x) /\ notes \in Seq(NoteType)
  BY <1>0, <1>1 DEF AppTyped, PortAppears
<1>4. PICK t \in Seq(NoteType) : Len(t) = 1 /\ t[1] = x /\ notes' = notes \o t
  <2>1. /\ Append(notes, x) = notes \o <<x>> /\ <<x>> \in Seq(NoteType)
        /\ Len(<<x>>) = 1 /\ <<x>>[1] = x
    BY <1>3, Appended
  <2>. QED  BY <1>3, <2>1
<1>5. \A k \in 1 .. Len(t) : k = 1 /\ t[k] = x
  BY <1>4
<1>6. ASSUME NEW p \in Port PROVE PortOK(p)'
  <2>1. PortOK(p)
    BY DEF PortInv
  <2>2. x \notin Freed(p) /\ (x \in Made(p) => p = q) /\ x \in Made(q)
    BY <1>1, KindFacts, KindMembers
  <2>3. /\ p \in jack.ports => In(Len(notes), p)
        /\ p \notin jack.ports => Out(Len(notes), p)
    BY <2>1 DEF PortOK
  <2>4. \A n : n = Len(notes) + 0 => (p \notin jack.ports => Out(n, p)')
    <3>1. Len(notes) \in 0 .. Len(notes) /\ Len(notes) + 0 = Len(notes)
      BY <1>3, LenProperties
    <3>. QED  BY <1>1, <1>4, <2>3, <3>1, InAfter
  <2>5. \A k \in 1 .. Len(t) : \A n : n = Len(notes) + (k - 1) => Fits(n, t[k], p)'
    <3>2. \A n : n = Len(notes) + 0 => Fits(n, x, p)'
      BY <1>1, <1>2, <2>2, <2>4 DEF Fits, Orphans
    <3>. TAKE k \in 1 .. Len(t)
    <3>. TAKE n
    <3>3. k = 1 /\ t[k] = x
      BY <1>5
    <3>4. n = Len(notes) + (k - 1) => n = Len(notes) + 0
      BY <3>3
    <3>. QED  BY <3>2, <3>3, <3>4
  <2>6. \A n : n = Len(notes) + Len(t) => (p \in jack'.ports => In(n, p)') /\ (p \notin jack'.ports => Out(n, p)')
    <3>1. \A k \in 1 .. Len(t) : t[k] \notin Freed(p) /\ (p # q => t[k] \notin Made(p))
      BY <1>5, <2>2
    <3>2. 1 \in 1 .. Len(t) /\ Len(t) \in 1 .. Len(t) /\ Len(t) \in 0 .. Len(t) /\ (p = q => t[1] \in Made(p))
      BY <1>4, <2>2
    <3>3. p = q => \A n : n = Len(notes) + Len(t) => In(n, p)'
      BY <1>1, <1>4, <3>1, <3>2, InAfter
    <3>4. p # q /\ p \in jack.ports => \A n : n = Len(notes) + Len(t) => In(n, p)'
      BY <1>1, <1>4, <2>3, <3>1, <3>2, InAfter
    <3>5. p # q /\ p \notin jack.ports => \A n : n = Len(notes) + Len(t) => Out(n, p)'
      BY <1>1, <1>4, <2>3, <3>1, <3>2, InAfter
    <3>. QED  BY <1>2, <3>3, <3>4, <3>5
  <2>. QED  BY <1>1, <1>4, <2>1, <2>5, <2>6, PortAppended
<1>7. ASSUME ConnectionInv, NEW d \in Patch PROVE ConnectionOK(d)'
  <2>1. ConnectionOK(d) /\ (Shows(d)' <=> Shows(d))
    BY <1>1, <1>7 DEF ConnectionInv, Shows, Showing, Linked
  <2>2. x \notin Cut(d) /\ x \notin Patched(d)
    BY <1>1, KindFacts
  <2>3. \A k \in 1 .. Len(t) : t[k] \notin Cut(d) /\ t[k] \notin Patched(d)
    BY <1>5, <2>2
  <2>. QED  BY <1>1, <1>2, <1>4, <2>1, <2>3, ConnectionAppended
<1>. QED  BY <1>6, <1>7 DEF PortInv, ConnectionInv

LEMMA VanishTold ==
  ASSUME PatchInv, PortInv, NEW P \in SUBSET Port, NEW left \in SUBSET Client, IsFiniteSet(left), Vanish(P, left),
         \A p \in jack.ports : Owner[p] \in left => p \in P
  PROVE  PortInv' /\ (ConnectionInv => ConnectionInv')
<1>1. AppTyped /\ UNCHANGED <<ports, cb, ui, request, patches>>
  BY DEF PatchInv, Vanish, graph, app
<1>2. /\ jack'.ports = jack.ports \ P /\ jack'.connections = jack.connections \ Connections(P)
      /\ notes \in Seq(NoteType) /\ Len(notes) \in Nat
  BY <1>1, LenProperties DEF AppTyped, Vanish
<1>3. PICK t \in Seq(NoteType) :
        /\ notes' = notes \o t
        /\ \A i \in 1 .. Len(t) :
             \/ \E c \in Connections(P) : t[i] = Note("disconnect", c, FALSE)
             \/ \E p \in P : t[i] = Note("unregistered", p, FALSE)
             \/ \E c \in left : t[i] = Note("client_left", c, FALSE)
        /\ \A c \in Connections(P) : \E i \in 1 .. Len(t) : t[i] = Note("disconnect", c, FALSE)
        /\ \A p \in P : \E i \in 1 .. Len(t) :
             /\ t[i] = Note("unregistered", p, FALSE)
             /\ \A k \in 1 .. Len(t) : t[k].kind = "client_left" => i < k
  BY <1>1, VanishNotes
<1>4. Len(t) \in Nat /\ \A i \in 1 .. Len(t) : t[i] \in NoteType
  BY LenProperties, ElementOfSeq
<1>5. \A i \in 1 .. Len(t) :
        \/ t[i].kind = "disconnect" /\ t[i].of \in Connections(P)
        \/ t[i].kind = "unregistered" /\ t[i].of \in P
        \/ t[i].kind = "client_left" /\ t[i].of \in left
  <2>. TAKE i \in 1 .. Len(t)
  <2>1. ASSUME NEW c \in Connections(P), t[i] = Note("disconnect", c, FALSE)
        PROVE  t[i].kind = "disconnect" /\ t[i].of \in Connections(P)
    BY <2>1 DEF Note
  <2>2. ASSUME NEW p \in P, t[i] = Note("unregistered", p, FALSE)
        PROVE  t[i].kind = "unregistered" /\ t[i].of \in P
    BY <2>2 DEF Note
  <2>3. ASSUME NEW c \in left, t[i] = Note("client_left", c, FALSE)
        PROVE  t[i].kind = "client_left" /\ t[i].of \in left
    BY <2>3 DEF Note
  <2>. QED  BY <1>3, <2>1, <2>2, <2>3
<1>6. ASSUME NEW p \in Port PROVE PortOK(p)'
  <2>1. PortOK(p)
    BY DEF PortInv
  <2>2. \A k \in 1 .. Len(t) : t[k] \notin Made(p) /\ (p \notin P => t[k] \notin Freed(p))
    BY <1>5, KindFacts
  <2>3. /\ p \in jack.ports => In(Len(notes), p)
        /\ p \notin jack.ports => Out(Len(notes), p)
    BY <2>1 DEF PortOK
  <2>4. p \notin jack.ports => \A m \in 0 .. Len(t) : \A n : n = Len(notes) + m => Out(n, p)'
    BY <1>1, <1>3, <2>2, <2>3, InAfter
  <2>5. ASSUME p \in P
        PROVE  \E i \in 1 .. Len(t) : /\ \A m \in i .. Len(t) : \A n : n = Len(notes) + m => Out(n, p)'
                                      /\ \A k \in 1 .. Len(t) : t[k].kind = "client_left" => i < k
    <3>1. PICK i \in 1 .. Len(t) : /\ t[i] = Note("unregistered", p, FALSE)
                                   /\ \A k \in 1 .. Len(t) : t[k].kind = "client_left" => i < k
      BY <1>3, <2>5
    <3>2. t[i] \in Freed(p)
      <4>1. t[i] \in NoteType /\ t[i].kind = "unregistered" /\ t[i].of = p
        BY <1>4, <3>1 DEF Note
      <4>. QED  BY <4>1, KindMembers
    <3>3. \A m \in i .. Len(t) : \A n : n = Len(notes) + m => Out(n, p)'
      BY <1>1, <1>3, <2>2, <3>2, InAfter
    <3>. QED  BY <3>1, <3>3
  <2>6. ASSUME NEW k \in 1 .. Len(t), NEW n, n = Len(notes) + (k - 1) PROVE Fits(n, t[k], p)'
    <3>1. t[k] \notin Made(p) /\ t[k].kind # "connect"
      BY <1>5, <2>2
    <3>2. ASSUME Orphans(t[k], p) PROVE Out(n, p)'
      <4>1. t[k].kind = "client_left" /\ Owner[p] \in left
        BY <1>5, <3>2 DEF Orphans
      <4>2. p \in P \/ p \notin jack.ports
        BY <4>1
      <4>3. k - 1 \in 0 .. Len(t)
        BY <1>4
      <4>4. CASE p \in P
        <5>1. PICK i \in 1 .. Len(t) : /\ \A m \in i .. Len(t) : \A nn : nn = Len(notes) + m => Out(nn, p)'
                                       /\ \A kk \in 1 .. Len(t) : t[kk].kind = "client_left" => i < kk
          BY <2>5, <4>4
        <5>2. k - 1 \in i .. Len(t)
          BY <1>4, <4>1, <5>1
        <5>. QED  BY <2>6, <5>1, <5>2
      <4>. QED  BY <2>4, <2>6, <4>2, <4>3, <4>4
    <3>. QED  BY <3>1, <3>2 DEF Fits, Orphans
  <2>7. \A n : n = Len(notes) + Len(t) => (p \in jack'.ports => In(n, p)') /\ (p \notin jack'.ports => Out(n, p)')
    <3>1. Len(t) \in 0 .. Len(t) /\ \A i \in 1 .. Len(t) : Len(t) \in i .. Len(t)
      BY <1>4
    <3>2. p \in P => \A n : n = Len(notes) + Len(t) => Out(n, p)'
      BY <2>5, <3>1
    <3>3. p \notin jack.ports => \A n : n = Len(notes) + Len(t) => Out(n, p)'
      BY <2>4, <3>1
    <3>4. p \in jack.ports /\ p \notin P => \A n : n = Len(notes) + Len(t) => In(n, p)'
      BY <1>1, <1>3, <2>2, <2>3, <3>1, InAfter
    <3>. QED  BY <1>2, <3>2, <3>3, <3>4
  <2>. QED  BY <1>1, <1>3, <2>1, <2>6, <2>7, PortAppended
<1>7. ASSUME ConnectionInv, NEW d \in Patch PROVE ConnectionOK(d)'
  <2>1. ConnectionOK(d) /\ (Shows(d)' <=> Shows(d))
    BY <1>1, <1>7 DEF ConnectionInv, Shows, Showing, Linked
  <2>2. \A k \in 1 .. Len(t) : t[k] \notin Patched(d)
    BY <1>5, KindFacts
  <2>3. CASE d \in Connections(P)
    <3>1. PICK i \in 1 .. Len(t) : t[i] = Note("disconnect", d, FALSE)
      BY <1>3, <2>3
    <3>2. t[i] \in Cut(d)
      <4>1. t[i] \in NoteType /\ t[i].kind = "disconnect" /\ t[i].of = d
        BY <1>4, <3>1 DEF Note
      <4>. QED  BY <4>1, KindMembers
    <3>3. d \notin jack'.connections
      BY <1>2, <2>3
    <3>. QED  BY <1>1, <1>3, <2>1, <2>2, <3>2, <3>3, ConnectionAppended
  <2>4. CASE d \notin Connections(P)
    <3>1. d \in jack'.connections <=> d \in jack.connections
      BY <1>2, <2>4
    <3>2. d \in jack.connections => \A k \in 1 .. Len(t) : t[k] \notin Cut(d)
      <4>1. d \in jack.connections => {d[1], d[2]} \cap P = {}
        BY <2>4 DEF Connections
      <4>. QED  BY <1>5, <2>4, <4>1, KindFacts
    <3>. QED  BY <1>1, <1>3, <2>1, <2>2, <3>1, <3>2, ConnectionAppended
  <2>. QED  BY <2>3, <2>4
<1>. QED  BY <1>6, <1>7 DEF PortInv, ConnectionInv

-------------------------------------------------------------------------------
(***************************************************************************)
(* The threads                                                             *)
(***************************************************************************)

\* Nothing is told of, and nothing of what is told is changed.
LEMMA ToldKept ==
  ASSUME PatchInv, ToldInv, UNCHANGED <<ports, patches, jack, notes, cb, missed>>,
         Gone => Gone', \A c \in Patch : Shows(c)' <=> Shows(c)
  PROVE  ToldInv'
<1>. SUFFICES ASSUME ~Gone' PROVE PortInv' /\ (~missed' => ConnectionInv')
  BY DEF ToldInv
<1>1. PortInv /\ (~missed => ConnectionInv)
  BY DEF ToldInv
<1>2. PortInv'
  BY <1>1 DEF PortInv, PortOK, In, Out, Fits, Orphans, Done, Says
<1>3. ASSUME ~missed PROVE ConnectionInv'
  BY <1>1, <1>3 DEF ConnectionInv, ConnectionOK, Done, Says
<1>. QED  BY <1>2, <1>3

LEMMA ServerTold ==
  ASSUME PatchInv, ToldInv,
         \/ \E c \in Patch : OtherConnects(c) \/ OtherDisconnects(c)
         \/ \E p \in Port : PortAppears(p) \/ PortVanishes(p)
         \/ \E c \in Client : ClientCloses(c)
  PROVE  ToldInv'
<1>1. UNCHANGED <<graph, gesture, app>>
  BY DEF OtherConnects, OtherDisconnects, PortAppears, PortVanishes, ClientCloses, Vanish
<1>2. UNCHANGED <<ports, patches, ui, request, cb, missed>>
  BY <1>1 DEF graph, app
<1>. SUFFICES ASSUME ~Gone' PROVE PortInv' /\ (~missed' => ConnectionInv')
  BY DEF ToldInv
<1>3. PortInv /\ (~missed => ConnectionInv)
  BY <1>2 DEF ToldInv, Gone
<1>4. \A d \in Patch : Shows(d)' <=> Shows(d)
  BY <1>2 DEF Shows, Showing, Linked
<1>5. ASSUME NEW c \in Patch, OtherConnects(c) PROVE PortInv' /\ (ConnectionInv => ConnectionInv')
  <2>1. /\ {c[1], c[2]} \subseteq jack.ports /\ jack' = [jack EXCEPT !.connections = @ \cup {c}]
        /\ notes' = Append(notes, Note("connect", c, FALSE))
    BY <1>5 DEF OtherConnects
  <2>. QED  BY <1>2, <1>3, <1>4, <2>1, ConnectTold
<1>6. ASSUME NEW c \in Patch, OtherDisconnects(c) PROVE PortInv' /\ (ConnectionInv => ConnectionInv')
  <2>1. /\ jack' = [jack EXCEPT !.connections = @ \ {c}]
        /\ notes' = Append(notes, Note("disconnect", c, FALSE))
    BY <1>6 DEF OtherDisconnects
  <2>. QED  BY <1>2, <1>3, <1>4, <2>1, DisconnectTold
<1>7. ASSUME NEW p \in Port, PortAppears(p) PROVE PortInv' /\ (ConnectionInv => ConnectionInv')
  BY <1>3, <1>7, AppearTold
<1>8. ASSUME NEW p \in Port, PortVanishes(p) PROVE PortInv' /\ (ConnectionInv => ConnectionInv')
  <2>1. Vanish({p}, {}) /\ IsFiniteSet({})
    BY <1>8, FS_EmptySet DEF PortVanishes
  <2>. QED  BY <1>3, <2>1, VanishTold
<1>9. ASSUME NEW c \in Client, ClientCloses(c) PROVE PortInv' /\ (ConnectionInv => ConnectionInv')
  <2>. DEFINE P == {p \in jack.ports : Owner[p] = c}
  <2>1. P \in SUBSET Port /\ {c} \in SUBSET Client /\ \A p \in jack.ports : Owner[p] \in {c} => p \in P
    BY DEF PatchInv, AppTyped
  <2>2. Vanish(P, {c}) /\ IsFiniteSet({c})
    BY <1>9, FS_Singleton DEF ClientCloses
  <2>. HIDE DEF P
  <2>. QED  BY <1>3, <2>1, <2>2, VanishTold
<1>. QED  BY <1>2, <1>3, <1>5, <1>6, <1>7, <1>8, <1>9

\* The window's thread asks the server: what it has done is taken for shown.
LEMMA CallTold ==
  ASSUME PatchInv, ToldInv, UiCall
  PROVE  ToldInv'
<1>1. ui = "locked" /\ ui' = "called" /\ UNCHANGED <<ports, patches, cb, missed>>
  BY DEF UiCall, graph
<1>2. request \in [op : {"connect", "disconnect"}, pair : Patch] /\ request # NoRequest
  BY <1>1 DEF PatchInv, RequestInv, AppTyped, Request
<1>. DEFINE c == request.pair
            done == {c[1], c[2]} \subseteq jack.ports /\ (c \in jack.connections <=> ~(request.op = "connect"))
<1>3. c \in Patch /\ request.op \in {"connect", "disconnect"}
  BY <1>2
<1>4. CASE ~done
  <2>1. request' = NoRequest /\ UNCHANGED <<jack, notes>>
    BY <1>4 DEF UiCall, server
  <2>2. \A d \in Patch : Shows(d)' <=> Shows(d)
    BY <1>1, <2>1 DEF Shows, Showing, Linked
  <2>. QED  BY <1>1, <2>1, <2>2, ToldKept DEF Gone
<1>5. CASE done
  <2>1. /\ jack' = [jack EXCEPT !.connections = IF request.op = "connect" THEN @ \cup {c} ELSE @ \ {c}]
        /\ notes' = Append(notes, Note(request.op, c, TRUE)) /\ request' = request
    BY <1>5 DEF UiCall
  <2>2. \A d \in Patch : d # c => (Shows(d)' <=> Shows(d))
    BY <1>1, <2>1 DEF Shows, Showing, Linked
  <2>3. PortInv /\ (~missed => ConnectionInv)
    BY <1>1 DEF ToldInv, Gone
  <2>4. PortInv' /\ (ConnectionInv => ConnectionInv')
    <3>1. CASE request.op = "connect"
      <4>1. /\ jack' = [jack EXCEPT !.connections = @ \cup {c}] /\ {c[1], c[2]} \subseteq jack.ports
            /\ notes' = Append(notes, Note("connect", c, TRUE))
        BY <1>5, <2>1, <3>1
      <4>. QED  BY <1>1, <1>3, <2>2, <2>3, <4>1, ConnectTold
    <3>2. CASE request.op = "disconnect"
      <4>1. /\ jack' = [jack EXCEPT !.connections = @ \ {c}]
            /\ notes' = Append(notes, Note("disconnect", c, TRUE))
        BY <2>1, <3>2
      <4>. QED  BY <1>1, <1>3, <2>2, <2>3, <4>1, DisconnectTold
    <3>. QED  BY <1>3, <3>1, <3>2
  <2>. QED  BY <1>1, <2>3, <2>4 DEF ToldInv
<1>. QED  BY <1>4, <1>5

LEMMA UiTold ==
  ASSUME PatchInv, ToldInv, CallbackInv',
         UiLock \/ UiUnlock \/ UiPointer \/ UiDrop \/ UiMutex \/ UiShow \/ UiExit \/ UiClose
  PROVE  ToldInv'
<1>1. CASE UiLock \/ UiUnlock \/ UiDrop \/ UiMutex
  <2>1. UNCHANGED <<ports, patches, jack, notes, cb, missed>> /\ ui # "called" /\ ui' # "called" /\ ~Gone
    BY <1>1 DEF UiLock, UiUnlock, UiDrop, UiMutex, graph, server, Gone
  <2>2. \A c \in Patch : Shows(c)' <=> Shows(c)
    BY <2>1 DEF Shows, Showing, Linked
  <2>. QED  BY <2>1, <2>2, ToldKept
<1>2. CASE UiPointer
  <2>1. UNCHANGED <<ports, patches, jack, notes, cb, missed, ui, request>>
    <3>1. UNCHANGED graph
      BY <1>2 DEF UiPointer, Press, MovePointer, EnterWindow, LeaveWindow, Release
    <3>. QED  BY <1>2, <3>1 DEF UiPointer, graph, server, app
  <2>2. \A c \in Patch : Shows(c)' <=> Shows(c)
    BY <2>1 DEF Shows, Showing, Linked
  <2>. QED  BY <2>1, <2>2, ToldKept DEF Gone
<1>3. CASE UiShow
  <2>1. /\ PatchInv' /\ UNCHANGED <<ports, clients, jack, notes, cb, missed>>
        /\ Linked' = IF request = NoRequest THEN Linked
                     ELSE IF request.op = "connect" THEN Linked \cup {request.pair} ELSE Linked \ {request.pair}
    BY <1>3, ShowPatch
  <2>2. ui = "called" /\ ui' = "event"
    BY <1>3 DEF UiShow
  <2>3. \A c \in Patch : Shows(c)' <=> Shows(c)
    BY <2>1, <2>2 DEF Shows, Showing
  <2>4. PortInv /\ (~missed => ConnectionInv)
    BY <2>2 DEF ToldInv, Gone
  <2>5. PortInv'
    BY <2>1, <2>4 DEF PortInv, PortOK, In, Out, Fits, Orphans, Done, Says
  <2>6. ASSUME ~missed PROVE ConnectionInv'
    BY <2>1, <2>3, <2>4, <2>6 DEF ConnectionInv, ConnectionOK, Done, Says
  <2>. QED  BY <2>1, <2>5, <2>6 DEF ToldInv
<1>4. CASE UiExit \/ UiClose
  BY <1>4 DEF UiExit, UiClose, ToldInv, Gone
<1>. QED  BY <1>1, <1>2, <1>3, <1>4

LEMMA CalledTold ==
  ASSUME PatchInv, ToldInv, Called
  PROVE  ToldInv'
<1>. DEFINE n == Head(notes)
            ignored == \/ IsConnection(n) /\ (GuiHasMutex \/ ~Known(n))
                       \/ n.kind = "client_left" /\ n.of \notin clients
<1>1. /\ cb = NoCall /\ notes # <<>> /\ notes' = Tail(notes) /\ UNCHANGED <<ports, patches, jack, clients, ui, request>>
      /\ cb' = IF ignored THEN NoCall ELSE [at |-> "waiting", note |-> n]
  BY DEF Called, graph
<1>2. missed' = (missed \/ (IsConnection(n) /\ GuiHasMutex /\ ~OwnNote(n)))
  BY DEF Called
<1>. SUFFICES ASSUME ~Gone' PROVE PortInv' /\ (~missed' => ConnectionInv')
  BY DEF ToldInv
<1>3. PortInv /\ (~missed => ConnectionInv)
  BY <1>1 DEF ToldInv, Gone
<1>. DEFINE l == Len(notes)
<1>4. /\ notes \in Seq(NoteType) /\ n \in NoteType /\ l \in Nat /\ l >= 1 /\ n = notes[1]
      /\ Len(notes') = l - 1 /\ \A k \in 1 .. l - 1 : notes'[k] = notes[k + 1]
  BY <1>1, HeadTailProperties, EmptySeq, LenProperties DEF PatchInv, AppTyped
<1>5. cb.at = "idle" /\ (ignored => cb'.at = "idle") /\ (~ignored => cb'.at = "waiting" /\ cb'.note = n)
  BY <1>1, NoCallFacts
<1>6. ignored => n.kind \in {"connect", "disconnect", "client_left"}
  BY DEF IsConnection
<1>7. \A Y, N, base : Says(notes, l, Y, N, base) => Says(notes', l - 1, Y, N, n \in Y \/ (base /\ n \notin N))
  BY <1>1, <1>4, SaysTaken
<1>8. \A Y, N, base : \A j \in 1 .. l :
        Says(notes, j, Y, N, base) => Says(notes', j - 1, Y, N, n \in Y \/ (base /\ n \notin N))
  BY <1>1, <1>4, SaysTaken
<1>. HIDE DEF n, l, ignored
<1>9. ASSUME NEW p \in Port PROVE PortOK(p)'
  <2>1. PortOK(p)
    BY <1>3 DEF PortInv
  <2>2. ignored => n \notin Made(p) /\ n \notin Freed(p)
    BY <1>6, KindFacts
  <2>3. /\ Done(Made(p), Freed(p), p \in ports)' <=> n \in Made(p) \/ (p \in ports /\ n \notin Freed(p))
        /\ Done(Freed(p), Made(p), p \notin ports)' <=> n \in Freed(p) \/ (p \notin ports /\ n \notin Made(p))
    BY <1>1, <1>5, <2>2 DEF Done
  <2>4. ASSUME NEW j \in 1 .. l PROVE (In(j, p) => In(j - 1, p)') /\ (Out(j, p) => Out(j - 1, p)')
    <3>1. In(j, p) => Says(notes', j - 1, Made(p), Freed(p), n \in Made(p) \/ (p \in ports /\ n \notin Freed(p)))
      BY <1>5, <1>8 DEF In, Done
    <3>2. Out(j, p) => Says(notes', j - 1, Freed(p), Made(p), n \in Freed(p) \/ (p \notin ports /\ n \notin Made(p)))
      BY <1>5, <1>8 DEF Out, Done
    <3>. QED  BY <2>3, <3>1, <3>2 DEF In, Out, Says
  <2>5. ASSUME NEW j \in 1 .. Len(notes') PROVE Fits(j - 1, notes[j], p)'
    <3>1. j + 1 \in 1 .. l /\ (j + 1) - 1 = j /\ notes'[j] = notes[j + 1] /\ j \in 1 .. l
      BY <1>4
    <3>2. Fits(j, notes[j + 1], p)
      BY <2>1, <3>1 DEF PortOK, l
    <3>3. (In(j, p) => In(j - 1, p)') /\ (Out(j, p) => Out(j - 1, p)')
      BY <2>4, <3>1
    <3>. QED  BY <3>1, <3>2, <3>3 DEF Fits, Orphans
  <2>6. ASSUME n \in Made(p) \/ Orphans(n, p) PROVE p \notin ports
    <3>1. Fits(0, n, p)
      BY <1>4, <2>1 DEF PortOK, l
    <3>2. Out(0, p)
      BY <2>6, <3>1 DEF Fits
    <3>. QED  BY <1>5, <3>2 DEF Out, Says, Done
  <2>7. cb'.at # "idle" /\ (cb'.note \in Made(p) \/ Orphans(cb'.note, p)) => p \notin ports'
    BY <1>1, <1>5, <2>6 DEF Orphans
  <2>8. (p \in jack'.ports => In(Len(notes), p)') /\ (p \notin jack'.ports => Out(Len(notes), p)')
    <3>1. (p \in jack.ports => In(l, p)) /\ (p \notin jack.ports => Out(l, p))
      BY <2>1 DEF PortOK, l
    <3>2. p \in jack.ports =>
            Says(notes', l - 1, Made(p), Freed(p), n \in Made(p) \/ (p \in ports /\ n \notin Freed(p)))
      BY <1>5, <1>7, <3>1 DEF In, Done
    <3>3. p \notin jack.ports =>
            Says(notes', l - 1, Freed(p), Made(p), n \in Freed(p) \/ (p \notin ports /\ n \notin Made(p)))
      BY <1>5, <1>7, <3>1 DEF Out, Done
    <3>. QED  BY <1>1, <1>4, <2>3, <3>2, <3>3 DEF In, Out, Says
  <2>. QED  BY <2>5, <2>7, <2>8 DEF PortOK, Orphans
<1>10. ASSUME ~missed', NEW c \in Patch PROVE ConnectionOK(c)'
  <2>1. ConnectionOK(c) /\ (Shows(c)' <=> Shows(c))
    BY <1>1, <1>2, <1>3, <1>10 DEF ConnectionInv, Shows, Showing, Linked
  <2>2. ignored => (n \in Patched(c) => Shows(c)) /\ (n \in Cut(c) => ~Shows(c))
    <3>. SUFFICES ASSUME ignored PROVE (n \in Patched(c) => Shows(c)) /\ (n \in Cut(c) => ~Shows(c))
      OBVIOUS
    <3>1. CASE n.kind = "client_left"
      BY <3>1, KindFacts
    <3>2. CASE IsConnection(n) /\ GuiHasMutex
      <4>1. ui = "called" /\ request = [op |-> n.kind, pair |-> n.of]
        BY <1>2, <1>10, <3>2 DEF OwnNote, n
      <4>2. request # NoRequest /\ request.pair = n.of /\ request.op = n.kind
        BY <3>2, <4>1 DEF IsConnection, NoRequest
      <4>. QED  BY <3>2, <4>1, <4>2, KindFacts DEF Shows, Showing, IsConnection
    <3>3. CASE IsConnection(n) /\ ~GuiHasMutex /\ ~Known(n)
      <4>1. ui # "called" /\ (Shows(c) <=> c \in Linked)
        BY <3>3 DEF GuiHasMutex, Shows, Showing
      <4>2. n.of \in Patch
        BY <1>4, <3>3 DEF NoteType, IsConnection
      <4>3. ~({n.of[1], n.of[2]} \subseteq ports)
        BY <3>3 DEF Known, PatchInv, LinkInv
      <4>4. n.kind # "connect"
        <5>1. ASSUME n.kind = "connect" PROVE \A p \in {n.of[1], n.of[2]} : p \in ports
          <6>. TAKE p \in {n.of[1], n.of[2]}
          <6>1. p \in Port
            BY <4>2, PatchFacts
          <6>2. Fits(0, n, p)
            BY <1>3, <1>4, <6>1 DEF PortInv, PortOK, l
          <6>3. In(0, p)
            BY <5>1, <6>2 DEF Fits
          <6>. QED  BY <1>5, <6>3 DEF In, Says, Done
        <5>. QED  BY <4>3, <5>1
      <4>5. n.of \notin Linked
        BY <4>3 DEF PatchInv, LinkInv
      <4>. QED  BY <3>3, <4>1, <4>4, <4>5, KindFacts DEF IsConnection
    <3>. QED  BY <3>1, <3>2, <3>3 DEF ignored
  <2>3. /\ n \in Patched(c) \/ (Shows(c) /\ n \notin Cut(c)) => Done(Patched(c), Cut(c), Shows(c))'
        /\ n \in Cut(c) \/ (~Shows(c) /\ n \notin Patched(c)) => Done(Cut(c), Patched(c), ~Shows(c))'
    BY <1>5, <2>1, <2>2 DEF Done
  <2>4. c \in jack.connections =>
            Says(notes', l - 1, Patched(c), Cut(c), n \in Patched(c) \/ (Shows(c) /\ n \notin Cut(c)))
    BY <1>5, <1>7, <2>1 DEF ConnectionOK, Done, l
  <2>5. c \notin jack.connections =>
            Says(notes', l - 1, Cut(c), Patched(c), n \in Cut(c) \/ (~Shows(c) /\ n \notin Patched(c)))
    BY <1>5, <1>7, <2>1 DEF ConnectionOK, Done, l
  <2>. QED  BY <1>1, <1>4, <2>3, <2>4, <2>5 DEF ConnectionOK, Says
<1>. QED  BY <1>9, <1>10 DEF PortInv, ConnectionInv

LEMMA LockTold ==
  ASSUME PatchInv, ToldInv, CallbackLock
  PROVE  ToldInv'
<1>1. /\ cb.at = "waiting" /\ cb' = [cb EXCEPT !.at = "holding"]
      /\ UNCHANGED <<ports, patches, jack, notes, ui, request, missed>>
  BY DEF CallbackLock, graph, server
<1>2. cb'.at = "holding" /\ cb'.note = cb.note
  BY <1>1, NoCallFacts DEF PatchInv, AppTyped
<1>. SUFFICES ASSUME ~Gone' PROVE PortInv' /\ (~missed' => ConnectionInv')
  BY DEF ToldInv
<1>3. PortInv /\ (~missed => ConnectionInv)
  BY <1>1 DEF ToldInv, Gone
<1>5. PortInv'
  BY <1>1, <1>2, <1>3 DEF PortInv, PortOK, In, Out, Fits, Orphans, Done, Says
<1>6. \A c \in Patch : Shows(c)' <=> Shows(c)
  BY <1>1 DEF Shows, Showing, Linked
<1>7. ASSUME ~missed PROVE ConnectionInv'
  BY <1>1, <1>2, <1>3, <1>6, <1>7 DEF ConnectionInv, ConnectionOK, Done, Says
<1>. QED  BY <1>1, <1>5, <1>7

LEMMA BodyTold ==
  ASSUME PatchInv, ToldInv, CallbackInv', CallbackBody
  PROVE  PatchInv' /\ ToldInv'
<1>. DEFINE n == cb.note
<1>1. /\ n \in NoteType /\ ui = "polling" /\ ui' = "polling" /\ cb' = NoCall
      /\ request = NoRequest /\ request' = NoRequest /\ UNCHANGED <<jack, notes, missed>>
  BY HoldingFacts
<1>2. cb.at = "holding" /\ cb'.at = "idle"
  BY <1>1, NoCallFacts DEF CallbackBody
<1>3. PortInv /\ (~missed => ConnectionInv) /\ ports \subseteq Port
  BY <1>1 DEF ToldInv, Gone, PatchInv, GraphOK
<1>4. \A p \in Port : n \in Made(p) \/ Orphans(n, p) => p \notin ports
  BY <1>2, <1>3 DEF PortInv, PortOK
<1>5. n.kind = "registered" => n.of \notin ports
  BY <1>1, <1>3, <1>4, KindMembers
<1>6. /\ PatchInv'
      /\ \/ /\ n.kind = "connect" /\ Linked' = Linked \cup {n.of}
            /\ ports' = ports /\ clients' = clients
         \/ /\ n.kind = "disconnect" /\ Linked' = Linked \ {n.of}
            /\ ports' = ports /\ clients' = clients
         \/ /\ n.kind = "registered" /\ Linked' = Linked
            /\ ports' = ports \cup {n.of} /\ clients' = clients \cup {Owner[n.of]}
         \/ /\ n.kind = "unregistered" /\ ports' = ports \ {n.of}
            /\ Linked' = {c \in Linked : n.of \notin {c[1], c[2]}}
         \/ /\ n.kind = "client_left" /\ ports' = {p \in ports : Owner[p] # n.of}
            /\ Linked' = {c \in Linked : {c[1], c[2]} \subseteq ports'}
  BY <1>5, BodyPatch
<1>. HIDE DEF n
<1>7. n.kind = "client_left" => ports' = ports /\ Linked' = Linked
  <2>1. n.kind = "client_left" => \A p \in ports : Owner[p] # n.of
    BY <1>3, <1>4 DEF Orphans
  <2>2. \A c \in Linked : {c[1], c[2]} \subseteq ports
    BY DEF PatchInv, LinkInv
  <2>. QED  BY <1>6, <2>1, <2>2
<1>8. ASSUME NEW p \in Port PROVE PortOK(p)'
  <2>1. PortOK(p)
    BY <1>3 DEF PortInv
  <2>2. /\ Done(Made(p), Freed(p), p \in ports) => p \in ports'
        /\ Done(Freed(p), Made(p), p \notin ports) => p \notin ports'
    <3>1. /\ n \in Made(p) <=> n.kind = "registered" /\ n.of = p
          /\ n \in Freed(p) <=> n.kind = "unregistered" /\ n.of = p
      BY <1>1, KindFacts, KindMembers
    <3>. QED  BY <1>2, <1>6, <1>7, <3>1 DEF Done, n
  <2>3. /\ Done(Made(p), Freed(p), p \in ports) => Done(Made(p), Freed(p), p \in ports)'
        /\ Done(Freed(p), Made(p), p \notin ports) => Done(Freed(p), Made(p), p \notin ports)'
    BY <1>2, <2>2 DEF Done
  <2>4. \A k : (In(k, p) => In(k, p)') /\ (Out(k, p) => Out(k, p)')
    BY <1>1, <2>3 DEF In, Out, Says
  <2>. QED  BY <1>1, <1>2, <2>1, <2>4 DEF PortOK, Fits, Orphans
<1>9. ASSUME ~missed, NEW c \in Patch PROVE ConnectionOK(c)'
  <2>1. ConnectionOK(c) /\ (Shows(c) <=> c \in Linked) /\ (Shows(c)' <=> c \in Linked')
    BY <1>1, <1>3, <1>9 DEF ConnectionInv, Shows, Showing
  <2>2. /\ n \in Patched(c) <=> n.kind = "connect" /\ n.of = c
        /\ n \in Cut(c) <=> \/ n.kind = "disconnect" /\ n.of = c
                            \/ n.kind = "unregistered" /\ n.of \in {c[1], c[2]}
    BY <1>1, KindFacts, KindMembers
  <2>3. /\ n \in Patched(c) \/ (c \in Linked /\ n \notin Cut(c)) => c \in Linked'
        /\ n \in Cut(c) \/ (c \notin Linked /\ n \notin Patched(c)) => c \notin Linked'
    BY <1>6, <1>7, <2>2
  <2>4. /\ Done(Patched(c), Cut(c), Shows(c)) => Done(Patched(c), Cut(c), Shows(c))'
        /\ Done(Cut(c), Patched(c), ~Shows(c)) => Done(Cut(c), Patched(c), ~Shows(c))'
    BY <1>2, <2>1, <2>3 DEF Done, n
  <2>. QED  BY <1>1, <2>1, <2>4 DEF ConnectionOK, Says
<1>10. PortInv' /\ (~missed' => ConnectionInv')
  BY <1>1, <1>8, <1>9 DEF PortInv, ConnectionInv
<1>. QED  BY <1>6, <1>10 DEF ToldInv

LEMMA InitTold == Init => ToldInv
<1>. SUFFICES ASSUME Init PROVE ToldInv
  OBVIOUS
<1>1. /\ jack.ports = Port /\ ports = Port /\ notes = <<>> /\ cb.at = "idle" /\ ui = "polling" /\ Len(notes) = 0
      /\ jack.connections \subseteq Patch
  BY NoCallFacts DEF Init
<1>2. PortInv
  BY <1>1 DEF PortInv, PortOK, In, Says, Done
<1>3. ASSUME ~missed PROVE ConnectionInv
  <2>1. Listed(jack.connections) = jack.connections
    BY <1>3 DEF Init
  <2>2. patches = [c \in Patch |-> IF c \in jack.connections THEN 1 ELSE 0]
    BY <2>1 DEF Init
  <2>3. \A c \in Patch : Shows(c) <=> c \in jack.connections
    BY <1>1, <2>2 DEF Shows, Showing, Linked
  <2>. QED  BY <1>1, <2>3 DEF ConnectionInv, ConnectionOK, Says, Done
<1>. QED  BY <1>2, <1>3 DEF ToldInv

LEMMA NextPatch == PatchInv /\ ToldInv /\ [Next]_vars => PatchInv' /\ ToldInv'
<1>. SUFFICES ASSUME PatchInv, ToldInv, [Next]_vars PROVE PatchInv' /\ ToldInv'
  OBVIOUS
<1>1. CallbackInv'
  BY NextCallback DEF PatchInv
<1>2. CASE \/ \E c \in Patch : OtherConnects(c) \/ OtherDisconnects(c)
           \/ \E p \in Port : PortAppears(p) \/ PortVanishes(p)
           \/ \E c \in Client : ClientCloses(c)
  BY <1>1, <1>2, ChangePatch, ServerTold
<1>3. CASE UiLock \/ UiUnlock \/ UiDrop \/ UiMutex \/ UiCall \/ UiClose
  BY <1>1, <1>3, UiPatch, UiTold, CallTold
<1>4. CASE UiPointer
  BY <1>1, <1>4, PointerPatch, UiTold
<1>5. CASE UiShow
  BY <1>1, <1>5, ShowPatch, UiTold
<1>6. CASE UiExit
  BY <1>1, <1>6, ExitPatch, UiTold
<1>7. CASE Called \/ CallbackLock
  BY <1>1, <1>7, CalledPatch, CalledTold, LockTold
<1>8. CASE CallbackBody
  BY <1>1, <1>8, BodyTold
<1>9. CASE UNCHANGED vars
  <2>1. UNCHANGED <<graph, gesture, clients, app, ports, patches, jack, notes, steps, ui, request, cb, missed>>
    BY <1>9 DEF vars, graph, server, app
  <2>2. jack \in [ports : SUBSET Port, connections : SUBSET Patch] /\ notes \in Seq(NoteType) /\ steps \in 0 .. MaxSteps
    BY DEF PatchInv, AppTyped
  <2>3. PatchInv'
    BY <1>1, <2>1, <2>2, ServerPatch
  <2>4. \A c \in Patch : Shows(c)' <=> Shows(c)
    BY <2>1 DEF Shows, Showing, Linked
  <2>. QED  BY <2>1, <2>3, <2>4, ToldKept DEF Gone
<1>. QED  BY <1>2, <1>3, <1>4, <1>5, <1>6, <1>7, <1>8, <1>9 DEF Next

LEMMA PatchHolds == Spec => [](PatchInv /\ ToldInv)
BY InitPatch, InitTold, NextPatch, PTL DEF Spec

\* Whichever thread has the window lock, and whatever the server tells of and
\* the user drags: the list of the canvas and those of the two ports of a patch
\* agree, and no two ports have two patches (rtb_patchbay_connect_ports,
\* rtb_patchbay_free_patch, rtb_patchbay_port_fini).
THEOREM PatchbayIsSound == Spec => []PatchbaySound
<1>1. PatchInv => PatchbaySound
  <2>. SUFFICES ASSUME PatchInv PROVE TypeOK /\ ListsAgree
    BY DEF PatchbaySound
  <2>1. cb.at \in {"idle", "waiting", "holding"}
    BY NoCallFacts DEF PatchInv, AppTyped
  <2>2. PatchbayTypeOK
    BY DEF PatchInv, GraphOK, GestureOK, GestureTyped, PatchbayTypeOK, Button, Patching, Place
  <2>. QED  BY <2>1, <2>2 DEF PatchInv, AppTyped, GraphOK, TypeOK
<1>. QED  BY <1>1, PatchHolds, PTL

\* Of a drag between ports that come and go as other programs do, whatever the
\* order of presses, releases and crossings of the window's edge: what draw_patches
\* reads is there, and the patch in progress is between the port the button was
\* pressed on and the one under the pointer, but for the releases that come to no
\* port and the ports forgotten at the edge (start_patching, on_event of port.c).
THEOREM GestureIsSound == Spec => []GestureSound
<1>1. PatchInv => GestureSound
  <2>. SUFFICES ASSUME PatchInv PROVE DrawsWhatIsThere /\ PatchFollowsButton
    BY DEF GestureSound
  <2>1. DrawsWhatIsThere
    BY DEF PatchInv, LinkInv, GestureOK, GestureInv, DrawsWhatIsThere, Drawn
  <2>2. PatchFollowsButton
    BY DEF PatchInv, GestureOK, GestureInv, PatchFollowsButton
  <2>. QED  BY <2>1, <2>2
<1>. QED  BY <1>1, PatchHolds, PTL

\* When the server has nothing left to tell, the patchbay shows its ports and its
\* connections, whoever made them, unless a notification was ignored while the
\* window's thread was in a call about something else (port_connection).
THEOREM AllIsShownWhenTold == Spec => []ShownWhenTold
<1>1. PatchInv /\ ToldInv => ShownWhenTold
  <2>. SUFFICES ASSUME PatchInv, ToldInv, notes = <<>>, cb = NoCall, ui \in {"polling", "event"},
                       request = NoRequest, ~missed
                PROVE  Shown
    BY DEF ShownWhenTold
  <2>1. PortInv /\ ConnectionInv
    BY DEF ToldInv, Gone
  <2>2. cb.at = "idle" /\ Len(notes) = 0 /\ jack.ports \subseteq Port /\ jack.connections \subseteq Patch
        /\ ports \subseteq Port /\ Linked \subseteq Patch
    BY NoCallFacts DEF PatchInv, AppTyped, GraphOK, Linked
  <2>3. ASSUME NEW p \in Port PROVE p \in jack.ports <=> p \in ports
    <3>1. PortOK(p)
      BY <2>1 DEF PortInv
    <3>. QED  BY <2>2, <3>1 DEF PortOK, In, Out, Says, Done
  <2>4. ASSUME NEW c \in Patch PROVE c \in jack.connections <=> c \in Linked
    <3>1. ConnectionOK(c) /\ (Shows(c) <=> c \in Linked)
      BY <2>1 DEF ConnectionInv, Shows, Showing
    <3>. QED  BY <2>2, <3>1 DEF ConnectionOK, Says, Done
  <2>. QED  BY <2>2, <2>3, <2>4 DEF Shown
<1>. QED  BY <1>1, PatchHolds, PTL
===============================================================================
