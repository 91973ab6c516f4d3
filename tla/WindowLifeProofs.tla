---------------------------- MODULE WindowLifeProofs ----------------------------
(***************************************************************************)
(* Theorems about the capture of the pointer, about the mutex, the GL      *)
(* context and the layout of an open window, and about what is acquired on *)
(* the way up and released on the way down, for any buttons, sizes and     *)
(* number of events, and on every platform.                                *)
(***************************************************************************)
EXTENDS WindowLife, FiniteSetTheorems, SequenceTheorems, TLAPS

-------------------------------------------------------------------------------
\* The events of a button under way: one at most, and a press only of a button
\* that is up.
About(e, b) == e.k \in {"press", "release"} /\ e.b = b

InTurn(q) ==
  \A b \in AnyButton : \A j, k \in 1 .. Len(q) : About(q[j], b) /\ About(q[k], b) => j = k

UpBefore(q, down) ==
  \A b \in AnyButton : \A j \in 1 .. Len(q) : q[j].k = "press" /\ q[j].b = b => b \notin down

\* The buttons of win32's that are down.
Known == pressed \cap Buttons

\* capture_depth, which presses and releases of a capture that was lost go on
\* changing, is never more than the buttons that hold a capture there is.
DepthCovered ==
  /\ captured => plat # "cocoa" /\ pressed # {}
  /\ captured /\ plat = "win" => depth \in 1 .. Cardinality(Known)

CaptureInv ==
  /\ plat \in {"x11", "win", "cocoa"}
  /\ queue \in Seq(Events) /\ InTurn(queue) /\ UpBefore(queue, pressed)
  /\ IsFiniteSet(pressed) /\ captured \in BOOLEAN /\ depth \in Nat
  /\ DepthCovered

capturing == << plat, queue, input >>

LEMMA InitCapture == Init => CaptureInv
<1>1. IsFiniteSet({})
  BY FS_EmptySet
<1>2. << >> \in Seq(Events) /\ InTurn(<< >>) /\ UpBefore(<< >>, {})
  BY DEF InTurn, UpBefore
<1>3. Init => captured = FALSE /\ depth = 0
  BY DEF Init
<1>4. Init => plat \in {"x11", "win", "cocoa"} /\ queue = << >> /\ pressed = {}
  BY DEF Init, Platforms
<1>5. captured = FALSE => captured \in BOOLEAN /\ DepthCovered
  BY DEF DepthCovered
<1>6. depth = 0 => depth \in Nat
  OBVIOUS
<1>. QED  BY <1>1, <1>2, <1>3, <1>4, <1>5, <1>6, Zenon DEF CaptureInv

LEMMA Untouched == CaptureInv /\ UNCHANGED capturing => CaptureInv'
BY DEF CaptureInv, InTurn, UpBefore, DepthCovered, Known, capturing, input

LEMMA Implies == CaptureInv => CaptureEnds
BY DEF CaptureInv, DepthCovered, CaptureEnds

LEMMA KnownFinite ==
  ASSUME CaptureInv
  PROVE  IsFiniteSet(Known) /\ Cardinality(Known) \in Nat
<1>1. IsFiniteSet(Known)
  BY FS_Subset DEF CaptureInv, Known
<1>. QED  BY <1>1, FS_CardinalityType

-------------------------------------------------------------------------------
\* An event that is handled leaves the others as they are.
LEMMA TailInTurn ==
  ASSUME NEW q \in Seq(Events), q # << >>, InTurn(q)
  PROVE  /\ Tail(q) \in Seq(Events) /\ InTurn(Tail(q)) /\ Head(q) \in Events
         /\ \A down : UpBefore(q, down) => UpBefore(Tail(q), down)
<1>1. /\ Tail(q) \in Seq(Events) /\ Len(Tail(q)) = Len(q) - 1 /\ Len(q) \in Nat /\ Len(q) > 0
      /\ \A j \in 1 .. Len(Tail(q)) : Tail(q)[j] = q[j + 1] /\ j + 1 \in 1 .. Len(q)
      /\ Head(q) = q[1]
  BY EmptySeq, HeadTailProperties
<1>2. InTurn(Tail(q))
  BY <1>1 DEF InTurn
<1>3. \A down : UpBefore(q, down) => UpBefore(Tail(q), down)
  BY <1>1 DEF UpBefore
<1>. QED  BY <1>1, <1>2, <1>3, ElementOfSeq

\* The button of the event that is handled has no other under way.
LEMMA NoOther ==
  ASSUME NEW q \in Seq(Events), q # << >>, InTurn(q), NEW b \in AnyButton, About(Head(q), b),
         NEW j \in 1 .. Len(Tail(q))
  PROVE  ~About(Tail(q)[j], b)
<1>1. /\ Len(Tail(q)) = Len(q) - 1 /\ Len(q) \in Nat /\ Len(q) > 0
      /\ Tail(q)[j] = q[j + 1] /\ j + 1 \in 1 .. Len(q) /\ 1 \in 1 .. Len(q) /\ j + 1 # 1
      /\ Head(q) = q[1]
  BY EmptySeq, HeadTailProperties
<1>. QED  BY <1>1 DEF InTurn

LEMMA ButtonEvents ==
  ASSUME NEW e \in Events
  PROVE  e.k \in {"press", "release"} => e.b \in AnyButton
BY DEF Events

\* What comes to the end of the queue is about a button that has none there.
LEMMA ArriveInTurn ==
  ASSUME NEW q \in Seq(Events), InTurn(q), NEW e \in Events, NEW down, UpBefore(q, down),
         \A b \in AnyButton : About(e, b) => \A j \in 1 .. Len(q) : ~About(q[j], b),
         e.k = "press" => e.b \notin down
  PROVE  /\ Append(q, e) \in Seq(Events) /\ InTurn(Append(q, e)) /\ UpBefore(Append(q, e), down)
<1>1. /\ Append(q, e) \in Seq(Events) /\ Len(Append(q, e)) = Len(q) + 1 /\ Len(q) \in Nat
      /\ \A j \in 1 .. Len(q) : Append(q, e)[j] = q[j]
      /\ Append(q, e)[Len(q) + 1] = e
  BY AppendProperties
<1>2. ASSUME NEW b \in AnyButton, NEW j \in 1 .. Len(q) + 1, NEW k \in 1 .. Len(q) + 1,
             About(Append(q, e)[j], b), About(Append(q, e)[k], b)
      PROVE  j = k
  <2>1. CASE j = Len(q) + 1 /\ k \in 1 .. Len(q)
    BY <1>1, <1>2, <2>1
  <2>2. CASE k = Len(q) + 1 /\ j \in 1 .. Len(q)
    BY <1>1, <1>2, <2>2
  <2>3. CASE j \in 1 .. Len(q) /\ k \in 1 .. Len(q)
    BY <1>1, <1>2, <2>3 DEF InTurn
  <2>. QED  BY <1>1, <2>1, <2>2, <2>3
<1>3. ASSUME NEW b \in AnyButton, NEW j \in 1 .. Len(q) + 1,
             Append(q, e)[j].k = "press", Append(q, e)[j].b = b
      PROVE  b \notin down
  <2>1. CASE j = Len(q) + 1
    BY <1>1, <1>3, <2>1
  <2>2. CASE j \in 1 .. Len(q)
    BY <1>1, <1>3, <2>2 DEF UpBefore
  <2>. QED  BY <1>1, <2>1, <2>2
<1>. QED  BY <1>1, <1>2, <1>3 DEF InTurn, UpBefore

-------------------------------------------------------------------------------
\* The handlers that are not about a button.
LEMMA HandledCapture ==
  ASSUME CaptureInv, NEW k, Handling(k), UNCHANGED input
  PROVE  CaptureInv'
<1>1. /\ queue' \in Seq(Events) /\ InTurn(queue') /\ UpBefore(queue', pressed) /\ plat' = plat
  BY TailInTurn DEF CaptureInv, Handling
<1>. QED  BY <1>1 DEF CaptureInv, DepthCovered, Known, input

LEMMA CloseCapture == CaptureInv /\ CloseAsked => CaptureInv'
<1>. SUFFICES ASSUME CaptureInv, CloseAsked PROVE CaptureInv'
  OBVIOUS
<1>1. /\ queue' \in Seq(Events) /\ InTurn(queue') /\ UpBefore(queue', pressed) /\ plat' = plat
      /\ pressed' = pressed
  BY TailInTurn DEF CaptureInv, Handling, CloseAsked
<1>2. (captured' = FALSE /\ depth' = 0) \/ UNCHANGED << captured, depth >>
  BY DEF CloseAsked
<1>3. CASE captured' = FALSE /\ depth' = 0
  BY <1>1, <1>3 DEF CaptureInv, DepthCovered, Known
<1>4. CASE UNCHANGED << captured, depth >>
  BY <1>1, <1>4 DEF CaptureInv, DepthCovered, Known
<1>. QED  BY <1>2, <1>3, <1>4

LEMMA PressCapture == CaptureInv /\ Press => CaptureInv'
<1>. SUFFICES ASSUME CaptureInv, Press PROVE CaptureInv'
  OBVIOUS
<1>. DEFINE b == Head(queue).b
<1>1. /\ queue # << >> /\ Head(queue).k = "press" /\ queue' = Tail(queue) /\ plat' = plat
      /\ pressed' = pressed \cup {b}
  BY DEF Press, Handling
<1>2. /\ queue' \in Seq(Events) /\ InTurn(queue') /\ UpBefore(queue', pressed) /\ b \in AnyButton
  BY <1>1, TailInTurn, ButtonEvents DEF CaptureInv
<1>3. b \notin pressed
  <2>1. Head(queue) = queue[1] /\ 1 \in 1 .. Len(queue)
    BY <1>1, EmptySeq, HeadTailProperties DEF CaptureInv
  <2>. QED  BY <1>1, <1>2, <2>1 DEF CaptureInv, UpBefore
<1>4. UpBefore(queue', pressed')
  BY <1>1, <1>2, NoOther DEF CaptureInv, UpBefore, About
<1>5. IsFiniteSet(pressed')
  BY <1>1, FS_AddElement DEF CaptureInv
<1>6. captured' \in BOOLEAN /\ depth' \in Nat /\ DepthCovered'
  <2>1. CASE plat # "win"
    BY <1>1, <2>1 DEF Press, CaptureInv, DepthCovered
  <2>2. CASE plat = "win" /\ b \notin Buttons
    <3>1. UNCHANGED << captured, depth >> /\ Known' = Known
      BY <1>1, <2>2 DEF Press, Known
    <3>. QED  BY <3>1, <1>1, <2>2 DEF CaptureInv, DepthCovered
  <2>3. CASE plat = "win" /\ b \in Buttons
    <3>1. PICK stops \in BOOLEAN :
            /\ captured' = ((IF StopsCapture(stops) THEN 0 ELSE depth) = 0 \/ captured)
            /\ depth' = (IF StopsCapture(stops) THEN 0 ELSE depth) + 1
      BY <2>3 DEF Press
    <3>2. captured' \in BOOLEAN /\ depth' \in Nat /\ (captured' => depth' = 1 \/ (captured /\ depth' = depth + 1))
      BY <3>1 DEF CaptureInv
    <3>3. Cardinality(Known') = Cardinality(Known) + 1
      <4>1. Known' = Known \cup {b} /\ b \notin Known
        BY <1>1, <1>3, <2>3 DEF Known
      <4>. QED  BY <4>1, KnownFinite, FS_AddElement
    <3>4. captured' => depth' \in 1 .. Cardinality(Known')
      BY <3>2, <3>3, <2>3, KnownFinite DEF CaptureInv, DepthCovered
    <3>. QED  BY <3>2, <3>4, <1>1, <2>3 DEF DepthCovered
  <2>. QED  BY <2>1, <2>2, <2>3
<1>. QED  BY <1>1, <1>2, <1>4, <1>5, <1>6 DEF CaptureInv

LEMMA ReleaseCapture == CaptureInv /\ Release => CaptureInv'
<1>. SUFFICES ASSUME CaptureInv, Release PROVE CaptureInv'
  OBVIOUS
<1>. DEFINE b == Head(queue).b
<1>1. /\ queue # << >> /\ Head(queue).k = "release" /\ queue' = Tail(queue) /\ plat' = plat
      /\ pressed' = pressed \ {b}
  BY DEF Release, Handling
<1>2. /\ queue' \in Seq(Events) /\ InTurn(queue') /\ UpBefore(queue', pressed)
  BY <1>1, TailInTurn DEF CaptureInv
<1>3. UpBefore(queue', pressed')
  BY <1>1, <1>2 DEF UpBefore
<1>4. IsFiniteSet(pressed')
  BY <1>1, FS_RemoveElement DEF CaptureInv
<1>5. captured' \in BOOLEAN /\ depth' \in Nat /\ DepthCovered'
  <2>1. CASE plat # "win"
    BY <1>1, <2>1 DEF Release, CaptureInv, DepthCovered, Ungrabs
  <2>2. CASE plat = "win" /\ b \notin Buttons
    <3>1. UNCHANGED << captured, depth >> /\ Known' = Known
      BY <1>1, <2>2 DEF Release, Known
    <3>2. captured => Known # {}
      <4>1. Cardinality({}) = 0
        BY FS_EmptySet
      <4>2. captured => depth \in 1 .. Cardinality(Known)
        BY <2>2, Zenon DEF CaptureInv, DepthCovered
      <4>3. captured => 1 <= Cardinality(Known)
        BY <4>2, KnownFinite DEF CaptureInv
      <4>. QED  BY <4>1, <4>3
    <3>3. captured' => pressed' # {}
      BY <3>1, <3>2 DEF Known
    <3>. QED  BY <3>1, <3>3, <1>1, <2>2 DEF CaptureInv, DepthCovered
  <2>3. CASE plat = "win" /\ b \in Buttons
    <3>1. PICK stops \in BOOLEAN :
            /\ captured' = (captured /\ ~StopsCapture(stops)
                             /\ ~ReleasesCapture((IF StopsCapture(stops) THEN 0 ELSE depth) - 1))
            /\ depth' = IF ReleasesCapture((IF StopsCapture(stops) THEN 0 ELSE depth) - 1) THEN 0
                        ELSE (IF StopsCapture(stops) THEN 0 ELSE depth) - 1
      BY <2>3 DEF Release
    <3>2. captured' \in BOOLEAN /\ depth' \in Nat
      BY <3>1 DEF CaptureInv, ReleasesCapture
    <3>3. captured' => captured /\ depth > 1 /\ depth' = depth - 1
      <4>1. CASE StopsCapture(stops)
        BY <3>1, <4>1
      <4>2. CASE ~StopsCapture(stops)
        <5>1. /\ captured' = (captured /\ ~ReleasesCapture(depth - 1))
              /\ depth' = IF ReleasesCapture(depth - 1) THEN 0 ELSE depth - 1
          BY <3>1, <4>2
        <5>2. CASE ReleasesCapture(depth - 1)
          BY <5>1, <5>2
        <5>3. CASE ~ReleasesCapture(depth - 1)
          <6>1. captured' => captured
            BY <5>1
          <6>2. depth > 1 /\ depth' = depth - 1
            BY <5>1, <5>3 DEF CaptureInv, ReleasesCapture
          <6>. QED  BY <6>1, <6>2
        <5>. QED  BY <5>2, <5>3
      <4>. QED  BY <4>1, <4>2
    <3>4. IsFiniteSet(Known') /\ Cardinality(Known') \in Nat /\ Cardinality(Known') >= Cardinality(Known) - 1
      <4>1. Known' = Known \ {b}
        BY <1>1 DEF Known
      <4>2. /\ IsFiniteSet(Known \ {b})
            /\ Cardinality(Known \ {b}) = IF b \in Known THEN Cardinality(Known) - 1 ELSE Cardinality(Known)
        BY KnownFinite, FS_RemoveElement
      <4>3. Cardinality(Known \ {b}) \in Nat
        BY <4>2, FS_CardinalityType
      <4>. QED  BY <4>1, <4>2, <4>3, KnownFinite
    <3>5. captured' => depth' \in 1 .. Cardinality(Known')
      BY <3>2, <3>3, <3>4, <2>3, KnownFinite DEF CaptureInv, DepthCovered
    <3>6. captured' => pressed' # {}
      <4>1. Known' = {} => Cardinality(Known') = 0
        BY FS_EmptySet
      <4>. QED  BY <3>2, <3>5, <4>1 DEF Known
    <3>. QED  BY <3>2, <3>5, <3>6, <1>1, <2>3 DEF DepthCovered
  <2>. QED  BY <2>1, <2>2, <2>3
<1>. QED  BY <1>1, <1>2, <1>3, <1>4, <1>5 DEF CaptureInv

-------------------------------------------------------------------------------
LEMMA SentCapture == CaptureInv /\ SystemSends => CaptureInv'
<1>. SUFFICES ASSUME CaptureInv, SystemSends PROVE CaptureInv'
  OBVIOUS
<1>1. UNCHANGED << plat, input >>
  BY DEF SystemSends
<1>. DEFINE Sent(e) == /\ queue' = Append(queue, e)
                       /\ e.k = "press" => e.b \notin pressed
                       /\ \A b \in AnyButton : About(e, b) => ~Undelivered(b)
<1>2. \E e \in Events : Sent(e)
  <2>1. CASE Arrive([k |-> "map"])
    <3>1. [k |-> "map"] \in Events
      BY DEF Events
    <3>. QED  BY <2>1, <3>1 DEF Arrive, About
  <2>2. ASSUME NEW s \in Sizes, Arrive([k |-> "configure", s |-> s]) PROVE \E e \in Events : Sent(e)
    <3>1. [k |-> "configure", s |-> s] \in Events
      BY DEF Events
    <3>. QED  BY <2>2, <3>1 DEF Arrive, About
  <2>3. ASSUME NEW k \in {"close", "expose"}, Arrive([k |-> k]) PROVE \E e \in Events : Sent(e)
    <3>1. [k |-> k] \in Events
      BY DEF Events
    <3>. QED  BY <2>3, <3>1 DEF Arrive, About
  <2>4. ASSUME NEW b \in AnyButton, ~Undelivered(b),
               Arrive([k |-> IF b \in pressed THEN "release" ELSE "press", b |-> b])
        PROVE  \E e \in Events : Sent(e)
    <3>1. [k |-> IF b \in pressed THEN "release" ELSE "press", b |-> b] \in Events
      BY DEF Events
    <3>. QED  BY <2>4, <3>1 DEF Arrive, About
  <2>. QED  BY <2>1, <2>2, <2>3, <2>4 DEF SystemSends, AnyButton
<1>. PICK e \in Events : Sent(e)
  BY <1>2
<1>3. ASSUME NEW b \in AnyButton, About(e, b), NEW j \in 1 .. Len(queue)
      PROVE  ~About(queue[j], b)
  <2>1. queue[j] \in Events
    BY ElementOfSeq DEF CaptureInv
  <2>2. ASSUME About(queue[j], b) PROVE queue[j] \in [k : {"press", "release"}, b : {b}]
    BY <2>1, <2>2 DEF Events, About
  <2>. QED  BY <1>2, <1>3, <2>2 DEF Undelivered
<1>. QED  BY <1>1, <1>2, <1>3, ArriveInTurn DEF CaptureInv, DepthCovered, Known, input

LEMMA LostCapture == CaptureInv /\ LoseCapture => CaptureInv'
<1>. SUFFICES ASSUME CaptureInv, LoseCapture PROVE CaptureInv'
  OBVIOUS
<1>1. IsFiniteSet({}) /\ captured' = FALSE /\ pressed' = {} /\ UNCHANGED << plat, queue, depth >>
  BY FS_EmptySet DEF LoseCapture
<1>. QED  BY <1>1 DEF CaptureInv, DepthCovered, UpBefore

LEMMA MovedCapture == CaptureInv /\ PointerMoves => CaptureInv'
<1>. SUFFICES ASSUME CaptureInv, PointerMoves PROVE CaptureInv'
  OBVIOUS
<1>. DEFINE e == [k |-> "message"]
<1>1. e \in Events /\ e.k = "message"
  BY DEF Events
<1>2. queue' = << e >> /\ UNCHANGED << plat, input >>
  BY DEF PointerMoves
<1>3. << e >> \in Seq(Events) /\ InTurn(<< e >>) /\ UpBefore(<< e >>, pressed)
  BY <1>1 DEF InTurn, UpBefore
<1>. QED  BY <1>2, <1>3 DEF CaptureInv, DepthCovered, Known, input

\* What neither handles an event of the queue nor comes from the system.
Others ==
  \/ Alloc \/ OpenImpl \/ Open \/ Abort \/ Start
  \/ FrameCb \/ NotDue \/ PollCb \/ NotReadable \/ Drained \/ Draw \/ Leave
  \/ Timer \/ Message \/ Check \/ LoopQuits \/ Fini \/ LockToClose \/ Close \/ Free
  \/ Wants \/ WorkerLock \/ WorkerUnlock \/ Ended

LEMMA OthersUntouched == Others => UNCHANGED capturing
<1>1. CASE Alloc \/ OpenImpl \/ Open
  BY <1>1 DEF Alloc, OpenImpl, Open, Rest, capturing
<1>2. CASE Abort \/ Close \/ Free
  BY <1>2 DEF Abort, Close, Free, Descend, Rest, capturing
<1>3. CASE Start \/ Drained \/ Draw \/ Timer \/ Message
  BY <1>3 DEF Start, Drained, Draw, Timer, Message, capturing
<1>4. CASE FrameCb \/ NotDue \/ PollCb \/ NotReadable \/ Leave \/ Check \/ LoopQuits
  BY <1>4 DEF FrameCb, NotDue, PollCb, NotReadable, Leave, Check, LoopQuits, Rest, capturing
<1>5. CASE Fini \/ LockToClose \/ Wants \/ WorkerLock \/ WorkerUnlock \/ Ended
  BY <1>5 DEF Fini, LockToClose, Wants, WorkerLock, WorkerUnlock, Ended, Rest, vars, capturing
<1>. QED  BY <1>1, <1>2, <1>3, <1>4, <1>5 DEF Others

LEMMA NextCapture == CaptureInv /\ [Next]_vars => CaptureInv'
<1>. SUFFICES ASSUME CaptureInv, [Next]_vars PROVE CaptureInv'
  OBVIOUS
<1>1. CASE Map
  BY <1>1, HandledCapture DEF Map
<1>2. CASE Configure
  BY <1>2, HandledCapture DEF Configure
<1>3. CASE Expose \/ OtherMessage
  BY <1>3, HandledCapture DEF Expose, OtherMessage
<1>4. CASE CloseAsked
  BY <1>4, CloseCapture
<1>5. CASE Press
  BY <1>5, PressCapture
<1>6. CASE Release
  BY <1>6, ReleaseCapture
<1>7. CASE SystemSends
  BY <1>7, SentCapture
<1>8. CASE LoseCapture
  BY <1>8, LostCapture
<1>9. CASE PointerMoves
  BY <1>9, MovedCapture
<1>10. CASE UNCHANGED vars
  BY <1>10, Untouched DEF vars, capturing
<1>11. CASE Others
  BY <1>11, OthersUntouched, Untouched
<1>. QED  BY <1>1, <1>2, <1>3, <1>4, <1>5, <1>6, <1>7, <1>8, <1>9, <1>10, <1>11
          DEF Next, MainStep, Others

\* The pointer is captured only while a button is down (x11-xcb/event.c,
\* win/event.c), for any buttons, wheel and number of events.
THEOREM CapturesEnd == Spec => []CaptureEnds
<1>1. Spec => Init /\ [][Next]_vars
  BY DEF Spec
<1>. QED  BY <1>1, InitCapture, NextCapture, Implies, PTL

-------------------------------------------------------------------------------
\* Where on the way down the mutex is released for the caller.
LockedAt == IF plat = "win" THEN 19 ELSE 18

\* The step of a ladder is one of its steps.
StepInv ==
  /\ i \in 1 .. 30
  /\ pc = "close" => i <= Len(CloseLadder(plat))
  /\ pc = "free" => i <= Len(FreeLadder(plat))
  /\ pc \in {"lock", "fini", "check", "timers", "poll", "drain", "draw", "unlock", "get", "handle", "opened"} => i = 1

\* Where the main thread holds the mutex and where it cannot, and whose the
\* context is while nobody holds it.
LockInv ==
  /\ lock = Main => pc \in {"drain", "draw", "unlock", "handle", "close"}
  /\ pc \in {"drain", "draw", "unlock"} => lock = Main
  /\ pc = "close" => (lock = Main <=> i <= LockedAt)
  /\ lock = Worker <=> worker = "in"
  /\ pc \in {"alloc", "open", "gl", "abort", "lock", "close", "free", "done"} => worker = "idle"
  /\ pc = "abort" \/ lock = Broken => failed = "gl"
  /\ pc \in {"alloc", "open", "gl"} => lock # Broken

CtxInv ==
  /\ lock = Main /\ pc # "close" => ctx = Main
  /\ pc = "close" /\ "ctx" \in held => ctx = Main
  /\ lock = None /\ pc \notin {"abort", "close", "free", "done"} =>
        ctx = None \/ (ctx = Main /\ (back = None \/ plat = "cocoa"))
  /\ lock = Worker => ctx = Worker \/ (ctx = Main /\ (back = None \/ plat = "cocoa"))
  /\ pc \in {"alloc", "open", "gl", "opened"} => back = None

\* What follows is known where it is gone to.
PathInv ==
  /\ pc = "drain" => then # None
  /\ pc \in {"drain", "draw", "unlock", "handle"} => back # None
  /\ "get" \in {pc, back} => plat # "x11"

\* A tree that is attached is laid out at the size seen unless that is put off,
\* which no frame is drawn in between of.
SizeInv ==
  /\ laid # 0 /\ ~need => laid = seen
  /\ plat # "x11" \/ pc = "draw" => ~need

\* The events that the system has sent and nobody has handled.
Waiting(q) == IF q # << >> /\ Head(q).k = "message" THEN Len(q) - 1 ELSE Len(q)

\* A press that was counted was sent.
SentInv ==
  /\ queue \in Seq(Events) /\ \A k \in 2 .. Len(queue) : queue[k].k # "message"
  /\ depth + Waiting(queue) <= sent

OpenInv == TypeOK /\ StepInv /\ LockInv /\ CtxInv /\ PathInv /\ SizeInv /\ SentInv

-------------------------------------------------------------------------------
\* The ladders, step by step, on each platform.
LEMMA X11AllocIs ==
  ASSUME plat = "x11"
  PROVE  LET l == AllocLadder(plat) IN
    /\ Len(l) = 12 /\ l[1] = May({"rtb"}, {}) /\ l[2] = May({"dpy"}, {"rtb"})
    /\ l[3] = May({}, {"dpy", "rtb"}) /\ l[4] = May({"xkb_ctx"}, {"dpy", "rtb"})
    /\ l[5] = May({}, {"dpy", "rtb"}) /\ l[6] = May({"xkb_keymap"}, {"dpy", "rtb"})
    /\ l[7] = May({"xkb_state"}, {"xkb_keymap", "dpy", "rtb"}) /\ l[8] = Sure({"clip_conn"})
    /\ l[9] = May({}, {"xkb_ctx", "xkb_keymap", "xkb_state", "dpy", "rtb"})
    /\ l[10] = May({"clip_win"}, {"clip_conn", "xkb_ctx", "xkb_keymap", "xkb_state", "dpy", "rtb"})
    /\ l[11] = Sure({"empty_cursor"}) /\ l[12] = Sure({"types", "uv_loop"})
BY SMTT(60) DEF AllocLadder, X11Alloc, X11Display, X11Keyboard, X11Clipboard

LEMMA WinAllocIs ==
  ASSUME plat = "win"
  PROVE  LET l == AllocLadder(plat) IN
    /\ Len(l) = 4 /\ l[1] = Sure({"rtb"}) /\ l[2] = Sure({"ole32"}) /\ l[3] = Sure({"dpi_libs"})
    /\ l[4] = Sure({"types", "uv_loop"})
BY SMTT(60) DEF AllocLadder, WinAlloc

LEMMA CocoaAllocIs ==
  ASSUME plat = "cocoa"
  PROVE  LET l == AllocLadder(plat) IN
    /\ Len(l) = 3 /\ l[1] = Sure({"rtb"}) /\ l[2] = Sure({"invisible_cursor"})
    /\ l[3] = Sure({"types", "uv_loop"})
BY SMTT(60) DEF AllocLadder, CocoaAlloc

LEMMA X11OpenIs ==
  ASSUME plat = "x11"
  PROVE  LET l == OpenLadder(plat) IN
    /\ Len(l) = 13 /\ l[1] = May({"window"}, {}) /\ l[2] = May({}, {"window"})
    /\ l[3] = May({"cursor_ctx"}, {"window"}) /\ l[4] = May({}, {"window"})
    /\ l[5] = May({"egl_dpy"}, {"window"}) /\ l[6] = May({}, Egl \cup {"window"})
    /\ l[7] = May({"ctx"}, Egl \cup {"window"}) /\ l[8] = Sure({"colormap"})
    /\ l[9] = May({"xcb_win"}, Egl \cup {"window"})
    /\ l[10] = May({"egl_surface"}, Egl \cup {"xcb_win", "window"})
    /\ l[11] = May({}, Egl \cup {"xcb_win", "window"}) /\ l[12] = May({}, {"egl_dpy", "xcb_win", "window"})
    /\ l[13] = Sure({"lock"})
BY SMTT(60) DEF OpenLadder, X11Open, X11Context

LEMMA WinOpenIs ==
  ASSUME plat = "win"
  PROVE  LET l == OpenLadder(plat) IN
    /\ Len(l) = 10 /\ l[1] = May({"window"}, {}) /\ l[2] = May({"wtitle"}, {"window"}) /\ l[3] = WinClass
    /\ l[4] = May({"hwnd"}, {"window_class", "wtitle", "window"}) /\ l[5] = Sure({"dc"})
    /\ l[6] = May({"trampoline"}, WinWindow) /\ l[7] = May({}, {"trampoline"} \cup WinWindow)
    /\ l[8] = May({}, WinWindow)
    /\ l[9] = [May({"ctx"}, {"trampoline"} \cup WinWindow) EXCEPT !.drops = {"trampoline"}]
    /\ l[10] = Swap({"lock"}, {"wtitle"})
BY SMTT(60) DEF OpenLadder, WinOpen, WinContext

LEMMA CocoaOpenIs ==
  ASSUME plat = "cocoa"
  PROVE  LET l == OpenLadder(plat) IN
    /\ Len(l) = 7 /\ l[1] = May({"window"}, {}) /\ l[2] = Sure({"lock"}) /\ l[3] = Sure({"view"})
    /\ l[4] = Sure({"pixel_format"}) /\ l[5] = Sure({"ctx"}) /\ l[6] = Sure({"title"})
    /\ l[7] = May({"cocoa_win"}, {"lock", "window"})
BY SMTT(60) DEF OpenLadder, CocoaOpen, CocoaContext, CocoaWindow

LEMMA GlIs ==
  LET l == GlLadder IN
    /\ Len(l) = 14 /\ l[1] = May({"surface"}, {}) /\ l[2] = Sure({"style_list"})
    /\ l[3] = Sure({"style_fonts"}) /\ l[4] = May({"dfault"}, Firsts(Shaders, 0))
    /\ l[5] = May({"surface_shader"}, Firsts(Shaders, 1)) /\ l[6] = May({"stylequad"}, Firsts(Shaders, 2))
    /\ l[7] = May({"quad_solid"}, Firsts(Ibos, 0) \cup Firsts(Shaders, 3))
    /\ l[8] = May({"quad_outline"}, Firsts(Ibos, 1) \cup Firsts(Shaders, 3))
    /\ l[9] = May({"border"}, Firsts(Ibos, 2) \cup Firsts(Shaders, 3))
    /\ l[10] = May({"solid"}, Firsts(Ibos, 3) \cup Firsts(Shaders, 3))
    /\ l[11] = May({"outline"}, Firsts(Ibos, 4) \cup Firsts(Shaders, 3))
    /\ l[12] = May({"fonts"}, Firsts(Ibos, 5) \cup Firsts(Shaders, 3)) /\ l[13] = Sure({"vao"})
    /\ l[14] = Sure({"overlay"})
BY SMTT(60) DEF GlLadder, ShaderLadder, IboLadder, Shaders, Ibos

LEMMA X11ImplIs ==
  ASSUME plat = "x11"
  PROVE  LET l == ImplClose(plat) IN
    /\ Len(l) = 7 /\ l[1] = {"ctx"} /\ l[2] = {"egl_surface", "egl_dpy"} /\ l[3] = {"xcb_win"}
    /\ l[4] = {"locked"} /\ l[5] = {"lock"} /\ l[6] = {"cursor_ctx"} /\ l[7] = {"window"}
BY SMTT(60) DEF ImplClose, X11Close

LEMMA WinImplIs ==
  ASSUME plat = "win"
  PROVE  LET l == ImplClose(plat) IN
    /\ Len(l) = 7 /\ l[1] = {"ctx"} /\ l[2] = {"dc"} /\ l[3] = {"hwnd", "frame_timer"} /\ l[4] = {"window_class"}
    /\ l[5] = {"locked"} /\ l[6] = {"lock"} /\ l[7] = {"window"}
BY SMTT(60) DEF ImplClose, WinClose

LEMMA CocoaImplIs ==
  ASSUME plat = "cocoa"
  PROVE  LET l == ImplClose(plat) IN
    /\ Len(l) = 6 /\ l[1] = {"view"} /\ l[2] = {"ctx"} /\ l[3] = {"cocoa_win"} /\ l[4] = {"locked"}
    /\ l[5] = {"lock"} /\ l[6] = {"window"}
BY SMTT(60) DEF ImplClose, CocoaClose

LEMMA X11CloseIs ==
  ASSUME plat = "x11"
  PROVE  LET l == CloseLadder(plat) IN
    /\ Len(l) = 21 /\ l[1] = {"overlay"} /\ l[2] = {"vao"} /\ l[3] = {"fonts"} /\ l[4] = {"outline"}
    /\ l[5] = {"solid"} /\ l[6] = {"border"} /\ l[7] = {"quad_outline"} /\ l[8] = {"quad_solid"}
    /\ l[9] = {"stylequad"} /\ l[10] = {"surface_shader"} /\ l[11] = {"dfault"} /\ l[12] = {"style_fonts"}
    /\ l[13] = {"style_list"} /\ l[14] = {"surface"} /\ l[15] = {"ctx"} /\ l[16] = {"egl_surface", "egl_dpy"}
    /\ l[17] = {"xcb_win"} /\ l[18] = {"locked"} /\ l[19] = {"lock"} /\ l[20] = {"cursor_ctx"}
    /\ l[21] = {"window"}
BY SMTT(60) DEF CloseLadder, Releases, RestOfClose, ImplClose, X11Close

LEMMA WinCloseIs ==
  ASSUME plat = "win"
  PROVE  LET l == CloseLadder(plat) IN
    /\ Len(l) = 21 /\ l[1] = {"overlay"} /\ l[2] = {"vao"} /\ l[3] = {"fonts"} /\ l[4] = {"outline"}
    /\ l[5] = {"solid"} /\ l[6] = {"border"} /\ l[7] = {"quad_outline"} /\ l[8] = {"quad_solid"}
    /\ l[9] = {"stylequad"} /\ l[10] = {"surface_shader"} /\ l[11] = {"dfault"} /\ l[12] = {"style_fonts"}
    /\ l[13] = {"style_list"} /\ l[14] = {"surface"} /\ l[15] = {"ctx"} /\ l[16] = {"dc"} /\ l[17] = {"hwnd", "frame_timer"}
    /\ l[18] = {"window_class"} /\ l[19] = {"locked"} /\ l[20] = {"lock"} /\ l[21] = {"window"}
BY SMTT(60) DEF CloseLadder, Releases, RestOfClose, ImplClose, WinClose

LEMMA CocoaCloseIs ==
  ASSUME plat = "cocoa"
  PROVE  LET l == CloseLadder(plat) IN
    /\ Len(l) = 20 /\ l[1] = {"overlay"} /\ l[2] = {"vao"} /\ l[3] = {"fonts"} /\ l[4] = {"outline"}
    /\ l[5] = {"solid"} /\ l[6] = {"border"} /\ l[7] = {"quad_outline"} /\ l[8] = {"quad_solid"}
    /\ l[9] = {"stylequad"} /\ l[10] = {"surface_shader"} /\ l[11] = {"dfault"} /\ l[12] = {"style_fonts"}
    /\ l[13] = {"style_list"} /\ l[14] = {"surface"} /\ l[15] = {"view"} /\ l[16] = {"ctx"}
    /\ l[17] = {"cocoa_win"} /\ l[18] = {"locked"} /\ l[19] = {"lock"} /\ l[20] = {"window"}
BY SMTT(60) DEF CloseLadder, Releases, RestOfClose, ImplClose, CocoaClose

LEMMA X11FreeIs ==
  ASSUME plat = "x11"
  PROVE  LET l == FreeLadder(plat) IN
    /\ Len(l) = 10 /\ l[1] = {"types"} /\ l[2] = {"uv_loop"} /\ l[3] = {"clip_win"} /\ l[4] = {"clip_conn"}
    /\ l[5] = {"xkb_ctx"} /\ l[6] = {"xkb_keymap"} /\ l[7] = {"xkb_state"} /\ l[8] = {"empty_cursor"}
    /\ l[9] = {"dpy", "colormap"} /\ l[10] = {"rtb"}
BY SMTT(60) DEF FreeLadder, X11Free

LEMMA WinFreeIs ==
  ASSUME plat = "win"
  PROVE  LET l == FreeLadder(plat) IN
    /\ Len(l) = 4 /\ l[1] = {"types"} /\ l[2] = {"uv_loop"} /\ l[3] = {"ole32"} /\ l[4] = {"rtb"}
BY SMTT(60) DEF FreeLadder, WinFree

LEMMA CocoaFreeIs ==
  ASSUME plat = "cocoa"
  PROVE  LET l == FreeLadder(plat) IN
    /\ Len(l) = 4 /\ l[1] = {"types"} /\ l[2] = {"uv_loop"} /\ l[3] = {"invisible_cursor"} /\ l[4] = {"rtb"}
BY SMTT(60) DEF FreeLadder, CocoaFree

\* How long the ladders are, and where the mutex is released.
LEMMA AllocLen ==
  ASSUME plat \in Platforms
  PROVE  Len(AllocLadder(plat)) \in 1 .. 30
BY X11AllocIs, WinAllocIs, CocoaAllocIs DEF Platforms

LEMMA OpenLen ==
  ASSUME plat \in Platforms
  PROVE  Len(OpenLadder(plat)) \in 1 .. 30
BY X11OpenIs, WinOpenIs, CocoaOpenIs DEF Platforms

LEMMA GlLen == Len(GlLadder) \in 1 .. 30
BY GlIs

LEMMA ImplCloseLen ==
  ASSUME plat \in Platforms
  PROVE  Len(ImplClose(plat)) \in 1 .. 30
BY X11ImplIs, WinImplIs, CocoaImplIs DEF Platforms

\* The close of the window releases the mutex, once, and rtb_free does not.
LEMMA CloseLadderIs ==
  ASSUME plat \in Platforms
  PROVE  /\ Len(CloseLadder(plat)) \in 1 .. 30 /\ LockedAt < Len(CloseLadder(plat))
         /\ \A k \in 1 .. Len(CloseLadder(plat)) : "locked" \in CloseLadder(plat)[k] <=> k = LockedAt
<1>. DEFINE l == CloseLadder(plat)
<1>1. CASE plat = "x11"
  <2>1. Len(l) = 21 /\ \A k \in 1 .. 21 : "locked" \in l[k] <=> k = 18
    BY <1>1, X11CloseIs
  <2>2. LockedAt = 18
    BY <1>1 DEF LockedAt
  <2>3. Len(l) \in 1 .. 30 /\ LockedAt < Len(l)
    BY <2>1, <2>2
  <2>. QED  BY <2>1, <2>2, <2>3, Zenon
<1>2. CASE plat = "win"
  <2>1. Len(l) = 21 /\ \A k \in 1 .. 21 : "locked" \in l[k] <=> k = 19
    BY <1>2, WinCloseIs
  <2>2. LockedAt = 19
    BY <1>2 DEF LockedAt
  <2>3. Len(l) \in 1 .. 30 /\ LockedAt < Len(l)
    BY <2>1, <2>2
  <2>. QED  BY <2>1, <2>2, <2>3, Zenon
<1>3. CASE plat = "cocoa"
  <2>1. Len(l) = 20 /\ \A k \in 1 .. 20 : "locked" \in l[k] <=> k = 18
    BY <1>3, CocoaCloseIs
  <2>2. LockedAt = 18
    BY <1>3 DEF LockedAt
  <2>3. Len(l) \in 1 .. 30 /\ LockedAt < Len(l)
    BY <2>1, <2>2
  <2>. QED  BY <2>1, <2>2, <2>3, Zenon
<1>. QED  BY <1>1, <1>2, <1>3 DEF Platforms

LEMMA FreeLadderIs ==
  ASSUME plat \in Platforms
  PROVE  /\ Len(FreeLadder(plat)) \in 1 .. 30
         /\ \A k \in 1 .. Len(FreeLadder(plat)) : "locked" \notin FreeLadder(plat)[k]
<1>1. CASE plat = "x11"
  BY <1>1, X11FreeIs
<1>2. CASE plat = "win"
  BY <1>2, WinFreeIs
<1>3. CASE plat = "cocoa"
  BY <1>3, CocoaFreeIs
<1>. QED  BY <1>1, <1>2, <1>3 DEF Platforms

-------------------------------------------------------------------------------
\* The steps of the loop and of the other thread, which leave the queue alone.

LEMMA FrameCbOpen == OpenInv /\ FrameCb => OpenInv'
<1>. SUFFICES ASSUME OpenInv, FrameCb PROVE OpenInv'
  OBVIOUS
<1>. USE DEF OpenInv, None, Main, Worker, Broken
<1>1. TypeOK'
  BY DEF FrameCb, Lock, size, input, TypeOK
<1>2. StepInv'
  BY DEF FrameCb, Lock, size, input, StepInv, TypeOK
<1>3. LockInv'
  BY DEF FrameCb, Lock, size, input, LockInv, TypeOK, CtxInv, StepInv, LockedAt
<1>4. CtxInv'
  BY DEF FrameCb, Lock, size, input, LockInv, TypeOK, CtxInv, StepInv, PathInv
<1>5. PathInv'
  BY DEF FrameCb, Lock, size, input, PathInv, TypeOK
<1>6. SizeInv'
  BY DEF FrameCb, Lock, size, input, SizeInv, PathInv, TypeOK
<1>7. SentInv'
  BY DEF FrameCb, Lock, size, input, SentInv, Waiting
<1>. QED  BY <1>1, <1>2, <1>3, <1>4, <1>5, <1>6, <1>7

LEMMA NotDueOpen == OpenInv /\ NotDue => OpenInv'
<1>. SUFFICES ASSUME OpenInv, NotDue PROVE OpenInv'
  OBVIOUS
<1>. USE DEF OpenInv, None, Main, Worker, Broken
<1>1. TypeOK'
  BY DEF NotDue, Rest, size, input, TypeOK
<1>2. StepInv'
  BY DEF NotDue, Rest, size, input, StepInv, TypeOK
<1>3. LockInv'
  BY DEF NotDue, Rest, size, input, LockInv, TypeOK, CtxInv, StepInv, LockedAt
<1>4. CtxInv'
  BY DEF NotDue, Rest, size, input, LockInv, TypeOK, CtxInv, StepInv, PathInv
<1>5. PathInv'
  BY DEF NotDue, Rest, size, input, PathInv, TypeOK
<1>6. SizeInv'
  BY DEF NotDue, Rest, size, input, SizeInv, PathInv, TypeOK
<1>7. SentInv'
  BY DEF NotDue, Rest, size, input, SentInv, Waiting
<1>. QED  BY <1>1, <1>2, <1>3, <1>4, <1>5, <1>6, <1>7

LEMMA PollCbOpen == OpenInv /\ PollCb => OpenInv'
<1>. SUFFICES ASSUME OpenInv, PollCb PROVE OpenInv'
  OBVIOUS
<1>. USE DEF OpenInv, None, Main, Worker, Broken
<1>1. TypeOK'
  BY DEF PollCb, Lock, size, input, TypeOK
<1>2. StepInv'
  BY DEF PollCb, Lock, size, input, StepInv, TypeOK
<1>3. LockInv'
  BY DEF PollCb, Lock, size, input, LockInv, TypeOK, CtxInv, StepInv, LockedAt
<1>4. CtxInv'
  BY DEF PollCb, Lock, size, input, LockInv, TypeOK, CtxInv, StepInv, PathInv
<1>5. PathInv'
  BY DEF PollCb, Lock, size, input, PathInv, TypeOK
<1>6. SizeInv'
  BY DEF PollCb, Lock, size, input, SizeInv, PathInv, TypeOK
<1>7. SentInv'
  BY DEF PollCb, Lock, size, input, SentInv, Waiting
<1>. QED  BY <1>1, <1>2, <1>3, <1>4, <1>5, <1>6, <1>7

LEMMA NotReadableOpen == OpenInv /\ NotReadable => OpenInv'
<1>. SUFFICES ASSUME OpenInv, NotReadable PROVE OpenInv'
  OBVIOUS
<1>. USE DEF OpenInv, None, Main, Worker, Broken
<1>1. TypeOK'
  BY DEF NotReadable, Rest, size, input, TypeOK
<1>2. StepInv'
  BY DEF NotReadable, Rest, size, input, StepInv, TypeOK
<1>3. LockInv'
  BY DEF NotReadable, Rest, size, input, LockInv, TypeOK, CtxInv, StepInv, LockedAt
<1>4. CtxInv'
  BY DEF NotReadable, Rest, size, input, LockInv, TypeOK, CtxInv, StepInv, PathInv
<1>5. PathInv'
  BY DEF NotReadable, Rest, size, input, PathInv, TypeOK
<1>6. SizeInv'
  BY DEF NotReadable, Rest, size, input, SizeInv, PathInv, TypeOK
<1>7. SentInv'
  BY DEF NotReadable, Rest, size, input, SentInv, Waiting
<1>. QED  BY <1>1, <1>2, <1>3, <1>4, <1>5, <1>6, <1>7

LEMMA DrainedOpen == OpenInv /\ Drained => OpenInv'
<1>. SUFFICES ASSUME OpenInv, Drained PROVE OpenInv'
  OBVIOUS
<1>. USE DEF OpenInv, None, Main, Worker, Broken
<1>1. TypeOK'
  BY ZenonT(30) DEF Drained, input, PathInv, TypeOK
<1>2. StepInv'
  BY DEF Drained, input, StepInv, TypeOK
<1>3. LockInv'
  BY DEF Drained, input, LockInv, PathInv, TypeOK
<1>4. CtxInv'
  BY DEF Drained, input, LockInv, TypeOK, CtxInv, StepInv, PathInv
<1>5. PathInv'
  BY DEF Drained, input, PathInv, TypeOK
<1>6. SizeInv'
  BY DEF Drained, input, SizeInv, PathInv, TypeOK
<1>7. SentInv'
  BY DEF Drained, input, SentInv, Waiting
<1>. QED  BY <1>1, <1>2, <1>3, <1>4, <1>5, <1>6, <1>7

LEMMA DrawOpen == OpenInv /\ Draw => OpenInv'
<1>. SUFFICES ASSUME OpenInv, Draw PROVE OpenInv'
  OBVIOUS
<1>. USE DEF OpenInv, None, Main, Worker, Broken
<1>1. TypeOK'
  BY DEF Draw, size, input, TypeOK
<1>2. StepInv'
  BY DEF Draw, size, input, StepInv, TypeOK
<1>3. LockInv'
  BY DEF Draw, size, input, LockInv, TypeOK, CtxInv, StepInv, LockedAt
<1>4. CtxInv'
  BY DEF Draw, size, input, LockInv, TypeOK, CtxInv, StepInv, PathInv
<1>5. PathInv'
  BY DEF Draw, size, input, PathInv, TypeOK
<1>6. SizeInv'
  BY DEF Draw, size, input, SizeInv, PathInv, TypeOK
<1>7. SentInv'
  BY DEF Draw, size, input, SentInv, Waiting
<1>. QED  BY <1>1, <1>2, <1>3, <1>4, <1>5, <1>6, <1>7

LEMMA LeaveOpen == OpenInv /\ Leave => OpenInv'
<1>. SUFFICES ASSUME OpenInv, Leave PROVE OpenInv'
  OBVIOUS
<1>. USE DEF OpenInv, None, Main, Worker, Broken
<1>1. TypeOK'
  BY DEF Leave, Unlock, Rest, size, input, PathInv, TypeOK
<1>2. StepInv'
  BY DEF Leave, Unlock, Rest, size, input, StepInv, TypeOK
<1>3. LockInv'
  BY DEF Leave, Unlock, Rest, size, input, LockInv, TypeOK, CtxInv, StepInv, LockedAt
<1>4. CtxInv'
  BY DEF Leave, Unlock, Rest, size, input, LockInv, TypeOK, CtxInv, StepInv, PathInv
<1>5. PathInv'
  BY DEF Leave, Unlock, Rest, size, input, PathInv, TypeOK
<1>6. SizeInv'
  BY DEF Leave, Unlock, Rest, size, input, SizeInv, PathInv, TypeOK
<1>7. SentInv'
  BY DEF Leave, Unlock, Rest, size, input, SentInv, Waiting
<1>. QED  BY <1>1, <1>2, <1>3, <1>4, <1>5, <1>6, <1>7

LEMMA TimerOpen == OpenInv /\ Timer => OpenInv'
<1>. SUFFICES ASSUME OpenInv, Timer PROVE OpenInv'
  OBVIOUS
<1>. USE DEF OpenInv, None, Main, Worker, Broken
<1>1. TypeOK'
  BY DEF Timer, Lock, size, input, TypeOK
<1>2. StepInv'
  BY DEF Timer, Lock, size, input, StepInv, TypeOK
<1>3. LockInv'
  BY DEF Timer, Lock, size, input, LockInv, TypeOK, CtxInv, StepInv, LockedAt
<1>4. CtxInv'
  BY DEF Timer, Lock, size, input, LockInv, TypeOK, CtxInv, StepInv, PathInv
<1>5. PathInv'
  BY DEF Timer, Lock, size, input, PathInv, TypeOK
<1>6. SizeInv'
  BY DEF Timer, Lock, size, input, SizeInv, PathInv, TypeOK
<1>7. SentInv'
  BY DEF Timer, Lock, size, input, SentInv, Waiting
<1>. QED  BY <1>1, <1>2, <1>3, <1>4, <1>5, <1>6, <1>7

LEMMA MessageOpen == OpenInv /\ Message => OpenInv'
<1>. SUFFICES ASSUME OpenInv, Message PROVE OpenInv'
  OBVIOUS
<1>. USE DEF OpenInv, None, Main, Worker, Broken
<1>1. TypeOK'
  BY DEF Message, Lock, size, input, TypeOK
<1>2. StepInv'
  BY DEF Message, Lock, size, input, StepInv, TypeOK
<1>3. LockInv'
  BY DEF Message, Lock, size, input, LockInv, TypeOK, CtxInv, StepInv, LockedAt
<1>4. CtxInv'
  BY DEF Message, Lock, size, input, LockInv, TypeOK, CtxInv, StepInv, PathInv
<1>5. PathInv'
  BY DEF Message, Lock, size, input, PathInv, TypeOK
<1>6. SizeInv'
  BY DEF Message, Lock, size, input, SizeInv, PathInv, TypeOK
<1>7. SentInv'
  BY DEF Message, Lock, size, input, SentInv, Waiting
<1>. QED  BY <1>1, <1>2, <1>3, <1>4, <1>5, <1>6, <1>7

LEMMA CheckOpen == OpenInv /\ Check => OpenInv'
<1>. SUFFICES ASSUME OpenInv, Check PROVE OpenInv'
  OBVIOUS
<1>. USE DEF OpenInv, None, Main, Worker, Broken
<1>1. TypeOK'
  BY DEF Check, Top, Rest, size, input, TypeOK
<1>2. StepInv'
  BY DEF Check, Top, Rest, size, input, StepInv, TypeOK
<1>3. LockInv'
  BY DEF Check, Top, Rest, size, input, LockInv, TypeOK, CtxInv, StepInv, LockedAt
<1>4. CtxInv'
  BY DEF Check, Top, Rest, size, input, LockInv, TypeOK, CtxInv, StepInv, PathInv
<1>5. PathInv'
  BY DEF Check, Top, Rest, size, input, PathInv, TypeOK
<1>6. SizeInv'
  BY DEF Check, Top, Rest, size, input, SizeInv, PathInv, TypeOK
<1>7. SentInv'
  BY DEF Check, Top, Rest, size, input, SentInv, Waiting
<1>. QED  BY <1>1, <1>2, <1>3, <1>4, <1>5, <1>6, <1>7

LEMMA LoopQuitsOpen == OpenInv /\ LoopQuits => OpenInv'
<1>. SUFFICES ASSUME OpenInv, LoopQuits PROVE OpenInv'
  OBVIOUS
<1>. USE DEF OpenInv, None, Main, Worker, Broken
<1>1. TypeOK'
  BY DEF LoopQuits, Rest, size, input, TypeOK
<1>2. StepInv'
  BY DEF LoopQuits, Rest, size, input, StepInv, TypeOK
<1>3. LockInv'
  BY DEF LoopQuits, Rest, size, input, LockInv, TypeOK, CtxInv, StepInv, LockedAt
<1>4. CtxInv'
  BY DEF LoopQuits, Rest, size, input, LockInv, TypeOK, CtxInv, StepInv, PathInv
<1>5. PathInv'
  BY DEF LoopQuits, Rest, size, input, PathInv, TypeOK
<1>6. SizeInv'
  BY DEF LoopQuits, Rest, size, input, SizeInv, PathInv, TypeOK
<1>7. SentInv'
  BY DEF LoopQuits, Rest, size, input, SentInv, Waiting
<1>. QED  BY <1>1, <1>2, <1>3, <1>4, <1>5, <1>6, <1>7

LEMMA StartOpen == OpenInv /\ Start => OpenInv'
<1>. SUFFICES ASSUME OpenInv, Start PROVE OpenInv'
  OBVIOUS
<1>. USE DEF OpenInv, None, Main, Worker, Broken
<1>1. TypeOK'
  BY DEF Start, Top, input, TypeOK
<1>2. StepInv'
  BY DEF Start, Top, input, StepInv, TypeOK
<1>3. LockInv'
  BY DEF Start, Top, input, LockInv, TypeOK, CtxInv, StepInv, LockedAt
<1>4. CtxInv'
  BY DEF Start, Top, input, LockInv, TypeOK, CtxInv, StepInv, PathInv
<1>5. PathInv'
  BY DEF Start, Top, input, PathInv, TypeOK
<1>6. SizeInv'
  BY DEF Start, Top, input, SizeInv, PathInv, TypeOK
<1>7. SentInv'
  BY DEF Start, Top, input, SentInv, Waiting
<1>. QED  BY <1>1, <1>2, <1>3, <1>4, <1>5, <1>6, <1>7

LEMMA FiniOpen == OpenInv /\ Fini => OpenInv'
<1>. SUFFICES ASSUME OpenInv, Fini PROVE OpenInv'
  OBVIOUS
<1>. USE DEF OpenInv, None, Main, Worker, Broken
<1>1. TypeOK'
  BY DEF Fini, Rest, size, input, TypeOK
<1>2. StepInv'
  BY DEF Fini, Rest, size, input, StepInv, TypeOK
<1>3. LockInv'
  BY DEF Fini, Rest, size, input, LockInv, TypeOK, CtxInv, StepInv, LockedAt
<1>4. CtxInv'
  BY DEF Fini, Rest, size, input, LockInv, TypeOK, CtxInv, StepInv, PathInv
<1>5. PathInv'
  BY DEF Fini, Rest, size, input, PathInv, TypeOK
<1>6. SizeInv'
  BY DEF Fini, Rest, size, input, SizeInv, PathInv, TypeOK
<1>7. SentInv'
  BY DEF Fini, Rest, size, input, SentInv, Waiting
<1>. QED  BY <1>1, <1>2, <1>3, <1>4, <1>5, <1>6, <1>7

LEMMA CloseStarts ==
  ASSUME plat \in Platforms
  PROVE  1 <= Len(CloseLadder(plat)) /\ 1 <= Len(FreeLadder(plat))
<1>. DEFINE m == Len(CloseLadder(plat))
            n == Len(FreeLadder(plat))
<1>1. m \in 1 .. 30 /\ n \in 1 .. 30
  BY CloseLadderIs, FreeLadderIs
<1>. HIDE DEF m, n
<1>2. 1 <= m /\ 1 <= n
  BY <1>1
<1>. QED  BY <1>2 DEF m, n

LEMMA LockToCloseOpen == OpenInv /\ LockToClose => OpenInv'
<1>. SUFFICES ASSUME OpenInv, LockToClose PROVE OpenInv'
  OBVIOUS
<1>. USE DEF OpenInv, None, Main, Worker, Broken
<1>1. TypeOK'
  BY DEF LockToClose, Lock, Rest, size, input, TypeOK
<1>2. StepInv'
  BY CloseStarts DEF LockToClose, Lock, Rest, size, input, StepInv, TypeOK
<1>3. LockInv'
  BY DEF LockToClose, Lock, Rest, size, input, LockInv, TypeOK, CtxInv, StepInv, LockedAt
<1>4. CtxInv'
  BY DEF LockToClose, Lock, Rest, size, input, LockInv, TypeOK, CtxInv, StepInv, PathInv
<1>5. PathInv'
  BY DEF LockToClose, Lock, Rest, size, input, PathInv, TypeOK
<1>6. SizeInv'
  BY DEF LockToClose, Lock, Rest, size, input, SizeInv, PathInv, TypeOK
<1>7. SentInv'
  BY DEF LockToClose, Lock, Rest, size, input, SentInv, Waiting
<1>. QED  BY <1>1, <1>2, <1>3, <1>4, <1>5, <1>6, <1>7

LEMMA WantsOpen == OpenInv /\ Wants => OpenInv'
<1>. SUFFICES ASSUME OpenInv, Wants PROVE OpenInv'
  OBVIOUS
<1>. USE DEF OpenInv, None, Main, Worker, Broken
<1>1. TypeOK'
  BY DEF Wants, Up, main, size, input, TypeOK
<1>2. StepInv'
  BY DEF Wants, Up, main, size, input, StepInv, TypeOK
<1>3. LockInv'
  BY DEF Wants, Up, main, size, input, LockInv, TypeOK, CtxInv, StepInv, LockedAt
<1>4. CtxInv'
  BY DEF Wants, Up, main, size, input, LockInv, TypeOK, CtxInv, StepInv, PathInv
<1>5. PathInv'
  BY DEF Wants, Up, main, size, input, PathInv, TypeOK
<1>6. SizeInv'
  BY DEF Wants, Up, main, size, input, SizeInv, PathInv, TypeOK
<1>7. SentInv'
  BY DEF Wants, Up, main, size, input, SentInv, Waiting
<1>. QED  BY <1>1, <1>2, <1>3, <1>4, <1>5, <1>6, <1>7

LEMMA WorkerLockOpen == OpenInv /\ WorkerLock => OpenInv'
<1>. SUFFICES ASSUME OpenInv, WorkerLock PROVE OpenInv'
  OBVIOUS
<1>. USE DEF OpenInv, None, Main, Worker, Broken
<1>1. TypeOK'
  BY DEF WorkerLock, Lock, main, size, input, TypeOK
<1>2. StepInv'
  BY DEF WorkerLock, Lock, main, size, input, StepInv, TypeOK
<1>3. LockInv'
  BY DEF WorkerLock, Lock, main, size, input, LockInv, TypeOK, CtxInv, StepInv, LockedAt
<1>4. CtxInv'
  BY DEF WorkerLock, Lock, main, size, input, LockInv, TypeOK, CtxInv, StepInv, PathInv
<1>5. PathInv'
  BY DEF WorkerLock, Lock, main, size, input, PathInv, TypeOK
<1>6. SizeInv'
  BY DEF WorkerLock, Lock, main, size, input, SizeInv, PathInv, TypeOK
<1>7. SentInv'
  BY DEF WorkerLock, Lock, main, size, input, SentInv, Waiting
<1>. QED  BY <1>1, <1>2, <1>3, <1>4, <1>5, <1>6, <1>7

LEMMA WorkerUnlockOpen == OpenInv /\ WorkerUnlock => OpenInv'
<1>. SUFFICES ASSUME OpenInv, WorkerUnlock PROVE OpenInv'
  OBVIOUS
<1>. USE DEF OpenInv, None, Main, Worker, Broken
<1>1. TypeOK'
  BY DEF WorkerUnlock, Unlock, main, size, input, TypeOK
<1>2. StepInv'
  BY DEF WorkerUnlock, Unlock, main, size, input, StepInv, TypeOK
<1>3. LockInv'
  BY DEF WorkerUnlock, Unlock, main, size, input, LockInv, TypeOK, CtxInv, StepInv, LockedAt
<1>4. CtxInv'
  BY DEF WorkerUnlock, Unlock, main, size, input, LockInv, TypeOK, CtxInv, StepInv, PathInv
<1>5. PathInv'
  BY DEF WorkerUnlock, Unlock, main, size, input, PathInv, TypeOK
<1>6. SizeInv'
  BY DEF WorkerUnlock, Unlock, main, size, input, SizeInv, PathInv, TypeOK
<1>7. SentInv'
  BY DEF WorkerUnlock, Unlock, main, size, input, SentInv, Waiting
<1>. QED  BY <1>1, <1>2, <1>3, <1>4, <1>5, <1>6, <1>7

LEMMA LoseCaptureOpen == OpenInv /\ LoseCapture => OpenInv'
<1>. SUFFICES ASSUME OpenInv, LoseCapture PROVE OpenInv'
  OBVIOUS
<1>. USE DEF OpenInv, None, Main, Worker, Broken
<1>1. TypeOK'
  <2>1. pressed' \subseteq AnyButton /\ captured' \in BOOLEAN
    BY DEF LoseCapture
  <2>2. UNCHANGED << plat, main, lock, ctx, worker, then, back, queue, sent, size, stop, depth >>
    BY DEF LoseCapture
  <2>. QED  BY <2>1, <2>2 DEF main, size, TypeOK
<1>2. StepInv'
  BY DEF LoseCapture, Running, main, size, StepInv, TypeOK
<1>3. LockInv'
  BY DEF LoseCapture, Running, main, size, LockInv, TypeOK, CtxInv, StepInv, LockedAt
<1>4. CtxInv'
  BY DEF LoseCapture, Running, main, size, LockInv, TypeOK, CtxInv, StepInv, PathInv
<1>5. PathInv'
  BY DEF LoseCapture, Running, main, size, PathInv, TypeOK
<1>6. SizeInv'
  BY DEF LoseCapture, Running, main, size, SizeInv, PathInv, TypeOK
<1>7. SentInv'
  BY DEF LoseCapture, Running, main, size, SentInv, Waiting
<1>. QED  BY <1>1, <1>2, <1>3, <1>4, <1>5, <1>6, <1>7

LEMMA EndedOpen == OpenInv /\ Ended => OpenInv'
<1>. SUFFICES ASSUME OpenInv, Ended PROVE OpenInv'
  OBVIOUS
<1>. USE DEF OpenInv, None, Main, Worker, Broken
<1>1. TypeOK'
  BY DEF Ended, vars, main, size, input, TypeOK
<1>2. StepInv'
  BY DEF Ended, vars, main, size, input, StepInv, TypeOK
<1>3. LockInv'
  BY DEF Ended, vars, main, size, input, LockInv, TypeOK, CtxInv, StepInv, LockedAt
<1>4. CtxInv'
  BY DEF Ended, vars, main, size, input, LockInv, TypeOK, CtxInv, StepInv, PathInv
<1>5. PathInv'
  BY DEF Ended, vars, main, size, input, PathInv, TypeOK
<1>6. SizeInv'
  BY DEF Ended, vars, main, size, input, SizeInv, PathInv, TypeOK
<1>7. SentInv'
  BY DEF Ended, vars, main, size, input, SentInv, Waiting
<1>. QED  BY <1>1, <1>2, <1>3, <1>4, <1>5, <1>6, <1>7

-------------------------------------------------------------------------------
\* An event that is handled.
LEMMA HandledOpen ==
  ASSUME OpenInv, NEW k, Handling(k)
  PROVE  /\ StepInv' /\ LockInv' /\ CtxInv' /\ PathInv'
         /\ pc' \in {"drain", "unlock", "poll", "check", "get"}
         /\ UNCHANGED << plat, i, failed, lock, ctx, worker, then, back, sent, phy >>
         /\ Head(queue) \in Events /\ Head(queue).k = k
         /\ queue' \in Seq(Events) /\ \A j \in 1 .. Len(queue') : queue'[j] \in Events
         /\ \A j \in 2 .. Len(queue') : queue'[j].k # "message"
         /\ Waiting(queue') \in Nat /\ Waiting(queue) \in Nat
         /\ Waiting(queue') <= Waiting(queue) /\ (k # "message" => Waiting(queue') + 1 = Waiting(queue))
<1>. USE DEF OpenInv, None, Main, Worker, Broken
<1>1. /\ queue # << >> /\ Head(queue).k = k /\ queue' = Tail(queue) /\ queue \in Seq(Events)
      /\ \A j \in 2 .. Len(queue) : queue[j].k # "message"
  BY DEF Handling, SentInv
<1>2. /\ Tail(queue) \in Seq(Events) /\ Len(Tail(queue)) = Len(queue) - 1 /\ Len(queue) \in Nat /\ Len(queue) > 0
      /\ \A j \in 1 .. Len(Tail(queue)) : Tail(queue)[j] = queue[j + 1] /\ j + 1 \in 1 .. Len(queue)
      /\ Head(queue) = queue[1] /\ 1 \in 1 .. Len(queue)
  BY <1>1, EmptySeq, HeadTailProperties
<1>3. \A j \in 1 .. Len(queue') : queue'[j] \in Events /\ queue'[j].k # "message"
  <2>. TAKE j \in 1 .. Len(queue')
  <2>1. queue'[j] = queue[j + 1] /\ j + 1 \in 2 .. Len(queue)
    BY <1>1, <1>2
  <2>2. queue'[j] \in Events
    BY <1>1, <1>2, ElementOfSeq
  <2>. QED  BY <1>1, <2>1, <2>2
<1>4. Waiting(queue') = Len(queue) - 1
  <2>1. queue' # << >> => Head(queue') = queue'[1] /\ 1 \in 1 .. Len(queue')
    BY <1>1, <1>2, EmptySeq, HeadTailProperties
  <2>. QED  BY <1>1, <1>2, <1>3, <2>1 DEF Waiting
<1>5. Waiting(queue) = IF k = "message" THEN Len(queue) - 1 ELSE Len(queue)
  BY <1>1 DEF Waiting
<1>6. /\ Waiting(queue') \in Nat /\ Waiting(queue) \in Nat
      /\ Waiting(queue') <= Waiting(queue) /\ (k # "message" => Waiting(queue') + 1 = Waiting(queue))
  <2>. DEFINE n == Len(queue)
              w == Waiting(queue)
              v == Waiting(queue')
  <2>1. n \in Nat /\ n > 0 /\ v = n - 1 /\ w = IF k = "message" THEN n - 1 ELSE n
    BY <1>2, <1>4, <1>5
  <2>. HIDE DEF n, w, v
  <2>2. v \in Nat /\ w \in Nat /\ v <= w /\ (k # "message" => v + 1 = w)
    BY <2>1
  <2>. QED  BY <2>2 DEF w, v
<1>7. /\ pc \in {"drain", "handle"} /\ pc' \in {"drain", "unlock", back}
      /\ pc = "drain" => pc' = "drain"
      /\ pc' = "drain" => pc = "drain"
      /\ pc' = "unlock" => lock = Main
      /\ pc # "drain" /\ lock = Main => pc' = "unlock"
      /\ pc' \in {"drain", "unlock", "poll", "check", "get"} /\ back # None
      /\ UNCHANGED << plat, i, failed, lock, ctx, worker, then, back, sent, phy >>
  BY DEF Handling, TypeOK, PathInv
<1>8. StepInv'
  BY <1>7 DEF StepInv
<1>9. LockInv'
  BY <1>7 DEF LockInv
<1>10. CtxInv'
  BY <1>7 DEF CtxInv
<1>11. PathInv'
  BY <1>7 DEF PathInv
<1>12. Head(queue) \in Events /\ queue' \in Seq(Events)
  BY <1>1, <1>2, ElementOfSeq
<1>13. \A j \in 2 .. Len(queue') : queue'[j].k # "message"
  BY <1>3
<1>. QED  BY <1>1, <1>3, <1>6, <1>7, <1>8, <1>9, <1>10, <1>11, <1>12, <1>13

LEMMA ConfigureHas ==
  ASSUME NEW e \in Events, e.k = "configure"
  PROVE  e.s \in Sizes
BY DEF Events

LEMMA MapOpen == OpenInv /\ Map => OpenInv'
<1>. SUFFICES ASSUME OpenInv, Map PROVE OpenInv'
  OBVIOUS
<1>. USE DEF OpenInv, None, Main, Worker, Broken
<1>1. Handling("map")
  BY DEF Map
<1>2. /\ StepInv' /\ LockInv' /\ CtxInv' /\ PathInv'
      /\ pc' \in {"drain", "unlock", "poll", "check", "get"}
      /\ UNCHANGED << plat, i, failed, lock, ctx, worker, then, back, sent, phy >>
      /\ Head(queue) \in Events /\ Head(queue).k = "map"
      /\ queue' \in Seq(Events) /\ \A j \in 1 .. Len(queue') : queue'[j] \in Events
      /\ \A j \in 2 .. Len(queue') : queue'[j].k # "message"
      /\ Waiting(queue') \in Nat /\ Waiting(queue) \in Nat
      /\ Waiting(queue') <= Waiting(queue) /\ Waiting(queue') + 1 = Waiting(queue)
  BY <1>1, HandledOpen
<1>3. SizeInv'
  BY <1>1, <1>2 DEF Map, Handling, size, SizeInv, TypeOK
<1>4. SentInv'
  BY <1>1, <1>2 DEF Map, Handling, size, input, SentInv, TypeOK
<1>5. TypeOK'
  <2>1. captured' \in BOOLEAN /\ depth' \in Nat /\ sent \in 0 .. MaxSent
    BY DEF Map, input, TypeOK
  <2>2. depth' \in 0 .. MaxSent
    BY <1>2, <1>4, <2>1, WindowLifeAssumption DEF SentInv
  <2>3. /\ seen' \in Sizes /\ laid' \in Sizes \cup {0} /\ need' \in BOOLEAN /\ stop' \in BOOLEAN
        /\ pressed' \subseteq AnyButton
    BY <1>2 DEF Map, size, input, TypeOK
  <2>. QED  BY <1>2, <2>1, <2>2, <2>3 DEF TypeOK
<1>. QED  BY <1>2, <1>3, <1>4, <1>5

LEMMA ConfigureOpen == OpenInv /\ Configure => OpenInv'
<1>. SUFFICES ASSUME OpenInv, Configure PROVE OpenInv'
  OBVIOUS
<1>. USE DEF OpenInv, None, Main, Worker, Broken
<1>1. Handling("configure")
  BY DEF Configure
<1>2. /\ StepInv' /\ LockInv' /\ CtxInv' /\ PathInv'
      /\ pc' \in {"drain", "unlock", "poll", "check", "get"}
      /\ UNCHANGED << plat, i, failed, lock, ctx, worker, then, back, sent, phy >>
      /\ Head(queue) \in Events /\ Head(queue).k = "configure"
      /\ queue' \in Seq(Events) /\ \A j \in 1 .. Len(queue') : queue'[j] \in Events
      /\ \A j \in 2 .. Len(queue') : queue'[j].k # "message"
      /\ Waiting(queue') \in Nat /\ Waiting(queue) \in Nat
      /\ Waiting(queue') <= Waiting(queue) /\ Waiting(queue') + 1 = Waiting(queue)
  BY <1>1, HandledOpen
<1>3. SizeInv'
  BY <1>1, <1>2 DEF Configure, Handling, size, SizeInv, TypeOK
<1>4. SentInv'
  BY <1>1, <1>2 DEF Configure, Handling, size, input, SentInv, TypeOK
<1>5. TypeOK'
  <2>1. captured' \in BOOLEAN /\ depth' \in Nat /\ sent \in 0 .. MaxSent
    BY DEF Configure, input, TypeOK
  <2>2. depth' \in 0 .. MaxSent
    BY <1>2, <1>4, <2>1, WindowLifeAssumption DEF SentInv
  <2>3. /\ seen' \in Sizes /\ laid' \in Sizes \cup {0} /\ need' \in BOOLEAN /\ stop' \in BOOLEAN
        /\ pressed' \subseteq AnyButton
    BY <1>2, ConfigureHas DEF Configure, size, input, TypeOK
  <2>. QED  BY <1>2, <2>1, <2>2, <2>3 DEF TypeOK
<1>. QED  BY <1>2, <1>3, <1>4, <1>5

LEMMA CloseAskedOpen == OpenInv /\ CaptureInv /\ CloseAsked => OpenInv'
<1>. SUFFICES ASSUME OpenInv, CaptureInv, CloseAsked PROVE OpenInv'
  OBVIOUS
<1>. USE DEF OpenInv, None, Main, Worker, Broken
<1>1. Handling("close")
  BY DEF CloseAsked
<1>2. /\ StepInv' /\ LockInv' /\ CtxInv' /\ PathInv'
      /\ pc' \in {"drain", "unlock", "poll", "check", "get"}
      /\ UNCHANGED << plat, i, failed, lock, ctx, worker, then, back, sent, phy >>
      /\ Head(queue) \in Events /\ Head(queue).k = "close"
      /\ queue' \in Seq(Events) /\ \A j \in 1 .. Len(queue') : queue'[j] \in Events
      /\ \A j \in 2 .. Len(queue') : queue'[j].k # "message"
      /\ Waiting(queue') \in Nat /\ Waiting(queue) \in Nat
      /\ Waiting(queue') <= Waiting(queue) /\ Waiting(queue') + 1 = Waiting(queue)
  BY <1>1, HandledOpen
<1>3. SizeInv'
  BY <1>1, <1>2 DEF CloseAsked, Stopping, StopsCapture, Handling, size, SizeInv, TypeOK
<1>4. SentInv'
  BY <1>1, <1>2 DEF CloseAsked, Stopping, StopsCapture, Handling, size, input, SentInv, TypeOK
<1>5. TypeOK'
  <2>1. captured' \in BOOLEAN /\ depth' \in Nat /\ sent \in 0 .. MaxSent
    BY CloseCapture DEF CaptureInv, TypeOK
  <2>2. depth' \in 0 .. MaxSent
    BY <1>2, <1>4, <2>1, WindowLifeAssumption DEF SentInv
  <2>3. /\ seen' \in Sizes /\ laid' \in Sizes \cup {0} /\ need' \in BOOLEAN /\ stop' \in BOOLEAN
        /\ pressed' \subseteq AnyButton
    BY <1>2 DEF CloseAsked, Stopping, StopsCapture, size, input, TypeOK
  <2>. QED  BY <1>2, <2>1, <2>2, <2>3 DEF TypeOK
<1>. QED  BY <1>2, <1>3, <1>4, <1>5

LEMMA ExposeOpen == OpenInv /\ Expose => OpenInv'
<1>. SUFFICES ASSUME OpenInv, Expose PROVE OpenInv'
  OBVIOUS
<1>. USE DEF OpenInv, None, Main, Worker, Broken
<1>1. Handling("expose")
  BY DEF Expose
<1>2. /\ StepInv' /\ LockInv' /\ CtxInv' /\ PathInv'
      /\ pc' \in {"drain", "unlock", "poll", "check", "get"}
      /\ UNCHANGED << plat, i, failed, lock, ctx, worker, then, back, sent, phy >>
      /\ Head(queue) \in Events /\ Head(queue).k = "expose"
      /\ queue' \in Seq(Events) /\ \A j \in 1 .. Len(queue') : queue'[j] \in Events
      /\ \A j \in 2 .. Len(queue') : queue'[j].k # "message"
      /\ Waiting(queue') \in Nat /\ Waiting(queue) \in Nat
      /\ Waiting(queue') <= Waiting(queue) /\ Waiting(queue') + 1 = Waiting(queue)
  BY <1>1, HandledOpen
<1>3. SizeInv'
  BY <1>1, <1>2 DEF Expose, Handling, size, SizeInv, TypeOK
<1>4. SentInv'
  BY <1>1, <1>2 DEF Expose, Handling, size, input, SentInv, TypeOK
<1>5. TypeOK'
  <2>1. captured' \in BOOLEAN /\ depth' \in Nat /\ sent \in 0 .. MaxSent
    BY DEF Expose, input, TypeOK
  <2>2. depth' \in 0 .. MaxSent
    BY <1>2, <1>4, <2>1, WindowLifeAssumption DEF SentInv
  <2>3. /\ seen' \in Sizes /\ laid' \in Sizes \cup {0} /\ need' \in BOOLEAN /\ stop' \in BOOLEAN
        /\ pressed' \subseteq AnyButton
    BY <1>2 DEF Expose, size, input, TypeOK
  <2>. QED  BY <1>2, <2>1, <2>2, <2>3 DEF TypeOK
<1>. QED  BY <1>2, <1>3, <1>4, <1>5

LEMMA OtherMessageOpen == OpenInv /\ OtherMessage => OpenInv'
<1>. SUFFICES ASSUME OpenInv, OtherMessage PROVE OpenInv'
  OBVIOUS
<1>. USE DEF OpenInv, None, Main, Worker, Broken
<1>1. Handling("message")
  BY DEF OtherMessage
<1>2. /\ StepInv' /\ LockInv' /\ CtxInv' /\ PathInv'
      /\ pc' \in {"drain", "unlock", "poll", "check", "get"}
      /\ UNCHANGED << plat, i, failed, lock, ctx, worker, then, back, sent, phy >>
      /\ Head(queue) \in Events /\ Head(queue).k = "message"
      /\ queue' \in Seq(Events) /\ \A j \in 1 .. Len(queue') : queue'[j] \in Events
      /\ \A j \in 2 .. Len(queue') : queue'[j].k # "message"
      /\ Waiting(queue') \in Nat /\ Waiting(queue) \in Nat
      /\ Waiting(queue') <= Waiting(queue)
  BY <1>1, HandledOpen
<1>3. SizeInv'
  BY <1>1, <1>2 DEF OtherMessage, Handling, size, SizeInv, TypeOK
<1>4. SentInv'
  BY <1>1, <1>2 DEF OtherMessage, Handling, size, input, SentInv, TypeOK
<1>5. TypeOK'
  <2>1. captured' \in BOOLEAN /\ depth' \in Nat /\ sent \in 0 .. MaxSent
    BY DEF OtherMessage, input, TypeOK
  <2>2. depth' \in 0 .. MaxSent
    BY <1>2, <1>4, <2>1, WindowLifeAssumption DEF SentInv
  <2>3. /\ seen' \in Sizes /\ laid' \in Sizes \cup {0} /\ need' \in BOOLEAN /\ stop' \in BOOLEAN
        /\ pressed' \subseteq AnyButton
    BY <1>2 DEF OtherMessage, size, input, TypeOK
  <2>. QED  BY <1>2, <2>1, <2>2, <2>3 DEF TypeOK
<1>. QED  BY <1>2, <1>3, <1>4, <1>5

LEMMA PressOpen == OpenInv /\ CaptureInv /\ Press => OpenInv'
<1>. SUFFICES ASSUME OpenInv, CaptureInv, Press PROVE OpenInv'
  OBVIOUS
<1>. USE DEF OpenInv, None, Main, Worker, Broken
<1>1. Handling("press")
  BY DEF Press
<1>2. /\ StepInv' /\ LockInv' /\ CtxInv' /\ PathInv'
      /\ pc' \in {"drain", "unlock", "poll", "check", "get"}
      /\ UNCHANGED << plat, i, failed, lock, ctx, worker, then, back, sent, phy >>
      /\ Head(queue) \in Events /\ Head(queue).k = "press"
      /\ queue' \in Seq(Events) /\ \A j \in 1 .. Len(queue') : queue'[j] \in Events
      /\ \A j \in 2 .. Len(queue') : queue'[j].k # "message"
      /\ Waiting(queue') \in Nat /\ Waiting(queue) \in Nat
      /\ Waiting(queue') <= Waiting(queue) /\ Waiting(queue') + 1 = Waiting(queue)
  BY <1>1, HandledOpen
<1>3. SizeInv'
  BY <1>1, <1>2 DEF Press, Stopping, StopsCapture, Handling, size, SizeInv, TypeOK
<1>4. SentInv'
  BY <1>1, <1>2 DEF Press, Stopping, StopsCapture, Handling, size, input, SentInv, TypeOK
<1>5. TypeOK'
  <2>1. captured' \in BOOLEAN /\ depth' \in Nat /\ sent \in 0 .. MaxSent
    BY PressCapture DEF CaptureInv, TypeOK
  <2>2. depth' \in 0 .. MaxSent
    BY <1>2, <1>4, <2>1, WindowLifeAssumption DEF SentInv
  <2>3. /\ seen' \in Sizes /\ laid' \in Sizes \cup {0} /\ need' \in BOOLEAN /\ stop' \in BOOLEAN
        /\ pressed' \subseteq AnyButton
    BY <1>2, ButtonEvents DEF Press, Stopping, StopsCapture, size, input, TypeOK
  <2>. QED  BY <1>2, <2>1, <2>2, <2>3 DEF TypeOK
<1>. QED  BY <1>2, <1>3, <1>4, <1>5

LEMMA ReleaseOpen == OpenInv /\ CaptureInv /\ Release => OpenInv'
<1>. SUFFICES ASSUME OpenInv, CaptureInv, Release PROVE OpenInv'
  OBVIOUS
<1>. USE DEF OpenInv, None, Main, Worker, Broken
<1>1. Handling("release")
  BY DEF Release
<1>2. /\ StepInv' /\ LockInv' /\ CtxInv' /\ PathInv'
      /\ pc' \in {"drain", "unlock", "poll", "check", "get"}
      /\ UNCHANGED << plat, i, failed, lock, ctx, worker, then, back, sent, phy >>
      /\ Head(queue) \in Events /\ Head(queue).k = "release"
      /\ queue' \in Seq(Events) /\ \A j \in 1 .. Len(queue') : queue'[j] \in Events
      /\ \A j \in 2 .. Len(queue') : queue'[j].k # "message"
      /\ Waiting(queue') \in Nat /\ Waiting(queue) \in Nat
      /\ Waiting(queue') <= Waiting(queue) /\ Waiting(queue') + 1 = Waiting(queue)
  BY <1>1, HandledOpen
<1>3. SizeInv'
  BY <1>1, <1>2 DEF Release, Stopping, StopsCapture, ReleasesCapture, Handling, size, SizeInv, TypeOK
<1>4. SentInv'
  BY <1>1, <1>2 DEF Release, Stopping, StopsCapture, ReleasesCapture, Handling, size, input, SentInv, TypeOK
<1>5. TypeOK'
  <2>1. captured' \in BOOLEAN /\ depth' \in Nat /\ sent \in 0 .. MaxSent
    BY ReleaseCapture DEF CaptureInv, TypeOK
  <2>2. depth' \in 0 .. MaxSent
    BY <1>2, <1>4, <2>1, WindowLifeAssumption DEF SentInv
  <2>3. /\ seen' \in Sizes /\ laid' \in Sizes \cup {0} /\ need' \in BOOLEAN /\ stop' \in BOOLEAN
        /\ pressed' \subseteq AnyButton
    BY <1>2, ButtonEvents DEF Release, Stopping, StopsCapture, ReleasesCapture, size, input, TypeOK
  <2>. QED  BY <1>2, <2>1, <2>2, <2>3 DEF TypeOK
<1>. QED  BY <1>2, <1>3, <1>4, <1>5

-------------------------------------------------------------------------------
\* An event that arrives.
LEMMA ArriveOpen ==
  ASSUME OpenInv, NEW e \in Events, e.k # "message", sent < MaxSent, sent' = sent + 1,
         queue' = Append(queue, e), UNCHANGED << pc, depth >>
  PROVE  /\ SentInv' /\ sent' \in 0 .. MaxSent
         /\ \A j \in 1 .. Len(queue') : queue'[j] \in Events
<1>. DEFINE q == queue
            n == Len(q)
<1>1. q \in Seq(Events) /\ n \in Nat /\ \A j \in 2 .. n : q[j].k # "message"
  BY LenProperties DEF OpenInv, SentInv
<1>2. /\ Append(q, e) \in Seq(Events) /\ Len(Append(q, e)) = n + 1
      /\ \A j \in 1 .. n : Append(q, e)[j] = q[j]
      /\ Append(q, e)[n + 1] = e
  BY <1>1, AppendProperties
<1>3. \A j \in 2 .. Len(queue') : queue'[j].k # "message"
  <2>. TAKE j \in 2 .. Len(queue')
  <2>1. j \in 2 .. n \/ j = n + 1
    BY <1>1, <1>2
  <2>. QED  BY <1>1, <1>2, <2>1
<1>4. \A j \in 1 .. Len(queue') : queue'[j] \in Events
  BY <1>2, ElementOfSeq
<1>5. Waiting(queue') = Waiting(queue) + 1
  <2>1. CASE n = 0
    <3>1. q = << >> /\ Append(q, e) # << >> /\ Head(Append(q, e)) = e
      BY <1>1, <1>2, <2>1, EmptySeq, HeadTailProperties
    <3>. QED  BY <1>2, <2>1, <3>1 DEF Waiting
  <2>2. CASE n > 0
    <3>1. q # << >> /\ Append(q, e) # << >> /\ Head(q) = q[1] /\ Head(Append(q, e)) = q[1]
      BY <1>1, <1>2, <2>2, EmptySeq, HeadTailProperties
    <3>. QED  BY <1>1, <1>2, <3>1 DEF Waiting
  <2>. QED  BY <1>1, <2>1, <2>2
<1>6. Waiting(queue) \in Int /\ sent \in 0 .. MaxSent /\ depth \in Nat
  BY <1>1 DEF Waiting, OpenInv, TypeOK
<1>7. depth' + Waiting(queue') <= sent' /\ sent' \in 0 .. MaxSent
  BY <1>5, <1>6, WindowLifeAssumption DEF OpenInv, SentInv
<1>. QED  BY <1>2, <1>3, <1>4, <1>7 DEF SentInv

LEMMA SystemSendsOpen == OpenInv /\ SystemSends => OpenInv'
<1>. SUFFICES ASSUME OpenInv, SystemSends PROVE OpenInv'
  OBVIOUS
<1>1. UNCHANGED << plat, main, lock, ctx, worker, then, back, seen, laid, need, stop, input >>
  BY DEF SystemSends
<1>2. \E e \in Events : e.k # "message" /\ queue' = Append(queue, e) /\ sent' = sent + 1 /\ sent < MaxSent
  <2>1. CASE Arrive([k |-> "map"])
    <3>1. [k |-> "map"] \in Events
      BY DEF Events
    <3>. QED  BY <2>1, <3>1 DEF Arrive
  <2>2. ASSUME NEW s \in Sizes, Arrive([k |-> "configure", s |-> s])
        PROVE  \E e \in Events : e.k # "message" /\ queue' = Append(queue, e) /\ sent' = sent + 1 /\ sent < MaxSent
    <3>1. [k |-> "configure", s |-> s] \in Events
      BY DEF Events
    <3>. QED  BY <2>2, <3>1 DEF Arrive
  <2>3. ASSUME NEW k \in {"close", "expose"}, Arrive([k |-> k])
        PROVE  \E e \in Events : e.k # "message" /\ queue' = Append(queue, e) /\ sent' = sent + 1 /\ sent < MaxSent
    <3>1. [k |-> k] \in Events
      BY DEF Events
    <3>. QED  BY <2>3, <3>1 DEF Arrive
  <2>4. ASSUME NEW b \in AnyButton, Arrive([k |-> IF b \in pressed THEN "release" ELSE "press", b |-> b])
        PROVE  \E e \in Events : e.k # "message" /\ queue' = Append(queue, e) /\ sent' = sent + 1 /\ sent < MaxSent
    <3>1. [k |-> IF b \in pressed THEN "release" ELSE "press", b |-> b] \in Events
      BY DEF Events
    <3>. QED  BY <2>4, <3>1 DEF Arrive
  <2>. QED  BY <2>1, <2>2, <2>3, <2>4 DEF SystemSends, AnyButton
<1>3. phy' \in Sizes
  BY DEF SystemSends, OpenInv, TypeOK
<1>4. SentInv' /\ sent' \in 0 .. MaxSent /\ \A j \in 1 .. Len(queue') : queue'[j] \in Events
  BY <1>1, <1>2, ArriveOpen DEF main, input
<1>5. TypeOK'
  BY <1>1, <1>3, <1>4 DEF OpenInv, TypeOK, main, input
<1>6. StepInv' /\ LockInv' /\ CtxInv' /\ SizeInv'
  BY <1>1 DEF OpenInv, StepInv, LockInv, LockedAt, CtxInv, SizeInv, main
<1>7. PathInv'
  <2>1. queue # << >> => queue' # << >>
    BY <1>2, AppendProperties DEF OpenInv, SentInv
  <2>. QED  BY <1>1, <2>1 DEF OpenInv, PathInv, main
<1>. QED  BY <1>4, <1>5, <1>6, <1>7 DEF OpenInv

LEMMA PointerMovesOpen == OpenInv /\ PointerMoves => OpenInv'
<1>. SUFFICES ASSUME OpenInv, PointerMoves PROVE OpenInv'
  OBVIOUS
<1>. DEFINE e == [k |-> "message"]
<1>1. e \in Events /\ e.k = "message"
  BY DEF Events
<1>. HIDE DEF e
<1>2. /\ queue' = << e >> /\ queue = << >>
      /\ UNCHANGED << plat, main, lock, ctx, worker, then, back, sent, size, stop, input >>
  BY DEF PointerMoves, e
<1>3. << e >> \in Seq(Events) /\ Len(<< e >>) = 1 /\ << e >>[1] = e /\ Head(<< e >>) = e /\ << e >> # << >>
  BY <1>1
<1>4. Waiting(queue') = 0 /\ Waiting(queue) = 0
  BY <1>1, <1>2, <1>3 DEF Waiting
<1>5. SentInv'
  BY <1>2, <1>3, <1>4 DEF OpenInv, SentInv, input
<1>6. \A j \in 1 .. Len(queue') : queue'[j] \in Events
  BY <1>1, <1>2, <1>3
<1>7. TypeOK'
  BY <1>2, <1>6 DEF OpenInv, TypeOK, main, size, input
<1>8. StepInv' /\ LockInv' /\ CtxInv' /\ SizeInv' /\ PathInv'
  BY <1>2 DEF OpenInv, StepInv, LockInv, LockedAt, CtxInv, SizeInv, PathInv, main, size
<1>. QED  BY <1>5, <1>7, <1>8 DEF OpenInv

-------------------------------------------------------------------------------
\* The way up and the way down.
LEMMA UpOpen ==
  ASSUME OpenInv, NEW here \in {"alloc", "open", "gl"}, NEW ladder, Len(ladder) \in 1 .. 30, NEW next,
         << here, next >> \in {<< "alloc", "open" >>, << "open", "gl" >>, << "gl", "opened" >>},
         Climb(here, ladder, next), UNCHANGED << lock, Rest >>
  PROVE  OpenInv'
<1>. USE DEF OpenInv, None, Main, Worker, Broken
<1>1. /\ pc = here /\ UNCHANGED << plat, lock, worker, then, back, queue, sent, size, stop, input >>
      /\ ctx' = IF pc' = "gl" THEN Main ELSE ctx
  BY DEF Climb, Rest
<1>2. /\ pc' \in {here, next, "abort", "free", "done"} /\ failed' \in {None, "alloc", "open", "gl"}
      /\ (pc' = "abort" => failed' = "gl")
      /\ i' \in 1 .. 30 /\ (pc' # here => i' = 1)
  <2>. DEFINE n == Len(ladder)
  <2>1. n \in 1 .. 30 /\ i \in 1 .. 30
    BY DEF StepInv
  <2>2. \/ /\ IF i < n THEN pc' = here /\ i' = i + 1 ELSE pc' = next /\ i' = 1
           /\ UNCHANGED failed
        \/ failed' = here /\ i' = 1 /\ pc' = AfterFailure(here)
    BY DEF Climb
  <2>. HIDE DEF n
  <2>3. CASE (IF i < n THEN pc' = here /\ i' = i + 1 ELSE pc' = next /\ i' = 1) /\ UNCHANGED failed
    <3>1. failed' = failed /\ failed \in {None, "alloc", "open", "gl"}
      BY <2>3 DEF TypeOK
    <3>2. (pc' = here /\ i' = i + 1 /\ i < n) \/ (pc' = next /\ i' = 1)
      BY <2>3
    <3>3. i' \in 1 .. 30 /\ (pc' # here => i' = 1) /\ pc' \in {here, next} /\ pc' # "abort"
      BY <2>1, <3>2
    <3>. QED  BY <3>1, <3>3
  <2>4. CASE failed' = here /\ i' = 1 /\ pc' = AfterFailure(here)
    BY <2>4 DEF AfterFailure
  <2>. QED  BY <2>2, <2>3, <2>4
<1>3. /\ pc' \in {"alloc", "open", "gl", "opened", "abort", "free", "done"}
      /\ 1 <= Len(FreeLadder(plat))
  BY <1>2, CloseStarts DEF TypeOK
<1>4. TypeOK'
  BY <1>1, <1>2, <1>3 DEF TypeOK, size, input
<1>5. StepInv'
  BY <1>1, <1>2, <1>3 DEF StepInv
<1>6. LockInv'
  BY <1>1, <1>2, <1>3 DEF LockInv, TypeOK
<1>7. CtxInv'
  BY <1>1, <1>3 DEF CtxInv, LockInv, TypeOK
<1>8. PathInv' /\ SizeInv'
  BY <1>1, <1>3 DEF PathInv, SizeInv, size
<1>9. SentInv'
  BY <1>1 DEF SentInv, input
<1>. QED  BY <1>4, <1>5, <1>6, <1>7, <1>8, <1>9

LEMMA DownOpen ==
  ASSUME OpenInv, NEW here \in {"abort", "close", "free"}, NEW ladder, Len(ladder) \in 1 .. 30,
         NEW next \in {"free", "done"}, Descend(here, ladder, next),
         /\ here = "close" => next = "free" /\ ladder = CloseLadder(plat)
         /\ here = "free" => next = "done" /\ ladder = FreeLadder(plat)
         /\ here = "abort" => next = "free"
  PROVE  OpenInv'
<1>. USE DEF OpenInv, None, Main, Worker, Broken
<1>. DEFINE n == Len(ladder)
<1>1. /\ pc = here /\ UNCHANGED << plat, failed, worker, then, back, queue, sent, size, stop, input >>
      /\ IF i < n THEN pc' = here /\ i' = i + 1 ELSE pc' = next /\ i' = 1
      /\ lock' = IF "locked" \notin ladder[i] THEN lock ELSE IF lock = Main THEN None ELSE Broken
      /\ ctx' = IF "ctx" \in ladder[i] THEN None ELSE ctx
      /\ held' = held \ ladder[i]
  BY DEF Descend, Rest
<1>2. n \in 1 .. 30 /\ i \in 1 .. 30 /\ plat \in Platforms /\ (here # "abort" => i \in 1 .. n)
  <2>1. n \in 1 .. 30
    OBVIOUS
  <2>2. i \in 1 .. 30 /\ plat \in Platforms
    BY DEF StepInv, TypeOK
  <2>3. here # "abort" => i <= n
    BY <1>1 DEF StepInv
  <2>. HIDE DEF n
  <2>. QED  BY <2>1, <2>2, <2>3
<1>3. here = "close" => /\ "locked" \in ladder[i] <=> i = LockedAt
                        /\ LockedAt < n
  BY <1>2, CloseLadderIs
<1>4. here = "free" => "locked" \notin ladder[i]
  BY <1>2, FreeLadderIs
<1>5. pc' = "free" => 1 <= Len(FreeLadder(plat))
  BY <1>2, CloseStarts
<1>6. here = "close" => n = Len(CloseLadder(plat))
  OBVIOUS
<1>7. here = "free" => n = Len(FreeLadder(plat))
  OBVIOUS
<1>. HIDE DEF n
<1>8. i' \in 1 .. 30 /\ pc' \in {here, next} /\ (pc' = here => i' = i + 1 /\ i + 1 <= n) /\ (pc' # here => i' = 1)
      /\ (pc' # here => i >= n)
  BY <1>1, <1>2
<1>9. /\ pc' \in {"abort", "close", "free", "done"}
      /\ lock' \in {None, Main, Worker, Broken} /\ ctx' \in {None, Main, Worker}
  BY <1>1, <1>8 DEF TypeOK
<1>10. TypeOK'
  BY <1>1, <1>8, <1>9 DEF TypeOK, size, input
<1>11. StepInv'
  <2>1. pc' = "close" => i' <= Len(CloseLadder(plat'))
    <3>1. pc' = "close" => i' <= n
      BY <1>8
    <3>. QED  BY <1>1, <1>6, <1>8, <3>1
  <2>2. pc' = "free" => i' <= Len(FreeLadder(plat'))
    <3>1. pc' = "free" /\ here = "free" => i' <= n
      BY <1>8
    <3>. QED  BY <1>1, <1>5, <1>7, <1>8, <3>1
  <2>. QED  BY <1>8, <1>9, <2>1, <2>2 DEF StepInv
<1>12. LockInv'
  <2>1. worker' = worker /\ worker = "idle" /\ lock # Worker /\ plat' = plat
    BY <1>1 DEF LockInv
  <2>2. CASE here = "close"
    <3>1. (lock = Main <=> i <= LockedAt) /\ LockedAt \in Nat /\ LockedAt' = LockedAt
      BY <1>1, <2>1, <2>2 DEF LockInv, LockedAt
    <3>2. CASE i = LockedAt
      <4>1. lock' = None /\ pc' = "close" /\ i' = i + 1
        BY <1>1, <1>2, <1>3, <2>2, <3>1, <3>2
      <4>. QED  BY <1>1, <2>1, <3>1, <3>2, <4>1 DEF LockInv
    <3>3. CASE i # LockedAt
      <4>1. lock' = lock
        BY <1>1, <1>3, <2>2, <3>3
      <4>2. CASE pc' = "close"
        <5>1. i' = i + 1
          BY <1>8, <2>2, <4>2
        <5>. QED  BY <1>1, <1>2, <2>1, <3>1, <3>3, <4>1, <4>2, <5>1 DEF LockInv
      <4>3. CASE pc' # "close"
        <5>1. pc' = "free" /\ i >= n
          BY <1>8, <2>2, <4>3
        <5>2. lock # Main
          BY <1>2, <1>3, <2>2, <3>1, <5>1
        <5>. QED  BY <1>1, <2>1, <4>1, <5>1, <5>2 DEF LockInv
      <4>. QED  BY <4>2, <4>3
    <3>. QED  BY <3>2, <3>3
  <2>3. CASE here = "free"
    <3>1. lock' = lock /\ pc' \in {"free", "done"}
      BY <1>1, <1>4, <1>8, <2>3
    <3>. QED  BY <1>1, <2>1, <2>3, <3>1 DEF LockInv
  <2>4. CASE here = "abort"
    <3>1. lock' \in {lock, None, Broken} /\ pc' \in {"abort", "free"} /\ failed = "gl" /\ lock # Main
      BY <1>1, <1>8, <2>4 DEF LockInv
    <3>. QED  BY <1>1, <2>1, <2>4, <3>1 DEF LockInv
  <2>. QED  BY <2>2, <2>3, <2>4
<1>13. CtxInv'
  <2>1. worker' = worker /\ worker = "idle" /\ lock # Worker /\ plat' = plat
    BY <1>1 DEF LockInv
  <2>2. lock' # Worker /\ (lock' = Main => pc' = "close")
    BY <1>12, <2>1, <1>9 DEF LockInv
  <2>3. pc' = "close" /\ "ctx" \in held' => ctx' = Main
    <3>1. pc' = "close" => pc = "close"
      BY <1>1, <1>8
    <3>. QED  BY <1>1, <3>1 DEF CtxInv
  <2>. QED  BY <1>9, <2>2, <2>3 DEF CtxInv
<1>14. PathInv' /\ SizeInv'
  BY <1>1, <1>9 DEF PathInv, SizeInv, size
<1>15. SentInv'
  BY <1>1 DEF SentInv, input
<1>. QED  BY <1>10, <1>11, <1>12, <1>13, <1>14, <1>15

-------------------------------------------------------------------------------
LEMMA InitOpen == Init => OpenInv
<1>. SUFFICES ASSUME Init PROVE OpenInv
  OBVIOUS
<1>. USE DEF None, Main, Worker, Broken
<1>1. phy \in Sizes /\ seen \in Sizes
  BY WindowLifeAssumption DEF Init
<1>2. queue = << >> /\ << >> \in Seq(Events) /\ Len(<< >>) = 0
  BY DEF Init
<1>3. TypeOK
  <2>1. failed = None /\ need \in BOOLEAN /\ stop \in BOOLEAN /\ captured \in BOOLEAN
    BY DEF Init
  <2>2. /\ pressed \subseteq AnyButton /\ depth \in 0 .. MaxSent /\ sent \in 0 .. MaxSent
        /\ laid \in Sizes \cup {0} /\ i \in 1 .. 30
        /\ \A k \in 1 .. Len(queue) : queue[k] \in Events
    BY <1>2, WindowLifeAssumption DEF Init
  <2>. QED  BY <1>1, <2>1, <2>2 DEF Init, TypeOK
<1>4. Waiting(queue) = 0
  BY <1>2 DEF Waiting
<1>5. SentInv
  BY <1>2, <1>4 DEF Init, SentInv
<1>6. StepInv /\ LockInv /\ CtxInv /\ PathInv /\ SizeInv
  BY DEF Init, StepInv, LockInv, CtxInv, PathInv, SizeInv, Platforms
<1>. QED  BY <1>3, <1>5, <1>6 DEF OpenInv

LEMMA ImpliesOpen == OpenInv => OpenSound
<1>. SUFFICES ASSUME OpenInv PROVE OpenSound
  OBVIOUS
<1>1. UnlockedByHolder
  BY DEF OpenInv, LockInv, UnlockedByHolder
<1>2. HolderIsCurrent
  BY DEF OpenInv, LockInv, CtxInv, HolderIsCurrent, None, Main, Worker
<1>3. FramesFit
  BY DEF OpenInv, SizeInv, FramesFit
<1>. QED  BY <1>1, <1>2, <1>3 DEF OpenInv, OpenSound

LEMMA NextOpen == OpenInv /\ CaptureInv /\ [Next]_vars => OpenInv'
<1>. SUFFICES ASSUME OpenInv, CaptureInv, [Next]_vars PROVE OpenInv'
  OBVIOUS
<1>0. plat \in Platforms
  BY DEF OpenInv, TypeOK
<1>1. CASE Alloc
  BY <1>0, <1>1, AllocLen, UpOpen DEF Alloc
<1>2. CASE OpenImpl
  BY <1>0, <1>2, OpenLen, UpOpen DEF OpenImpl
<1>3. CASE Open
  BY <1>3, GlLen, UpOpen DEF Open
<1>4. CASE Abort
  BY <1>0, <1>4, ImplCloseLen, DownOpen DEF Abort
<1>5. CASE Close
  BY <1>0, <1>5, CloseLadderIs, DownOpen DEF Close
<1>6. CASE Free
  BY <1>0, <1>6, FreeLadderIs, DownOpen DEF Free
<1>7. CASE Start \/ Fini \/ LockToClose \/ Check \/ LoopQuits
  BY <1>7, StartOpen, FiniOpen, LockToCloseOpen, CheckOpen, LoopQuitsOpen
<1>8. CASE FrameCb \/ NotDue \/ PollCb \/ NotReadable \/ Drained \/ Draw \/ Leave \/ Timer \/ Message
  BY <1>8, FrameCbOpen, NotDueOpen, PollCbOpen, NotReadableOpen, DrainedOpen, DrawOpen, LeaveOpen,
     TimerOpen, MessageOpen
<1>9. CASE Map \/ Configure \/ CloseAsked \/ Expose \/ OtherMessage \/ Press \/ Release
  BY <1>9, MapOpen, ConfigureOpen, CloseAskedOpen, ExposeOpen, OtherMessageOpen, PressOpen, ReleaseOpen
<1>10. CASE Wants \/ WorkerLock \/ WorkerUnlock
  BY <1>10, WantsOpen, WorkerLockOpen, WorkerUnlockOpen
<1>11. CASE SystemSends \/ LoseCapture \/ PointerMoves
  BY <1>11, SystemSendsOpen, LoseCaptureOpen, PointerMovesOpen
<1>12. CASE Ended
  BY <1>12, EndedOpen
<1>13. CASE UNCHANGED vars
  BY <1>13 DEF vars, main, size, input, OpenInv, TypeOK, StepInv, LockInv, LockedAt, CtxInv, PathInv, SizeInv, SentInv
<1>. QED  BY <1>1, <1>2, <1>3, <1>4, <1>5, <1>6, <1>7, <1>8, <1>9, <1>10, <1>11, <1>12, <1>13 DEF Next, MainStep

\* Of an open window, for any sizes, buttons and number of events, on every
\* platform and however the two threads take turns: the mutex is released by the
\* thread that holds it, which has the GL context, and a frame shows the layout
\* of the size it is drawn at (window.c, x11-xcb/window.c, x11-xcb/event.c,
\* win/event.c).
THEOREM OpenIsSound == Spec => []OpenSound
<1>1. Spec => Init /\ [][Next]_vars
  BY DEF Spec
<1>. QED  BY <1>1, InitCapture, NextCapture, InitOpen, NextOpen, ImpliesOpen, PTL

-------------------------------------------------------------------------------
\* What the steps of the way up up to one have given and dropped, and what the
\* releases of the way down from one on release.
Gave(l, n) == UNION {l[k].gives : k \in 1 .. n}
Shed(l, n) == UNION {l[k].drops : k \in 1 .. n}
Ahead(l, n) == UNION {l[k] : k \in n .. Len(l)}

\* What an open window holds: what outlasts the window, what is the platform's
\* and what is drawn with.
Kept ==
  CASE plat = "x11" -> {"rtb", "dpy", "xkb_ctx", "xkb_keymap", "xkb_state", "clip_conn", "clip_win", "empty_cursor",
                        "types", "uv_loop"}
    [] plat = "win" -> {"rtb", "ole32", "dpi_libs", "types", "uv_loop"}
    [] plat = "cocoa" -> {"rtb", "invisible_cursor", "types", "uv_loop"}
Own ==
  CASE plat = "x11" -> {"window", "cursor_ctx", "egl_dpy", "ctx", "colormap", "xcb_win", "egl_surface", "lock"}
    [] plat = "win" -> {"window", "window_class", "hwnd", "dc", "ctx", "lock"}
    [] plat = "cocoa" -> {"window", "lock", "view", "pixel_format", "ctx", "title", "cocoa_win"}
Drawn == {"surface", "style_list", "style_fonts", "dfault", "surface_shader", "stylequad", "quad_solid",
          "quad_outline", "border", "solid", "outline", "fonts", "vao", "overlay"}
Full == Kept \cup Own \cup Drawn

\* What window_impl_close and rtb_free release, and the timer that a loop on
\* Windows leaves when it quits.
Closed ==
  CASE plat = "x11" -> {"window", "cursor_ctx", "egl_dpy", "ctx", "xcb_win", "egl_surface", "lock"}
    [] plat = "win" -> {"window", "window_class", "hwnd", "frame_timer", "dc", "ctx", "lock"}
    [] plat = "cocoa" -> {"window", "lock", "view", "ctx", "cocoa_win"}
Freed ==
  CASE plat = "x11" -> {"rtb", "dpy", "xkb_ctx", "xkb_keymap", "xkb_state", "clip_conn", "clip_win", "empty_cursor",
                        "types", "uv_loop", "colormap"}
    [] plat = "win" -> {"rtb", "ole32", "types", "uv_loop"}
    [] plat = "cocoa" -> {"rtb", "invisible_cursor", "types", "uv_loop"}
Spare == IF plat = "win" THEN {"frame_timer"} ELSE {}

\* What leaks where that part of the way up fails.
LeaksOf(part) == Everytime[plat] \cup Overlooked[part][plat]
Loose == {"surface", "style_list", "style_fonts"}

LEMMA LeaksAre ==
  /\ KnownLeaks = LeaksOf(failed)
  /\ plat = "x11" => /\ LeaksOf("alloc") = {"xkb_ctx", "clip_conn"}
                     /\ LeaksOf("open") = {"cursor_ctx", "ctx", "egl_surface"}
                     /\ LeaksOf("gl") = Loose
  /\ plat = "win" => /\ \A part : "dpi_libs" \in LeaksOf(part)
                     /\ LeaksOf("open") = {"dpi_libs", "trampoline"} /\ Loose \subseteq LeaksOf("gl")
  /\ plat = "cocoa" => /\ \A part : {"pixel_format", "title"} \subseteq LeaksOf(part)
                       /\ LeaksOf("open") = {"pixel_format", "title", "view", "ctx"}
                       /\ Loose \subseteq LeaksOf("gl")
<1>1. /\ Everytime["x11"] = {} /\ Everytime["win"] = {"dpi_libs"}
      /\ Everytime["cocoa"] = {"pixel_format", "title"}
  BY DEF Everytime
<1>2. /\ Overlooked["alloc"]["x11"] = {"xkb_ctx", "clip_conn"}
      /\ Overlooked["open"]["x11"] = {"cursor_ctx", "ctx", "egl_surface"}
      /\ Overlooked["open"]["win"] = {"trampoline"} /\ Overlooked["open"]["cocoa"] = {"view", "ctx"}
      /\ Overlooked["gl"]["x11"] = Loose /\ Overlooked["gl"]["win"] = Loose /\ Overlooked["gl"]["cocoa"] = Loose
  BY DEF Overlooked, Loose
<1>3. KnownLeaks = LeaksOf(failed)
  BY DEF KnownLeaks, LeaksOf
<1>4. CASE plat = "x11"
  BY <1>1, <1>2, <1>3, <1>4 DEF LeaksOf
<1>5. CASE plat = "win"
  BY <1>1, <1>2, <1>3, <1>5 DEF LeaksOf
<1>6. CASE plat = "cocoa"
  BY <1>1, <1>2, <1>3, <1>6 DEF LeaksOf
<1>. QED  BY <1>3, <1>4, <1>5, <1>6

LEMMA LeaksNext == plat' = plat => KnownLeaks' = LeaksOf(failed')
BY DEF KnownLeaks, LeaksOf, Everytime, Overlooked

\* Each step gives what lives on what was there or has been given.
Grounded(l, base) ==
  \A k \in 1 .. Len(l) : \A r \in l[k].gives : LivesOn(plat, r) \subseteq base \cup Gave(l, k)

LEMMA FirstsAre ==
  /\ Firsts(Shaders, 0) = {} /\ Firsts(Shaders, 1) = {"dfault"} /\ Firsts(Shaders, 2) = {"dfault", "surface_shader"}
  /\ Firsts(Shaders, 3) = {"dfault", "surface_shader", "stylequad"}
  /\ Firsts(Ibos, 0) = {} /\ Firsts(Ibos, 1) = {"quad_solid"} /\ Firsts(Ibos, 2) = {"quad_solid", "quad_outline"}
  /\ Firsts(Ibos, 3) = {"quad_solid", "quad_outline", "border"}
  /\ Firsts(Ibos, 4) = {"quad_solid", "quad_outline", "border", "solid"}
  /\ Firsts(Ibos, 5) = {"quad_solid", "quad_outline", "border", "solid", "outline"}
<1>. DEFINE s == Shaders
            t == Ibos
<1>1. s[1] = "dfault" /\ s[2] = "surface_shader" /\ s[3] = "stylequad"
  BY DEF Shaders
<1>2. t[1] = "quad_solid" /\ t[2] = "quad_outline" /\ t[3] = "border" /\ t[4] = "solid" /\ t[5] = "outline"
  BY DEF Ibos
<1>3. /\ Firsts(s, 0) = {} /\ Firsts(s, 1) = {s[1]} /\ Firsts(s, 2) = {s[1], s[2]}
      /\ Firsts(s, 3) = {s[1], s[2], s[3]}
  BY DEF Firsts
<1>4. /\ Firsts(t, 0) = {} /\ Firsts(t, 1) = {t[1]} /\ Firsts(t, 2) = {t[1], t[2]}
      /\ Firsts(t, 3) = {t[1], t[2], t[3]} /\ Firsts(t, 4) = {t[1], t[2], t[3], t[4]}
      /\ Firsts(t, 5) = {t[1], t[2], t[3], t[4], t[5]}
  BY DEF Firsts
<1>. QED  BY <1>1, <1>2, <1>3, <1>4

LEMMA LivesOnIs ==
  /\ \A r \in Drawn : LivesOn(plat, r) \subseteq {"ctx", "window"}
  /\ \A r \in {"style_list", "style_fonts", "cursor_ctx", "lock", "view", "window_class", "cocoa_win", "wtitle"} :
       LivesOn(plat, r) = {"window"}
  /\ LivesOn(plat, "window") = {"rtb"}
  /\ LivesOn(plat, "egl_dpy") = {"dpy", "window"}
  /\ plat = "x11" => LivesOn(plat, "ctx") = {"egl_dpy"}
  /\ plat = "win" => LivesOn(plat, "ctx") = {"dc"}
  /\ plat = "cocoa" => LivesOn(plat, "ctx") = {"window"}
  /\ LivesOn(plat, "egl_surface") = {"egl_dpy", "xcb_win"}
  /\ LivesOn(plat, "xcb_win") = {"dpy", "window"}
  /\ LivesOn(plat, "trampoline") = {"dc"}
  /\ LivesOn(plat, "dc") = {"hwnd"}
  /\ LivesOn(plat, "hwnd") = {"window_class", "window"}
  /\ \A r \in {"colormap", "empty_cursor"} : LivesOn(plat, r) = {"dpy"}
  /\ LivesOn(plat, "clip_win") = {"clip_conn"}
  /\ \A r \in {"xcb_poll", "observer"} : LivesOn(plat, r) = {"uv_loop", "window"}
  /\ LivesOn(plat, "frame_timer") = IF plat = "win" THEN {"hwnd"} ELSE {"uv_loop", "window"}
  /\ \A r \in {"dpy", "xkb_ctx", "xkb_keymap", "xkb_state", "clip_conn", "uv_loop", "types", "ole32",
               "invisible_cursor"} : LivesOn(plat, r) = {"rtb"}
  /\ LivesOn(plat, "rtb") = {}
  /\ \A r \in {"dpi_libs", "title", "pixel_format"} : LivesOn(plat, r) = {}
<1>1. GlObjects = {"dfault", "surface_shader", "stylequad", "quad_solid", "quad_outline", "border", "solid", "outline",
                   "fonts", "vao", "overlay", "surface"}
  BY FirstsAre DEF GlObjects
<1>2. Drawn = GlObjects \cup {"style_list", "style_fonts"}
  BY <1>1 DEF Drawn
<1>. QED  BY <1>1, <1>2, SMTT(60) DEF LivesOn

LEMMA GaveStep ==
  ASSUME NEW l, NEW n \in Nat
  PROVE  /\ Gave(l, 0) = {} /\ Gave(l, n + 1) = Gave(l, n) \cup l[n + 1].gives
         /\ Shed(l, 0) = {} /\ Shed(l, n + 1) = Shed(l, n) \cup l[n + 1].drops
         /\ \A m \in 0 .. n : Gave(l, m) \subseteq Gave(l, n)
BY DEF Gave, Shed

LEMMA AheadStep ==
  ASSUME NEW l, Len(l) \in Nat, NEW n \in 1 .. Len(l)
  PROVE  Ahead(l, n) = l[n] \cup Ahead(l, n + 1) /\ Ahead(l, Len(l) + 1) = {}
BY DEF Ahead

\* One that is given by a step is there from it on.
LEMMA GaveAt ==
  ASSUME NEW l, NEW k \in Nat, NEW j \in 1 .. k, NEW r \in l[j].gives
  PROVE  r \in Gave(l, k)
BY DEF Gave

\* rtb_new gives what outlasts the window, and leaves what is known to leak
\* where it fails.
LEMMA AllocGives ==
  ASSUME plat \in Platforms
  PROVE  /\ Gave(AllocLadder(plat), Len(AllocLadder(plat))) = Kept
         /\ \A k \in 1 .. Len(AllocLadder(plat)) : AllocLadder(plat)[k].fails =>
              Gave(AllocLadder(plat), k - 1) \ AllocLadder(plat)[k].undo \subseteq LeaksOf("alloc")
<1>. DEFINE l == AllocLadder(plat)
<1>1. CASE plat = "x11"
  <2>1. Len(l) = 12 /\ Gave(l, 12) = Kept
    BY <1>1, X11AllocIs DEF Gave, Kept, May, Sure
  <2>2. ASSUME NEW k \in 1 .. 12, l[k].fails, NEW j \in 1 .. k - 1, NEW r \in l[j].gives
        PROVE  r \in {"xkb_ctx", "clip_conn"} \cup l[k].undo
    BY <1>1, <2>2, X11AllocIs DEF May, Sure
  <2>3. \A k \in 1 .. 12 : l[k].fails => Gave(l, k - 1) \ l[k].undo \subseteq LeaksOf("alloc")
    BY <1>1, <2>2, LeaksAre DEF Gave
  <2>. QED  BY <2>1, <2>3
<1>2. CASE plat = "win"
  <2>1. Len(l) = 4 /\ Gave(l, 4) = Kept /\ \A k \in 1 .. 4 : ~l[k].fails
    BY <1>2, WinAllocIs DEF Gave, Kept, Sure
  <2>. QED  BY <2>1
<1>3. CASE plat = "cocoa"
  <2>1. Len(l) = 3 /\ Gave(l, 3) = Kept /\ \A k \in 1 .. 3 : ~l[k].fails
    BY <1>3, CocoaAllocIs DEF Gave, Kept, Sure
  <2>. QED  BY <2>1
<1>. QED BY <1>1, <1>2, <1>3 DEF Platforms

LEMMA AllocGrounded ==
  ASSUME plat \in Platforms
  PROVE  /\ Grounded(AllocLadder(plat), {})
         /\ \A k \in 1 .. Len(AllocLadder(plat)) : AllocLadder(plat)[k].drops = {}
<1>. DEFINE l == AllocLadder(plat)
<1>1. CASE plat = "x11"
  <2>1. Len(l) = 12 /\ \A k \in 1 .. 12 : l[k].drops = {}
    BY <1>1, X11AllocIs DEF May, Sure
  <2>3. /\ \A k \in 1 .. 12 : k >= 1 => "rtb" \in Gave(l, k)
        /\ \A k \in 1 .. 12 : k >= 2 => "dpy" \in Gave(l, k)
        /\ \A k \in 1 .. 12 : k >= 8 => "clip_conn" \in Gave(l, k)
    BY <1>1, X11AllocIs, GaveAt DEF May, Sure
  <2>2. Grounded(l, {})
    <3>. SUFFICES ASSUME NEW k \in 1 .. 12, NEW r \in l[k].gives PROVE LivesOn(plat, r) \subseteq Gave(l, k)
      BY <2>1 DEF Grounded
    <3>1. \/ r = "rtb" \/ (r = "dpy" /\ k >= 1) \/ (r = "clip_win" /\ k >= 8) \/ (r = "empty_cursor" /\ k >= 2)
          \/ r \in {"xkb_ctx", "xkb_keymap", "xkb_state", "clip_conn", "types", "uv_loop"} /\ k >= 1
      BY <1>1, X11AllocIs DEF May, Sure
    <3>. QED  BY <2>3, <3>1, LivesOnIs
  <2>. QED BY <1>1, <2>1, <2>2, X11AllocIs
<1>2. CASE plat = "win"
  <2>1. Len(l) = 4 /\ \A k \in 1 .. 4 : l[k].drops = {} /\ "rtb" \in Gave(l, k)
    BY <1>2, WinAllocIs, GaveAt DEF Sure
  <2>2. \A k \in 1 .. 4 : \A r \in l[k].gives : LivesOn(plat, r) \subseteq {"rtb"}
    BY <1>2, WinAllocIs, LivesOnIs DEF Sure
  <2>. QED BY <2>1, <2>2 DEF Grounded
<1>3. CASE plat = "cocoa"
  <2>1. Len(l) = 3 /\ \A k \in 1 .. 3 : l[k].drops = {} /\ "rtb" \in Gave(l, k)
    BY <1>3, CocoaAllocIs, GaveAt DEF Sure
  <2>2. \A k \in 1 .. 3 : \A r \in l[k].gives : LivesOn(plat, r) \subseteq {"rtb"}
    BY <1>3, CocoaAllocIs, LivesOnIs DEF Sure
  <2>. QED BY <2>1, <2>2 DEF Grounded
<1>. QED BY <1>1, <1>2, <1>3 DEF Platforms

-------------------------------------------------------------------------------
\* What rtb_window_open's first part gives and drops again, and what of it a
\* failure leaves.
Reopens(l) ==
  /\ \A k \in 1 .. Len(l) : l[k].gives \cap Shed(l, k - 1) = {}
  /\ Shed(l, Len(l)) \subseteq {"trampoline", "wtitle"}
  /\ (Kept \cup Gave(l, Len(l))) \ Shed(l, Len(l)) = Kept \cup Own
  /\ \A k \in 1 .. Len(l) : l[k].fails =>
       /\ Kept \cap l[k].undo = {}
       /\ Gave(l, k - 1) \ l[k].undo \subseteq Freed \cup LeaksOf("open")

LEMMA ShedIn ==
  ASSUME NEW l, NEW k \in Nat, NEW m \in 0 .. k
  PROVE  Shed(l, m) \subseteq Shed(l, k) /\ Gave(l, m) \subseteq Gave(l, k)
BY DEF Shed, Gave

\* One lemma for each platform's ladder.
LEMMA X11Opens ==
  ASSUME plat = "x11"
  PROVE  Grounded(OpenLadder(plat), Kept) /\ Reopens(OpenLadder(plat))
<1>. DEFINE l == OpenLadder(plat)
<1>1. Len(l) = 13 /\ \A k \in 1 .. 13 : l[k].drops = {}
  BY X11OpenIs DEF May, Sure
<1>2. \A k \in 0 .. 13 : Shed(l, k) = {}
  BY <1>1 DEF Shed
<1>3. \A k \in 1 .. 13 : /\ "window" \in Gave(l, k)
                         /\ k >= 5 => "egl_dpy" \in Gave(l, k)
                         /\ k >= 9 => "xcb_win" \in Gave(l, k)
  BY X11OpenIs, GaveAt DEF May, Sure
<1>4. {"rtb", "dpy"} \subseteq Kept
  BY DEF Kept
<1>5. Grounded(l, Kept)
  <2>. SUFFICES ASSUME NEW k \in 1 .. 13, NEW r \in l[k].gives PROVE LivesOn(plat, r) \subseteq Kept \cup Gave(l, k)
    BY <1>1 DEF Grounded
  <2>1. r \in {"window", "cursor_ctx", "egl_dpy", "colormap", "xcb_win", "lock"} \/ (r = "ctx" /\ k >= 5)
        \/ (r = "egl_surface" /\ k >= 9)
    BY X11OpenIs DEF May, Sure
  <2>. QED  BY <1>3, <1>4, <2>1, LivesOnIs
<1>6. Gave(l, 13) = Own
  BY X11OpenIs DEF Gave, Own, May, Sure
<1>7. ASSUME NEW k \in 1 .. 13, l[k].fails, NEW j \in 1 .. k - 1, NEW r \in l[j].gives
      PROVE  r \in {"cursor_ctx", "ctx", "egl_surface", "colormap"} \cup l[k].undo
  BY <1>7, X11OpenIs DEF May, Sure, Egl
<1>8. "colormap" \in Freed /\ LeaksOf("open") = {"cursor_ctx", "ctx", "egl_surface"}
  BY LeaksAre DEF Freed
<1>9. \A k \in 1 .. 13 : l[k].fails => Gave(l, k - 1) \ l[k].undo \subseteq Freed \cup LeaksOf("open")
  BY <1>7, <1>8 DEF Gave
<1>10. \A k \in 1 .. 13 : Shed(l, k - 1) = {}
  BY <1>2
<1>12. \A k \in 1 .. 13 : l[k].fails => Kept \cap l[k].undo = {}
  BY X11OpenIs DEF May, Sure, Egl, Kept
<1>11. Reopens(l)
  <2>1. \A k \in 1 .. 13 : l[k].gives \cap Shed(l, k - 1) = {}
    BY <1>10
  <2>2. Shed(l, 13) = {} /\ (Kept \cup Gave(l, 13)) \ Shed(l, 13) = Kept \cup Own
    BY <1>2, <1>6
  <2>. QED  BY <1>1, <1>9, <1>12, <2>1, <2>2, Zenon DEF Reopens
<1>. QED  BY <1>5, <1>11

LEMMA CocoaOpens ==
  ASSUME plat = "cocoa"
  PROVE  Grounded(OpenLadder(plat), Kept) /\ Reopens(OpenLadder(plat))
<1>. DEFINE l == OpenLadder(plat)
<1>1. Len(l) = 7 /\ \A k \in 1 .. 7 : l[k].drops = {}
  BY CocoaOpenIs DEF May, Sure
<1>2. \A k \in 0 .. 7 : Shed(l, k) = {}
  BY <1>1 DEF Shed
<1>3. \A k \in 1 .. 7 : "window" \in Gave(l, k)
  BY CocoaOpenIs, GaveAt DEF May, Sure
<1>4. "rtb" \in Kept
  BY DEF Kept
<1>5. Grounded(l, Kept)
  <2>. SUFFICES ASSUME NEW k \in 1 .. 7, NEW r \in l[k].gives PROVE LivesOn(plat, r) \subseteq Kept \cup Gave(l, k)
    BY <1>1 DEF Grounded
  <2>1. r \in {"window", "lock", "view", "pixel_format", "ctx", "title", "cocoa_win"}
    BY CocoaOpenIs DEF May, Sure
  <2>. QED  BY <1>3, <1>4, <2>1, LivesOnIs
<1>6. Gave(l, 7) = Own
  BY CocoaOpenIs DEF Gave, Own, May, Sure
<1>7. ASSUME NEW k \in 1 .. 7, l[k].fails, NEW j \in 1 .. k - 1, NEW r \in l[j].gives
      PROVE  r \in {"pixel_format", "title", "view", "ctx"} \cup l[k].undo
  BY <1>7, CocoaOpenIs DEF May, Sure
<1>8. LeaksOf("open") = {"pixel_format", "title", "view", "ctx"}
  BY LeaksAre
<1>9. \A k \in 1 .. 7 : l[k].fails => Gave(l, k - 1) \ l[k].undo \subseteq Freed \cup LeaksOf("open")
  BY <1>7, <1>8 DEF Gave
<1>10. \A k \in 1 .. 7 : Shed(l, k - 1) = {}
  BY <1>2
<1>12. \A k \in 1 .. 7 : l[k].fails => Kept \cap l[k].undo = {}
  BY CocoaOpenIs DEF May, Sure, Kept
<1>11. Reopens(l)
  <2>1. \A k \in 1 .. 7 : l[k].gives \cap Shed(l, k - 1) = {}
    BY <1>10
  <2>2. Shed(l, 7) = {} /\ (Kept \cup Gave(l, 7)) \ Shed(l, 7) = Kept \cup Own
    BY <1>2, <1>6
  <2>. QED  BY <1>1, <1>9, <1>12, <2>1, <2>2, Zenon DEF Reopens
<1>. QED  BY <1>5, <1>11

LEMMA WinOpens ==
  ASSUME plat = "win"
  PROVE  Grounded(OpenLadder(plat), Kept) /\ Reopens(OpenLadder(plat))
<1>. DEFINE l == OpenLadder(plat)
<1>. USE DEF WinClass, WinWindow, May, Sure, Swap
<1>1. Len(l) = 10 /\ (\A k \in 1 .. 8 : l[k].drops = {}) /\ l[9].drops = {"trampoline"} /\ l[10].drops = {"wtitle"}
  BY WinOpenIs
<1>2. (\A k \in 0 .. 8 : Shed(l, k) = {}) /\ Shed(l, 9) = {"trampoline"} /\ Shed(l, 10) = {"trampoline", "wtitle"}
  BY <1>1 DEF Shed
<1>3. \A k \in 1 .. 10 : /\ "window" \in Gave(l, k)
                         /\ k >= 3 => "window_class" \in Gave(l, k)
                         /\ k >= 4 => "hwnd" \in Gave(l, k)
                         /\ k >= 5 => "dc" \in Gave(l, k)
  BY WinOpenIs, GaveAt
<1>4. "rtb" \in Kept
  BY DEF Kept
<1>5. Grounded(l, Kept)
  <2>. SUFFICES ASSUME NEW k \in 1 .. 10, NEW r \in l[k].gives PROVE LivesOn(plat, r) \subseteq Kept \cup Gave(l, k)
    BY <1>1 DEF Grounded
  <2>1. r \in {"window", "wtitle", "window_class", "lock"} \/ (r = "hwnd" /\ k >= 4)
        \/ (r \in {"dc", "trampoline", "ctx"} /\ k >= 5)
    BY WinOpenIs
  <2>. QED  BY <1>3, <1>4, <2>1, LivesOnIs
<1>6. Gave(l, 10) = Own \cup {"trampoline", "wtitle"} /\ l[9].gives = {"ctx"} /\ l[10].gives = {"lock"}
  BY WinOpenIs DEF Gave, Own
<1>7. ASSUME NEW k \in 1 .. 10, l[k].fails, NEW j \in 1 .. k - 1, NEW r \in l[j].gives
      PROVE  r \in {"trampoline"} \cup l[k].undo
  BY <1>7, WinOpenIs
<1>8. "trampoline" \in LeaksOf("open")
  BY LeaksAre
<1>9. \A k \in 1 .. 10 : l[k].fails => Gave(l, k - 1) \ l[k].undo \subseteq Freed \cup LeaksOf("open")
  BY <1>7, <1>8 DEF Gave
<1>10. "trampoline" \notin Kept \cup Own /\ "wtitle" \notin Kept \cup Own
  BY DEF Kept, Own
<1>11. \A k \in 1 .. 10 : l[k].gives \cap Shed(l, k - 1) = {}
  BY <1>2, <1>6
<1>12. (Kept \cup Gave(l, 10)) \ Shed(l, 10) = Kept \cup Own
  BY <1>2, <1>6, <1>10
<1>14. \A k \in 1 .. 10 : l[k].fails => Kept \cap l[k].undo = {}
  BY WinOpenIs DEF Kept
<1>13. Reopens(l)
  BY <1>1, <1>2, <1>9, <1>11, <1>12, <1>14 DEF Reopens
<1>. QED  BY <1>5, <1>13

\* What is dropped on the way up is what nothing lives on.
LEMMA ShedUnneeded ==
  ASSUME plat \in Platforms, NEW r
  PROVE  "trampoline" \notin LivesOn(plat, r) /\ "wtitle" \notin LivesOn(plat, r)
BY SMTT(60) DEF LivesOn, Platforms

LEMMA OpenGives ==
  ASSUME plat \in Platforms
  PROVE  Grounded(OpenLadder(plat), Kept) /\ Reopens(OpenLadder(plat))
BY X11Opens, WinOpens, CocoaOpens DEF Platforms

\* What a failure of the rest of rtb_window_open leaves of what it gave.
LEMMA GlGives ==
  /\ Len(GlLadder) = 14 /\ Gave(GlLadder, 14) = Drawn
  /\ \A k \in 1 .. 14 : GlLadder[k].drops = {} /\ GlLadder[k].gives \subseteq Drawn
  /\ \A k \in 1 .. 14 : GlLadder[k].fails =>
       Gave(GlLadder, k - 1) \ GlLadder[k].undo \subseteq Loose /\ GlLadder[k].undo \subseteq Drawn
<1>. DEFINE l == GlLadder
<1>1. \A k \in 1 .. 14 : l[k].drops = {}
  BY GlIs DEF May, Sure
<1>2. \A k \in 1 .. 14 : l[k].gives \subseteq Drawn
  BY GlIs DEF May, Sure, Drawn
<1>3. Gave(l, 14) = Drawn
  BY GlIs DEF Gave, May, Sure, Drawn
<1>4. ASSUME NEW k \in 1 .. 14, l[k].fails PROVE l[k].undo \subseteq Drawn
  BY <1>4, GlIs, FirstsAre DEF May, Sure, Drawn
<1>5. ASSUME NEW k \in 1 .. 14, l[k].fails, NEW j \in 1 .. k - 1, NEW r \in l[j].gives
      PROVE  r \in Loose \cup l[k].undo
  BY <1>5, GlIs, FirstsAre DEF May, Sure, Loose
<1>6. \A k \in 1 .. 14 : l[k].fails => Gave(l, k - 1) \ l[k].undo \subseteq Loose
  BY <1>5 DEF Gave
<1>. QED  BY <1>1, <1>2, <1>3, <1>4, <1>6, GlIs

\* What is released in turn: each thing once, and before what it lives on, of
\* which more may be released after.
Orderly(l, after) ==
  /\ \A j, k \in 1 .. Len(l) : j # k => l[j] \cap l[k] = {}
  /\ \A k \in 1 .. Len(l) : l[k] \cap after = {}
  /\ \A k \in 1 .. Len(l) : \A r \in l[k] \ {"locked"} :
       LivesOn(plat, r) \subseteq (Ahead(l, k) \ {"locked"}) \cup after

LEMMA AheadAt ==
  ASSUME NEW l, Len(l) \in Nat, NEW k \in 1 .. Len(l), NEW j \in k .. Len(l), NEW r \in l[j]
  PROVE  r \in Ahead(l, k)
BY DEF Ahead

LEMMA X11Frees ==
  ASSUME plat = "x11"
  PROVE  /\ Orderly(FreeLadder(plat), {}) /\ Ahead(FreeLadder(plat), 1) = Freed
         /\ Len(FreeLadder(plat)) \in Nat \ {0}
<1>. DEFINE l == FreeLadder(plat)
<1>1. Len(l) = 10
  BY X11FreeIs
<1>2. Ahead(l, 1) = Freed
  BY X11FreeIs DEF Ahead, Freed
<1>3. ASSUME NEW j \in 1 .. 10, NEW k \in 1 .. 10, NEW r \in l[j], r \in l[k] PROVE j = k
  BY <1>3, X11FreeIs
<1>4. /\ \A k \in 1 .. 10 : "rtb" \in Ahead(l, k) \ {"locked"}
      /\ \A k \in 1 .. 9 : "dpy" \in Ahead(l, k) \ {"locked"}
      /\ \A k \in 1 .. 4 : "clip_conn" \in Ahead(l, k) \ {"locked"}
  BY X11FreeIs, AheadAt
<1>5. ASSUME NEW k \in 1 .. 10, NEW r \in l[k] PROVE LivesOn(plat, r) \subseteq Ahead(l, k) \ {"locked"}
  <2>1. \/ r \in {"types", "uv_loop", "clip_conn", "xkb_ctx", "xkb_keymap", "xkb_state", "dpy", "rtb"}
        \/ (r = "clip_win" /\ k = 3) \/ (r \in {"empty_cursor", "colormap"} /\ k \in {8, 9})
    BY X11FreeIs
  <2>. QED  BY <1>4, <2>1, LivesOnIs
<1>6. Orderly(l, {})
  BY <1>1, <1>3, <1>5 DEF Orderly
<1>. QED  BY <1>1, <1>2, <1>6

LEMMA WinFrees ==
  ASSUME plat = "win"
  PROVE  /\ Orderly(FreeLadder(plat), {}) /\ Ahead(FreeLadder(plat), 1) = Freed
         /\ Len(FreeLadder(plat)) \in Nat \ {0}
<1>. DEFINE l == FreeLadder(plat)
<1>1. Len(l) = 4
  BY WinFreeIs
<1>2. Ahead(l, 1) = Freed
  BY WinFreeIs DEF Ahead, Freed
<1>3. ASSUME NEW j \in 1 .. 4, NEW k \in 1 .. 4, NEW r \in l[j], r \in l[k] PROVE j = k
  BY <1>3, WinFreeIs
<1>4. \A k \in 1 .. 4 : "rtb" \in Ahead(l, k) \ {"locked"}
  BY WinFreeIs, AheadAt
<1>5. ASSUME NEW k \in 1 .. 4, NEW r \in l[k] PROVE LivesOn(plat, r) \subseteq Ahead(l, k) \ {"locked"}
  <2>1. r \in {"types", "uv_loop", "ole32", "rtb"}
    BY WinFreeIs
  <2>. QED  BY <1>4, <2>1, LivesOnIs
<1>6. Orderly(l, {})
  BY <1>1, <1>3, <1>5 DEF Orderly
<1>. QED  BY <1>1, <1>2, <1>6

LEMMA CocoaFrees ==
  ASSUME plat = "cocoa"
  PROVE  /\ Orderly(FreeLadder(plat), {}) /\ Ahead(FreeLadder(plat), 1) = Freed
         /\ Len(FreeLadder(plat)) \in Nat \ {0}
<1>. DEFINE l == FreeLadder(plat)
<1>1. Len(l) = 4
  BY CocoaFreeIs
<1>2. Ahead(l, 1) = Freed
  BY CocoaFreeIs DEF Ahead, Freed
<1>3. ASSUME NEW j \in 1 .. 4, NEW k \in 1 .. 4, NEW r \in l[j], r \in l[k] PROVE j = k
  BY <1>3, CocoaFreeIs
<1>4. \A k \in 1 .. 4 : "rtb" \in Ahead(l, k) \ {"locked"}
  BY CocoaFreeIs, AheadAt
<1>5. ASSUME NEW k \in 1 .. 4, NEW r \in l[k] PROVE LivesOn(plat, r) \subseteq Ahead(l, k) \ {"locked"}
  <2>1. r \in {"types", "uv_loop", "invisible_cursor", "rtb"}
    BY CocoaFreeIs
  <2>. QED  BY <1>4, <2>1, LivesOnIs
<1>6. Orderly(l, {})
  BY <1>1, <1>3, <1>5 DEF Orderly
<1>. QED  BY <1>1, <1>2, <1>6

LEMMA X11Closes ==
  ASSUME plat = "x11"
  PROVE  /\ Orderly(CloseLadder(plat), Freed)
         /\ Ahead(CloseLadder(plat), 1) = Drawn \cup Closed \cup {"locked"}
<1>. DEFINE l == CloseLadder(plat)
            after == Freed
<1>0. {"rtb", "dpy"} \subseteq after
  BY DEF Freed
<1>1. Len(l) = 21
  BY X11CloseIs
<1>2. Ahead(l, 1) = Drawn \cup Closed \cup {"locked"}
  <2>. DEFINE all == Drawn \cup Closed \cup {"locked"}
  <2>1. \A k \in 1 .. 21 : l[k] \subseteq all
    BY X11CloseIs DEF Drawn, Closed
  <2>2. \A r \in Drawn : \E k \in 1 .. 21 : r \in l[k]
    BY X11CloseIs DEF Drawn
  <2>3. \A r \in Closed \cup {"locked"} : \E k \in 1 .. 21 : r \in l[k]
    BY X11CloseIs DEF Closed
  <2>. QED  BY <1>1, <2>1, <2>2, <2>3 DEF Ahead
<1>3. ASSUME NEW j \in 1 .. 21, NEW k \in 1 .. 21, NEW r \in l[j], r \in l[k] PROVE j = k
  BY <1>3, X11CloseIs
<1>4. /\ \A k \in 1 .. 21 : "window" \in Ahead(l, k) \ {"locked"}
      /\ \A k \in 1 .. 15 : "ctx" \in Ahead(l, k) \ {"locked"}
      /\ \A k \in 1 .. 16 : "egl_dpy" \in Ahead(l, k) \ {"locked"}
      /\ \A k \in 1 .. 17 : "xcb_win" \in Ahead(l, k) \ {"locked"}
  <2>1. "window" \in l[21] /\ "ctx" \in l[15] /\ "egl_dpy" \in l[16] /\ "xcb_win" \in l[17]
    BY X11CloseIs
  <2>. QED  BY <1>1, <2>1, AheadAt
<1>5. ASSUME NEW k \in 1 .. 21, NEW r \in l[k], r # "locked"
      PROVE  LivesOn(plat, r) \subseteq (Ahead(l, k) \ {"locked"}) \cup {"rtb", "dpy"}
  <2>1. CASE k <= 14
    <3>1. r \in Drawn
      BY <1>5, <2>1, X11CloseIs DEF Drawn
    <3>. QED  BY <1>1, <1>4, <2>1, <3>1, LivesOnIs
  <2>2. CASE k >= 15
    <3>1. \/ r \in {"xcb_win", "lock", "cursor_ctx", "window"}
          \/ r \in {"ctx", "egl_surface", "egl_dpy"} /\ k \in {15, 16}
      BY <1>5, <2>2, X11CloseIs
    <3>. QED  BY <1>1, <1>4, <3>1, LivesOnIs
  <2>. QED  BY <2>1, <2>2
<1>6. ASSUME NEW k \in 1 .. 21, NEW r \in l[k] PROVE r \notin after
  BY <1>6, X11CloseIs DEF Freed
<1>. HIDE DEF after
<1>7. Orderly(l, after)
  <2>1. \A j, k \in 1 .. 21 : j # k => l[j] \cap l[k] = {}
    BY <1>3
  <2>2. \A k \in 1 .. 21 : l[k] \cap after = {}
    BY <1>6
  <2>3. \A k \in 1 .. 21 : \A r \in l[k] \ {"locked"} :
          LivesOn(plat, r) \subseteq (Ahead(l, k) \ {"locked"}) \cup after
    BY <1>0, <1>5
  <2>. QED  BY <1>1, <2>1, <2>2, <2>3, Zenon DEF Orderly
<1>. QED  BY <1>2, <1>7 DEF after

LEMMA WinCloses ==
  ASSUME plat = "win"
  PROVE  /\ Orderly(CloseLadder(plat), Freed)
         /\ Ahead(CloseLadder(plat), 1) = Drawn \cup Closed \cup {"locked"}
<1>. DEFINE l == CloseLadder(plat)
            after == Freed
<1>0. {"rtb"} \subseteq after
  BY DEF Freed
<1>1. Len(l) = 21
  BY WinCloseIs
<1>2. Ahead(l, 1) = Drawn \cup Closed \cup {"locked"}
  <2>. DEFINE all == Drawn \cup Closed \cup {"locked"}
  <2>1. \A k \in 1 .. 21 : l[k] \subseteq all
    BY WinCloseIs DEF Drawn, Closed
  <2>2. \A r \in Drawn : \E k \in 1 .. 21 : r \in l[k]
    BY WinCloseIs DEF Drawn
  <2>3. \A r \in Closed \cup {"locked"} : \E k \in 1 .. 21 : r \in l[k]
    BY WinCloseIs DEF Closed
  <2>. QED  BY <1>1, <2>1, <2>2, <2>3 DEF Ahead
<1>3. ASSUME NEW j \in 1 .. 21, NEW k \in 1 .. 21, NEW r \in l[j], r \in l[k] PROVE j = k
  BY <1>3, WinCloseIs
<1>4. /\ \A k \in 1 .. 21 : "window" \in Ahead(l, k) \ {"locked"}
      /\ \A k \in 1 .. 15 : "ctx" \in Ahead(l, k) \ {"locked"}
      /\ \A k \in 1 .. 16 : "dc" \in Ahead(l, k) \ {"locked"}
      /\ \A k \in 1 .. 17 : "hwnd" \in Ahead(l, k) \ {"locked"}
      /\ \A k \in 1 .. 18 : "window_class" \in Ahead(l, k) \ {"locked"}
  <2>1. "window" \in l[21] /\ "ctx" \in l[15] /\ "dc" \in l[16] /\ "hwnd" \in l[17] /\ "window_class" \in l[18]
    BY WinCloseIs
  <2>. QED  BY <1>1, <2>1, AheadAt
<1>5. ASSUME NEW k \in 1 .. 21, NEW r \in l[k], r # "locked"
      PROVE  LivesOn(plat, r) \subseteq (Ahead(l, k) \ {"locked"}) \cup {"rtb"}
  <2>1. CASE k <= 14
    <3>1. r \in Drawn
      BY <1>5, <2>1, WinCloseIs DEF Drawn
    <3>. QED  BY <1>1, <1>4, <2>1, <3>1, LivesOnIs
  <2>2. CASE k >= 15
    <3>1. \/ r \in {"window_class", "lock", "window"} \/ (r = "ctx" /\ k = 15) \/ (r = "dc" /\ k = 16)
          \/ r \in {"hwnd", "frame_timer"} /\ k = 17
      BY <1>5, <2>2, WinCloseIs
    <3>. QED  BY <1>1, <1>4, <3>1, LivesOnIs
  <2>. QED  BY <2>1, <2>2
<1>6. ASSUME NEW k \in 1 .. 21, NEW r \in l[k] PROVE r \notin after
  BY <1>6, WinCloseIs DEF Freed
<1>. HIDE DEF after
<1>7. Orderly(l, after)
  <2>1. \A j, k \in 1 .. 21 : j # k => l[j] \cap l[k] = {}
    BY <1>3
  <2>2. \A k \in 1 .. 21 : l[k] \cap after = {}
    BY <1>6
  <2>3. \A k \in 1 .. 21 : \A r \in l[k] \ {"locked"} :
          LivesOn(plat, r) \subseteq (Ahead(l, k) \ {"locked"}) \cup after
    BY <1>0, <1>5
  <2>. QED  BY <1>1, <2>1, <2>2, <2>3, Zenon DEF Orderly
<1>. QED  BY <1>2, <1>7 DEF after

LEMMA CocoaCloses ==
  ASSUME plat = "cocoa"
  PROVE  /\ Orderly(CloseLadder(plat), Freed)
         /\ Ahead(CloseLadder(plat), 1) = Drawn \cup Closed \cup {"locked"}
<1>. DEFINE l == CloseLadder(plat)
            after == Freed
<1>0. {"rtb"} \subseteq after
  BY DEF Freed
<1>1. Len(l) = 20
  BY CocoaCloseIs
<1>2. Ahead(l, 1) = Drawn \cup Closed \cup {"locked"}
  <2>. DEFINE all == Drawn \cup Closed \cup {"locked"}
  <2>1. \A k \in 1 .. 20 : l[k] \subseteq all
    BY CocoaCloseIs DEF Drawn, Closed
  <2>2. \A r \in Drawn : \E k \in 1 .. 20 : r \in l[k]
    BY CocoaCloseIs DEF Drawn
  <2>3. \A r \in Closed \cup {"locked"} : \E k \in 1 .. 20 : r \in l[k]
    BY CocoaCloseIs DEF Closed
  <2>. QED  BY <1>1, <2>1, <2>2, <2>3 DEF Ahead
<1>3. ASSUME NEW j \in 1 .. 20, NEW k \in 1 .. 20, NEW r \in l[j], r \in l[k] PROVE j = k
  BY <1>3, CocoaCloseIs
<1>4. /\ \A k \in 1 .. 20 : "window" \in Ahead(l, k) \ {"locked"}
      /\ \A k \in 1 .. 16 : "ctx" \in Ahead(l, k) \ {"locked"}
  <2>1. "window" \in l[20] /\ "ctx" \in l[16]
    BY CocoaCloseIs
  <2>. QED  BY <1>1, <2>1, AheadAt
<1>5. ASSUME NEW k \in 1 .. 20, NEW r \in l[k], r # "locked"
      PROVE  LivesOn(plat, r) \subseteq (Ahead(l, k) \ {"locked"}) \cup {"rtb"}
  <2>1. CASE k <= 14
    <3>1. r \in Drawn
      BY <1>5, <2>1, CocoaCloseIs DEF Drawn
    <3>. QED  BY <1>1, <1>4, <2>1, <3>1, LivesOnIs
  <2>2. CASE k >= 15
    <3>1. r \in {"view", "ctx", "cocoa_win", "lock", "window"}
      BY <1>5, <2>2, CocoaCloseIs
    <3>. QED  BY <1>1, <1>4, <3>1, LivesOnIs
  <2>. QED  BY <2>1, <2>2
<1>6. ASSUME NEW k \in 1 .. 20, NEW r \in l[k] PROVE r \notin after
  BY <1>6, CocoaCloseIs DEF Freed
<1>. HIDE DEF after
<1>7. Orderly(l, after)
  <2>1. \A j, k \in 1 .. 20 : j # k => l[j] \cap l[k] = {}
    BY <1>3
  <2>2. \A k \in 1 .. 20 : l[k] \cap after = {}
    BY <1>6
  <2>3. \A k \in 1 .. 20 : \A r \in l[k] \ {"locked"} :
          LivesOn(plat, r) \subseteq (Ahead(l, k) \ {"locked"}) \cup after
    BY <1>0, <1>5
  <2>. QED  BY <1>1, <2>1, <2>2, <2>3, Zenon DEF Orderly
<1>. QED  BY <1>2, <1>7 DEF after

\* window_impl_close is the end of rtb_window_close.
LEMMA ImplEnds ==
  ASSUME plat \in Platforms
  PROVE  /\ Len(CloseLadder(plat)) = 14 + Len(ImplClose(plat)) /\ Len(ImplClose(plat)) \in 1 .. 30
         /\ \A k \in 1 .. Len(ImplClose(plat)) : ImplClose(plat)[k] = CloseLadder(plat)[14 + k]
<1>. DEFINE l == ImplClose(plat)
            m == CloseLadder(plat)
<1>1. CASE plat = "x11"
  <2>1. Len(l) = 7 /\ Len(m) = 21 /\ \A k \in 1 .. 7 : l[k] = m[14 + k]
    BY <1>1, X11ImplIs, X11CloseIs
  <2>. QED  BY <2>1
<1>2. CASE plat = "win"
  <2>1. Len(l) = 7 /\ Len(m) = 21 /\ \A k \in 1 .. 7 : l[k] = m[14 + k]
    <3>1. /\ Len(l) = 7 /\ Len(m) = 21 /\ l[1] = m[15] /\ l[2] = m[16] /\ l[3] = m[17] /\ l[4] = m[18]
          /\ l[5] = m[19] /\ l[6] = m[20] /\ l[7] = m[21]
      BY <1>2, WinImplIs, WinCloseIs, Zenon
    <3>. HIDE DEF l, m
    <3>. QED  BY <3>1
  <2>. QED  BY <2>1
<1>3. CASE plat = "cocoa"
  <2>1. Len(l) = 6 /\ Len(m) = 20 /\ \A k \in 1 .. 6 : l[k] = m[14 + k]
    BY <1>3, CocoaImplIs, CocoaCloseIs
  <2>. QED  BY <2>1
<1>. QED  BY <1>1, <1>2, <1>3 DEF Platforms

LEMMA EndOrderly ==
  ASSUME NEW l, NEW m, NEW after, Len(l) \in Nat, Len(m) = 14 + Len(l),
         \A k \in 1 .. Len(l) : l[k] = m[14 + k], Orderly(m, after)
  PROVE  Orderly(l, after)
<1>1. \A k \in 1 .. Len(l) : 14 + k \in 1 .. Len(m) /\ 14 + k \in Nat
  OBVIOUS
<1>2. ASSUME NEW k \in 1 .. Len(l) PROVE Ahead(m, 14 + k) = Ahead(l, k)
  <2>1. ASSUME NEW n \in 14 + k .. Len(m) PROVE n - 14 \in k .. Len(l) /\ l[n - 14] = m[n]
    <3>1. n - 14 \in k .. Len(l) /\ n - 14 \in 1 .. Len(l) /\ 14 + (n - 14) = n
      OBVIOUS
    <3>. QED  BY <3>1
  <2>2. ASSUME NEW n \in k .. Len(l) PROVE 14 + n \in 14 + k .. Len(m) /\ l[n] = m[14 + n]
    <3>1. 14 + n \in 14 + k .. Len(m) /\ n \in 1 .. Len(l)
      OBVIOUS
    <3>. QED  BY <3>1
  <2>. QED  BY <2>1, <2>2 DEF Ahead
<1>3. \A j, k \in 1 .. Len(l) : j # k => l[j] \cap l[k] = {}
  <2>. SUFFICES ASSUME NEW j \in 1 .. Len(l), NEW k \in 1 .. Len(l), j # k PROVE l[j] \cap l[k] = {}
    OBVIOUS
  <2>1. 14 + j # 14 + k
    OBVIOUS
  <2>. QED  BY <1>1, <2>1 DEF Orderly
<1>4. \A k \in 1 .. Len(l) : l[k] \cap after = {}
  BY <1>1 DEF Orderly
<1>5. \A k \in 1 .. Len(l) : \A r \in l[k] \ {"locked"} :
        LivesOn(plat, r) \subseteq (Ahead(l, k) \ {"locked"}) \cup after
  BY <1>1, <1>2 DEF Orderly
<1>. QED  BY <1>3, <1>4, <1>5 DEF Orderly

LEMMA ImplAhead ==
  ASSUME plat \in Platforms
  PROVE  Ahead(ImplClose(plat), 1) = Closed \cup {"locked"}
<1>1. CASE plat = "x11"
  BY <1>1, X11ImplIs DEF Ahead, Closed
<1>2. CASE plat = "win"
  BY <1>2, WinImplIs DEF Ahead, Closed
<1>3. CASE plat = "cocoa"
  BY <1>3, CocoaImplIs DEF Ahead, Closed
<1>. QED  BY <1>1, <1>2, <1>3 DEF Platforms

-------------------------------------------------------------------------------
\* What is held, wherever the main thread is: on the way up what the steps gave,
\* while the window is open all of it with the loop's own, and on the way down
\* what is still to be released.
UpInv ==
  /\ pc = "alloc" => i <= Len(AllocLadder(plat)) /\ held = Gave(AllocLadder(plat), i - 1)
  /\ pc = "open" => /\ i <= Len(OpenLadder(plat))
                    /\ held = (Kept \cup Gave(OpenLadder(plat), i - 1)) \ Shed(OpenLadder(plat), i - 1)
  /\ pc = "gl" => i <= Len(GlLadder) /\ held = Kept \cup Own \cup Gave(GlLadder, i - 1)
  /\ pc \in {"alloc", "open", "gl", "opened"} => ~stop
  /\ failed # None => pc \in {"abort", "free", "done"}

RunInv ==
  /\ pc = "opened" => held = Full
  /\ Running => held = Full \cup LoopInit(plat) \cup (IF stop THEN {} ELSE LoopRun(plat))
  /\ pc = "fini" => Full \cup LoopInit(plat) \subseteq held /\ held \subseteq Full \cup LoopInit(plat) \cup Spare
  /\ pc = "lock" => Full \subseteq held /\ held \subseteq Full \cup Spare

\* What is held on the way down: all that is ahead, or comes after, except what
\* may not be there, and no more than that and the leaks.
Bounds(h, l, n, after, leaks) ==
  /\ (Ahead(l, n) \cup after) \ Along \subseteq h
  /\ h \subseteq (Ahead(l, n) \ {"locked"}) \cup after \cup leaks

DownInv ==
  /\ pc = "close" => Bounds(held, CloseLadder(plat), i, Freed, KnownLeaks)
  /\ pc = "free" => Bounds(held, FreeLadder(plat), i, {}, KnownLeaks)
  /\ pc = "abort" => i <= Len(ImplClose(plat)) /\ Bounds(held, ImplClose(plat), i, Freed, KnownLeaks)
  /\ pc = "done" => held \subseteq KnownLeaks

HeldInv == UpInv /\ RunInv /\ DownInv

\* Where the event loop is while it runs.
Looping == {"timers", "poll", "drain", "draw", "unlock", "get", "handle", "check"}

\* The way down is orderly, and releases what an open window holds but for the
\* leaks.
LEMMA CloseGives ==
  ASSUME plat \in Platforms
  PROVE  /\ Orderly(CloseLadder(plat), Freed) /\ Orderly(FreeLadder(plat), {})
         /\ Ahead(FreeLadder(plat), 1) = Freed /\ "locked" \notin Freed
         /\ Ahead(CloseLadder(plat), 1) = Drawn \cup Closed \cup {"locked"}
<1>1. "locked" \notin Freed
  BY DEF Freed, Platforms
<1>. QED  BY <1>1, X11Closes, X11Frees, WinCloses, WinFrees, CocoaCloses, CocoaFrees DEF Platforms

LEMMA AbortGives ==
  ASSUME plat \in Platforms
  PROVE  Orderly(ImplClose(plat), Freed) /\ Ahead(ImplClose(plat), 1) = Closed \cup {"locked"}
<1>1. Len(ImplClose(plat)) \in Nat
  <2>1. \A n \in 1 .. 30 : n \in Nat
    OBVIOUS
  <2>. QED  BY <2>1, ImplEnds, Zenon
<1>2. Orderly(ImplClose(plat), Freed)
  BY <1>1, ImplEnds, EndOrderly, CloseGives
<1>. QED  BY <1>2, ImplAhead

\* What is kept, and what a window has, against what is released.
LEMMA FreedOrKept ==
  ASSUME plat \in Platforms, NEW part
  PROVE  Freed \ Along \subseteq Kept /\ Kept \subseteq Freed \cup LeaksOf(part)
<1>1. CASE plat = "x11"
  BY <1>1 DEF Freed, Kept, Along
<1>2. CASE plat = "win"
  <2>1. "dpi_libs" \in LeaksOf(part)
    BY <1>2, LeaksAre
  <2>. QED  BY <1>2, <2>1 DEF Freed, Kept
<1>3. CASE plat = "cocoa"
  BY <1>3 DEF Freed, Kept
<1>. QED  BY <1>1, <1>2, <1>3 DEF Platforms

LEMMA ClosedOrOwn ==
  ASSUME plat \in Platforms, NEW part
  PROVE  /\ Closed \ Along \subseteq Own /\ Spare \subseteq Closed
         /\ Own \subseteq Closed \cup Freed \cup LeaksOf(part)
         /\ "locked" \notin Closed /\ "locked" \notin Drawn
<1>1. CASE plat = "x11"
  BY <1>1 DEF Freed, Closed, Own, Along, Spare, Drawn
<1>2. CASE plat = "win"
  BY <1>2 DEF Closed, Own, Along, Spare, Drawn
<1>3. CASE plat = "cocoa"
  <2>1. {"pixel_format", "title"} \subseteq LeaksOf(part)
    BY <1>3, LeaksAre
  <2>. QED  BY <1>3, <2>1 DEF Closed, Own, Along, Spare, Drawn
<1>. QED  BY <1>1, <1>2, <1>3 DEF Platforms

\* The event loop's own are apart from the window's.
LEMMA LoopApart ==
  ASSUME plat \in Platforms
  PROVE  /\ Full \cap (LoopInit(plat) \cup LoopRun(plat)) = {} /\ LoopInit(plat) \cap LoopRun(plat) = {}
         /\ \A r \in LoopInit(plat) \cup LoopRun(plat) : LivesOn(plat, r) \subseteq Full
<1>. USE DEF Platforms
<1>1. LoopInit(plat) \cup LoopRun(plat) \subseteq {"xcb_poll", "frame_timer", "observer"}
  BY DEF LoopInit, LoopRun
<1>2. "xcb_poll" \notin Full /\ "frame_timer" \notin Full /\ "observer" \notin Full
  BY DEF Full, Kept, Own, Drawn
<1>3. LoopInit(plat) \cap LoopRun(plat) = {}
  BY DEF LoopInit, LoopRun
<1>4. "uv_loop" \in Full /\ "window" \in Full /\ (plat = "win" => "hwnd" \in Full)
  BY DEF Full, Kept, Own
<1>. QED  BY <1>1, <1>2, <1>3, <1>4, LivesOnIs

LEMMA InitHeld == Init => HeldInv
<1>. SUFFICES ASSUME Init PROVE HeldInv
  OBVIOUS
<1>1. pc = "alloc" /\ i = 1 /\ held = {} /\ failed = None /\ stop = FALSE /\ plat \in Platforms
  BY DEF Init
<1>2. Len(AllocLadder(plat)) \in 1 .. 30 /\ Gave(AllocLadder(plat), 0) = {}
  BY <1>1, AllocLen DEF Gave
<1>3. 1 <= Len(AllocLadder(plat))
  BY <1>2
<1>. QED  BY <1>1, <1>2, <1>3 DEF HeldInv, UpInv, RunInv, DownInv, Running

-------------------------------------------------------------------------------
LEMMA AllocHeld == OpenInv /\ HeldInv /\ Alloc => HeldInv'
<1>. SUFFICES ASSUME OpenInv, HeldInv, Alloc PROVE HeldInv'
  OBVIOUS
<1>. DEFINE l == AllocLadder(plat)
            n == Len(l)
<1>0. plat \in Platforms /\ i \in 1 .. 30 /\ plat' = plat /\ stop' = stop /\ pc = "alloc"
  BY DEF OpenInv, TypeOK, StepInv, Alloc, Climb, Rest
<1>1. n \in 1 .. 30
  BY <1>0, AllocLen
<1>2. /\ i <= n /\ held = Gave(l, i - 1) /\ ~stop /\ failed = None
      /\ l[i].drops = {} /\ Gave(l, i) = held \cup l[i].gives
  <2>1. i <= n /\ held = Gave(l, i - 1) /\ ~stop /\ failed = None
    BY <1>0 DEF HeldInv, UpInv
  <2>. HIDE DEF l
  <2>2. i \in 1 .. n /\ i - 1 \in Nat
    BY <1>0, <1>1, <2>1
  <2>3. l[i].drops = {}
    BY <1>0, <2>2, AllocGrounded DEF l
  <2>4. Gave(l, i) = Gave(l, i - 1) \cup l[i].gives
    BY <2>2, GaveStep
  <2>. QED  BY <2>1, <2>3, <2>4
<1>3. \/ /\ held' = (held \cup l[i].gives) \ l[i].drops
         /\ IF i < n THEN pc' = "alloc" /\ i' = i + 1 ELSE pc' = "open" /\ i' = 1
         /\ failed' = failed
      \/ l[i].fails /\ held' = held \ l[i].undo /\ failed' = "alloc" /\ pc' = "done"
  BY DEF Alloc, Climb, AfterFailure
<1>4. /\ Gave(l, n) = Kept
      /\ \A k \in 1 .. n : l[k].fails => Gave(l, k - 1) \ l[k].undo \subseteq LeaksOf("alloc")
  BY <1>0, AllocGives
<1>5. Len(OpenLadder(plat)) >= 1
  <2>. DEFINE m == Len(OpenLadder(plat))
  <2>1. m \in 1 .. 30
    BY <1>0, OpenLen
  <2>. HIDE DEF m
  <2>2. m >= 1
    BY <2>1
  <2>. QED  BY <2>2 DEF m
<1>. HIDE DEF l, n
<1>6. CASE i < n /\ held' = (held \cup l[i].gives) \ l[i].drops /\ pc' = "alloc" /\ i' = i + 1 /\ failed' = failed
  <2>1. i' <= n /\ held' = Gave(l, i' - 1)
    BY <1>0, <1>1, <1>2, <1>6
  <2>2. UpInv'
    <3>1. i' <= Len(AllocLadder(plat')) /\ held' = Gave(AllocLadder(plat'), i' - 1)
      BY <1>0, <2>1 DEF l, n
    <3>. QED  BY <1>0, <1>2, <1>6, <3>1 DEF UpInv
  <2>. QED  BY <1>6, <2>2 DEF HeldInv, RunInv, DownInv, Running
<1>7. CASE ~(i < n) /\ held' = (held \cup l[i].gives) \ l[i].drops /\ pc' = "open" /\ i' = 1 /\ failed' = failed
  <2>1. i = n /\ held' = Kept
    BY <1>0, <1>1, <1>2, <1>4, <1>7
  <2>2. Gave(OpenLadder(plat), 0) = {} /\ Shed(OpenLadder(plat), 0) = {}
    BY DEF Gave, Shed
  <2>3. Kept' = Kept
    BY <1>0 DEF Kept
  <2>4. /\ i' <= Len(OpenLadder(plat'))
        /\ held' = (Kept' \cup Gave(OpenLadder(plat'), i' - 1)) \ Shed(OpenLadder(plat'), i' - 1)
    BY <1>0, <1>5, <1>7, <2>1, <2>2, <2>3
  <2>5. UpInv'
    BY <1>0, <1>2, <1>7, <2>4 DEF UpInv
  <2>. QED  BY <1>7, <2>5 DEF HeldInv, RunInv, DownInv, Running
<1>8. CASE l[i].fails /\ held' = held \ l[i].undo /\ failed' = "alloc" /\ pc' = "done"
  <2>1. held' \subseteq LeaksOf("alloc")
    <3>1. i \in 1 .. n
      BY <1>0, <1>1, <1>2
    <3>. QED  BY <1>2, <1>4, <1>8, <3>1
  <2>2. held' \subseteq KnownLeaks'
    BY <1>0, <1>8, <2>1, LeaksNext
  <2>. QED  BY <1>0, <1>8, <2>2 DEF HeldInv, UpInv, RunInv, DownInv, Running
<1>. QED  BY <1>3, <1>6, <1>7, <1>8

LEMMA OpenImplHeld == OpenInv /\ HeldInv /\ OpenImpl => HeldInv'
<1>. SUFFICES ASSUME OpenInv, HeldInv, OpenImpl PROVE HeldInv'
  OBVIOUS
<1>. DEFINE l == OpenLadder(plat)
            n == Len(l)
<1>0. plat \in Platforms /\ i \in 1 .. 30 /\ plat' = plat /\ stop' = stop /\ pc = "open"
  BY DEF OpenInv, TypeOK, StepInv, OpenImpl, Climb, Rest
<1>1. n \in 1 .. 30
  BY <1>0, OpenLen
<1>2. i <= n /\ held = (Kept \cup Gave(l, i - 1)) \ Shed(l, i - 1) /\ ~stop /\ failed = None
  BY <1>0 DEF HeldInv, UpInv
<1>3. \/ /\ held' = (held \cup l[i].gives) \ l[i].drops
         /\ IF i < n THEN pc' = "open" /\ i' = i + 1 ELSE pc' = "gl" /\ i' = 1
         /\ failed' = failed
      \/ l[i].fails /\ held' = held \ l[i].undo /\ failed' = "open" /\ pc' = "free" /\ i' = 1
  BY DEF OpenImpl, Climb, AfterFailure
<1>4. Reopens(l)
  BY <1>0, OpenGives
<1>5. Kept' = Kept /\ Own' = Own
  BY <1>0 DEF Kept, Own
<1>6. l = OpenLadder(plat') /\ n = Len(OpenLadder(plat'))
  BY <1>0
<1>. HIDE DEF l
<1>7. n = Len(l)
  OBVIOUS
<1>. HIDE DEF n
<1>8. i \in 1 .. n /\ i - 1 \in Nat
  BY <1>0, <1>1, <1>2
<1>9. (held \cup l[i].gives) \ l[i].drops = (Kept \cup Gave(l, i)) \ Shed(l, i)
  <2>1. Gave(l, i) = Gave(l, i - 1) \cup l[i].gives /\ Shed(l, i) = Shed(l, i - 1) \cup l[i].drops
    BY <1>8, GaveStep
  <2>2. l[i].gives \cap Shed(l, i - 1) = {}
    BY <1>4, <1>7, <1>8 DEF Reopens
  <2>. QED  BY <1>2, <2>1, <2>2
<1>10. CASE i < n /\ held' = (held \cup l[i].gives) \ l[i].drops /\ pc' = "open" /\ i' = i + 1 /\ failed' = failed
  <2>1. i' <= n /\ held' = (Kept' \cup Gave(l, i' - 1)) \ Shed(l, i' - 1)
    BY <1>1, <1>5, <1>8, <1>9, <1>10
  <2>2. UpInv'
    BY <1>0, <1>2, <1>6, <1>10, <2>1 DEF UpInv
  <2>. QED  BY <1>10, <2>2 DEF HeldInv, RunInv, DownInv, Running
<1>11. CASE ~(i < n) /\ held' = (held \cup l[i].gives) \ l[i].drops /\ pc' = "gl" /\ i' = 1 /\ failed' = failed
  <2>1. i = n
    BY <1>1, <1>8, <1>11
  <2>2. held' = Kept \cup Own
    BY <1>4, <1>7, <1>9, <1>11, <2>1 DEF Reopens
  <2>3. Gave(GlLadder, 0) = {} /\ Len(GlLadder) = 14
    BY GlGives DEF Gave
  <2>4. i' <= Len(GlLadder) /\ held' = Kept' \cup Own' \cup Gave(GlLadder, i' - 1)
    BY <1>5, <1>11, <2>2, <2>3
  <2>5. UpInv'
    BY <1>0, <1>2, <1>11, <2>4 DEF UpInv
  <2>. QED  BY <1>11, <2>5 DEF HeldInv, RunInv, DownInv, Running
<1>12. CASE l[i].fails /\ held' = held \ l[i].undo /\ failed' = "open" /\ pc' = "free" /\ i' = 1
  <2>. DEFINE m == FreeLadder(plat)
  <2>1. /\ Kept \cap l[i].undo = {} /\ Gave(l, i - 1) \ l[i].undo \subseteq Freed \cup LeaksOf("open")
    BY <1>4, <1>7, <1>8, <1>12 DEF Reopens
  <2>2. Kept \cap Shed(l, i - 1) = {}
    <3>1. Shed(l, i - 1) \subseteq {"trampoline", "wtitle"}
      <4>1. n \in Nat /\ i - 1 \in 0 .. n
        BY <1>1, <1>8
      <4>2. Shed(l, i - 1) \subseteq Shed(l, n)
        BY <4>1, ShedIn
      <4>3. Shed(l, n) \subseteq {"trampoline", "wtitle"}
        BY <1>4, <1>7, Zenon DEF Reopens
      <4>. QED  BY <4>2, <4>3
    <3>2. Kept \cap {"trampoline", "wtitle"} = {}
      BY <1>0 DEF Kept, Platforms
    <3>. QED  BY <3>1, <3>2
  <2>3. Ahead(m, 1) = Freed /\ "locked" \notin Freed
    BY <1>0, CloseGives
  <2>4. Freed \ Along \subseteq Kept /\ Kept \subseteq Freed \cup LeaksOf("open")
    BY <1>0, FreedOrKept
  <2>. HIDE DEF m
  <2>5. Bounds(held', m, 1, {}, LeaksOf("open"))
    BY <1>2, <1>12, <2>1, <2>2, <2>3, <2>4 DEF Bounds
  <2>6. Bounds(held', FreeLadder(plat'), i', {}, KnownLeaks')
    BY <1>0, <1>12, <2>5, LeaksNext DEF m
  <2>. QED  BY <1>0, <1>12, <2>6 DEF HeldInv, UpInv, RunInv, DownInv, Running
<1>. QED  BY <1>3, <1>10, <1>11, <1>12

LEMMA GlHeld == OpenInv /\ HeldInv /\ Open => HeldInv'
<1>. SUFFICES ASSUME OpenInv, HeldInv, Open PROVE HeldInv'
  OBVIOUS
<1>. DEFINE l == GlLadder
<1>0. plat \in Platforms /\ i \in 1 .. 30 /\ plat' = plat /\ stop' = stop /\ pc = "gl"
  BY DEF OpenInv, TypeOK, StepInv, Open, Climb, Rest
<1>1. Len(l) = 14
  BY GlGives
<1>2. i <= 14 /\ held = Kept \cup Own \cup Gave(l, i - 1) /\ ~stop /\ failed = None
  BY <1>0, <1>1 DEF HeldInv, UpInv
<1>3. \/ /\ held' = (held \cup l[i].gives) \ l[i].drops
         /\ IF i < 14 THEN pc' = "gl" /\ i' = i + 1 ELSE pc' = "opened" /\ i' = 1
         /\ failed' = failed
      \/ l[i].fails /\ held' = held \ l[i].undo /\ failed' = "gl" /\ i' = 1 /\ pc' = "abort"
  BY <1>1 DEF Open, Climb, AfterFailure
<1>5. Kept' = Kept /\ Own' = Own /\ Full' = Full /\ Freed' = Freed
  BY <1>0 DEF Kept, Own, Full, Freed
<1>6. i \in 1 .. 14 /\ i - 1 \in Nat
  BY <1>0, <1>2
<1>7. (held \cup l[i].gives) \ l[i].drops = Kept \cup Own \cup Gave(l, i)
  <2>1. Gave(l, i) = Gave(l, i - 1) \cup l[i].gives
    BY <1>6, GaveStep
  <2>2. l[i].drops = {}
    BY <1>6, GlGives
  <2>. QED  BY <1>2, <2>1, <2>2
<1>8. CASE i < 14 /\ held' = (held \cup l[i].gives) \ l[i].drops /\ pc' = "gl" /\ i' = i + 1 /\ failed' = failed
  <2>1. i' <= Len(l) /\ held' = Kept' \cup Own' \cup Gave(l, i' - 1)
    BY <1>1, <1>5, <1>6, <1>7, <1>8
  <2>2. UpInv'
    BY <1>0, <1>2, <1>8, <2>1 DEF UpInv
  <2>. QED  BY <1>8, <2>2 DEF HeldInv, RunInv, DownInv, Running
<1>9. CASE ~(i < 14) /\ held' = (held \cup l[i].gives) \ l[i].drops /\ pc' = "opened" /\ i' = 1 /\ failed' = failed
  <2>1. i = 14
    BY <1>6, <1>9
  <2>2. held' = Full'
    BY <1>5, <1>7, <1>9, <2>1, GlGives DEF Full
  <2>. QED  BY <1>0, <1>2, <1>9, <2>2 DEF HeldInv, UpInv, RunInv, DownInv, Running
<1>10. CASE l[i].fails /\ held' = held \ l[i].undo /\ failed' = "gl" /\ i' = 1 /\ pc' = "abort"
  <2>. DEFINE c == ImplClose(plat)
  <2>1. Gave(l, i - 1) \ l[i].undo \subseteq Loose /\ l[i].undo \subseteq Drawn
    BY <1>6, <1>10, GlGives
  <2>2. Loose \subseteq LeaksOf("gl")
    BY <1>0, LeaksAre DEF Platforms
  <2>3. (Kept \cup Own) \cap Drawn = {}
    BY <1>0 DEF Kept, Own, Drawn, Platforms
  <2>4. Ahead(c, 1) = Closed \cup {"locked"}
    BY <1>0, AbortGives
  <2>5. /\ Freed \ Along \subseteq Kept /\ Kept \subseteq Freed \cup LeaksOf("gl")
        /\ Closed \ Along \subseteq Own /\ Own \subseteq Closed \cup Freed \cup LeaksOf("gl")
        /\ "locked" \notin Closed /\ "locked" \in Along
    BY <1>0, FreedOrKept, ClosedOrOwn DEF Along
  <2>6. 1 <= Len(c)
    <3>1. \A n \in 1 .. 30 : 1 <= n
      OBVIOUS
    <3>. QED  BY <1>0, <3>1, ImplCloseLen, Zenon
  <2>. HIDE DEF c
  <2>7. Bounds(held', c, 1, Freed, LeaksOf("gl"))
    BY <1>2, <1>10, <2>1, <2>2, <2>3, <2>4, <2>5 DEF Bounds
  <2>8. i' <= Len(ImplClose(plat')) /\ Bounds(held', ImplClose(plat'), i', Freed', KnownLeaks')
    BY <1>0, <1>5, <1>10, <2>6, <2>7, LeaksNext DEF c
  <2>. QED  BY <1>10, <2>8 DEF HeldInv, UpInv, RunInv, DownInv, Running
<1>. QED  BY <1>3, <1>8, <1>9, <1>10

-------------------------------------------------------------------------------
\* The rungs of the way down.  A release takes its own from what is ahead and no
\* more.
LEMMA BoundsStep ==
  ASSUME NEW l, NEW after, Len(l) \in Nat, NEW k \in 1 .. Len(l), Orderly(l, after), NEW h, NEW leaks,
         Bounds(h, l, k, after, leaks)
  PROVE  Bounds(h \ l[k], l, k + 1, after, leaks)
<1>1. Ahead(l, k) = l[k] \cup Ahead(l, k + 1)
  BY AheadStep
<1>2. l[k] \cap Ahead(l, k + 1) = {}
  BY DEF Ahead, Orderly
<1>3. l[k] \cap after = {}
  BY DEF Orderly
<1>. QED  BY <1>1, <1>2, <1>3 DEF Bounds

\* At the end of a ladder what comes after is left.
LEMMA BoundsEnd ==
  ASSUME NEW l, NEW after, Len(l) \in 1 .. 30, NEW h, NEW leaks, Bounds(h, l, Len(l) + 1, after, leaks)
  PROVE  after \ Along \subseteq h /\ h \subseteq after \cup leaks
<1>1. Len(l) \in Nat /\ 1 \in 1 .. Len(l)
  <2>1. \A n \in 1 .. 30 : n \in Nat /\ 1 \in 1 .. n
    OBVIOUS
  <2>. QED  BY <2>1, Zenon
<1>2. Ahead(l, Len(l) + 1) = {}
  BY <1>1, AheadStep
<1>. QED  BY <1>2 DEF Bounds

LEMMA DescendHeld ==
  ASSUME NEW here, NEW l, NEW next, NEW after, Len(l) \in 1 .. 30, i \in 1 .. Len(l), Orderly(l, after),
         Bounds(held, l, i, after, KnownLeaks), Descend(here, l, next)
  PROVE  /\ UNCHANGED << plat, failed, stop, KnownLeaks >>
         /\ \/ pc' = here /\ i' = i + 1 /\ i' <= Len(l) /\ Bounds(held', l, i', after, KnownLeaks)
            \/ /\ pc' = next /\ i' = 1
               /\ after \ Along \subseteq held' /\ held' \subseteq after \cup KnownLeaks
<1>1. /\ UNCHANGED << plat, failed, stop >> /\ held' = held \ l[i]
      /\ IF i < Len(l) THEN pc' = here /\ i' = i + 1 ELSE pc' = next /\ i' = 1
  BY DEF Descend, Rest
<1>2. KnownLeaks' = KnownLeaks
  BY <1>1, LeaksNext, LeaksAre
<1>3. Bounds(held', l, i + 1, after, KnownLeaks)
  BY <1>1, BoundsStep
<1>4. CASE i < Len(l)
  BY <1>1, <1>2, <1>3, <1>4
<1>5. CASE ~(i < Len(l))
  <2>1. i = Len(l)
    BY <1>5
  <2>2. Bounds(held', l, Len(l) + 1, after, KnownLeaks)
    BY <1>3, <2>1, Zenon
  <2>3. after \ Along \subseteq held' /\ held' \subseteq after \cup KnownLeaks
    BY <2>2, BoundsEnd
  <2>4. pc' = next /\ i' = 1
    BY <1>1, <1>5
  <2>. QED  BY <1>1, <1>2, <2>3, <2>4, Zenon
<1>. QED  BY <1>4, <1>5

\* rtb_free starts with all that it releases.
LEMMA FreeStarts ==
  ASSUME plat \in Platforms, Freed \ Along \subseteq held', held' \subseteq Freed \cup KnownLeaks,
         UNCHANGED << plat, KnownLeaks >>, i' = 1
  PROVE  Bounds(held', FreeLadder(plat'), i', {}, KnownLeaks')
<1>1. Ahead(FreeLadder(plat), 1) = Freed /\ "locked" \notin Freed
  BY CloseGives
<1>. QED  BY <1>1 DEF Bounds

LEMMA AbortHeld == OpenInv /\ HeldInv /\ Abort => HeldInv'
<1>. SUFFICES ASSUME OpenInv, HeldInv, Abort PROVE HeldInv'
  OBVIOUS
<1>. DEFINE l == ImplClose(plat)
<1>0. plat \in Platforms /\ i \in 1 .. 30 /\ pc = "abort"
  BY DEF OpenInv, TypeOK, StepInv, Abort, Descend
<1>1. Len(l) \in 1 .. 30 /\ Orderly(l, Freed) /\ i <= Len(l) /\ Bounds(held, l, i, Freed, KnownLeaks)
  BY <1>0, ImplCloseLen, AbortGives DEF HeldInv, DownInv
<1>2. Descend("abort", l, "free")
  BY DEF Abort
<1>. HIDE DEF l
<1>3. i \in 1 .. Len(l)
  BY <1>0, <1>1
<1>4. /\ UNCHANGED << plat, failed, stop, KnownLeaks >>
      /\ \/ pc' = "abort" /\ i' = i + 1 /\ i' <= Len(l) /\ Bounds(held', l, i', Freed, KnownLeaks)
         \/ /\ pc' = "free" /\ i' = 1
            /\ Freed \ Along \subseteq held' /\ held' \subseteq Freed \cup KnownLeaks
  BY <1>1, <1>2, <1>3, DescendHeld
<1>5. Freed' = Freed
  BY <1>4 DEF Freed
<1>6. CASE pc' = "abort"
  <2>1. i' <= Len(ImplClose(plat')) /\ Bounds(held', ImplClose(plat'), i', Freed', KnownLeaks')
    BY <1>4, <1>5, <1>6 DEF l
  <2>. QED  BY <1>6, <2>1 DEF HeldInv, UpInv, RunInv, DownInv, Running
<1>7. CASE pc' = "free"
  <2>1. Bounds(held', FreeLadder(plat'), i', {}, KnownLeaks')
    BY <1>0, <1>4, <1>7, FreeStarts
  <2>. QED  BY <1>7, <2>1 DEF HeldInv, UpInv, RunInv, DownInv, Running
<1>. QED  BY <1>4, <1>6, <1>7

LEMMA CloseHeld == OpenInv /\ HeldInv /\ Close => HeldInv'
<1>. SUFFICES ASSUME OpenInv, HeldInv, Close PROVE HeldInv'
  OBVIOUS
<1>. DEFINE l == CloseLadder(plat)
<1>0. plat \in Platforms /\ i \in 1 .. 30 /\ pc = "close" /\ failed = None
  BY DEF OpenInv, TypeOK, StepInv, HeldInv, UpInv, Close, Descend
<1>1. Len(l) \in 1 .. 30 /\ Orderly(l, Freed) /\ i <= Len(l) /\ Bounds(held, l, i, Freed, KnownLeaks)
  BY <1>0, CloseLadderIs, CloseGives DEF HeldInv, DownInv, OpenInv, StepInv
<1>2. Descend("close", l, "free")
  BY DEF Close
<1>. HIDE DEF l
<1>3. i \in 1 .. Len(l)
  BY <1>0, <1>1
<1>4. /\ UNCHANGED << plat, failed, stop, KnownLeaks >>
      /\ \/ pc' = "close" /\ i' = i + 1 /\ i' <= Len(l) /\ Bounds(held', l, i', Freed, KnownLeaks)
         \/ /\ pc' = "free" /\ i' = 1
            /\ Freed \ Along \subseteq held' /\ held' \subseteq Freed \cup KnownLeaks
  BY <1>1, <1>2, <1>3, DescendHeld
<1>5. Freed' = Freed
  BY <1>4 DEF Freed
<1>6. CASE pc' = "close"
  <2>1. Bounds(held', CloseLadder(plat'), i', Freed', KnownLeaks')
    BY <1>4, <1>5, <1>6 DEF l
  <2>. QED  BY <1>0, <1>4, <1>6, <2>1 DEF HeldInv, UpInv, RunInv, DownInv, Running
<1>7. CASE pc' = "free"
  <2>1. Bounds(held', FreeLadder(plat'), i', {}, KnownLeaks')
    BY <1>0, <1>4, <1>7, FreeStarts
  <2>. QED  BY <1>7, <2>1 DEF HeldInv, UpInv, RunInv, DownInv, Running
<1>. QED  BY <1>4, <1>6, <1>7

LEMMA FreeHeld == OpenInv /\ HeldInv /\ Free => HeldInv'
<1>. SUFFICES ASSUME OpenInv, HeldInv, Free PROVE HeldInv'
  OBVIOUS
<1>. DEFINE l == FreeLadder(plat)
<1>0. plat \in Platforms /\ i \in 1 .. 30 /\ pc = "free"
  BY DEF OpenInv, TypeOK, StepInv, Free, Descend
<1>1. Len(l) \in 1 .. 30 /\ Orderly(l, {}) /\ i <= Len(l) /\ Bounds(held, l, i, {}, KnownLeaks)
  BY <1>0, FreeLadderIs, CloseGives DEF HeldInv, DownInv, OpenInv, StepInv
<1>2. Descend("free", l, "done")
  BY DEF Free
<1>. HIDE DEF l
<1>3. i \in 1 .. Len(l)
  BY <1>0, <1>1
<1>4. /\ UNCHANGED << plat, failed, stop, KnownLeaks >>
      /\ \/ pc' = "free" /\ i' = i + 1 /\ i' <= Len(l) /\ Bounds(held', l, i', {}, KnownLeaks)
         \/ pc' = "done" /\ i' = 1 /\ held' \subseteq {} \cup KnownLeaks
  BY <1>1, <1>2, <1>3, DescendHeld
<1>6. CASE pc' = "free"
  <2>1. Bounds(held', FreeLadder(plat'), i', {}, KnownLeaks')
    BY <1>4, <1>6 DEF l
  <2>. QED  BY <1>6, <2>1 DEF HeldInv, UpInv, RunInv, DownInv, Running
<1>7. CASE pc' = "done"
  <2>1. held' \subseteq KnownLeaks'
    BY <1>4, <1>7
  <2>. QED  BY <1>7, <2>1 DEF HeldInv, UpInv, RunInv, DownInv, Running
<1>. QED  BY <1>4, <1>6, <1>7

-------------------------------------------------------------------------------
\* While the window is open.
LEMMA SameSets ==
  ASSUME plat' = plat
  PROVE  /\ Kept' = Kept /\ Own' = Own /\ Full' = Full /\ Freed' = Freed /\ Spare' = Spare
         /\ LoopInit(plat') = LoopInit(plat) /\ LoopRun(plat') = LoopRun(plat)
         /\ failed' = failed => KnownLeaks' = KnownLeaks
BY LeaksAre, LeaksNext DEF Kept, Own, Full, Freed, Spare

LEMMA StartHeld == OpenInv /\ HeldInv /\ Start => HeldInv'
<1>. SUFFICES ASSUME OpenInv, HeldInv, Start PROVE HeldInv'
  OBVIOUS
<1>1. /\ pc = "opened" /\ pc' \in {"timers", "get"} /\ plat' = plat /\ failed' = failed /\ stop' = stop
      /\ held' = held \cup LoopInit(plat) \cup LoopRun(plat)
  BY DEF Start, Top
<1>2. held = Full /\ ~stop /\ failed = None
  BY <1>1 DEF HeldInv, UpInv, RunInv
<1>3. RunInv'
  BY <1>1, <1>2, SameSets DEF RunInv
<1>. QED  BY <1>1, <1>2, <1>3 DEF HeldInv, UpInv, DownInv

LEMMA LoopHeld ==
  ASSUME HeldInv, pc \in Looping, pc' \in Looping, UNCHANGED << plat, held, failed, stop >>
  PROVE  HeldInv'
<1>1. failed = None /\ held = Full \cup LoopInit(plat) \cup (IF stop THEN {} ELSE LoopRun(plat))
  BY DEF HeldInv, UpInv, RunInv, Looping, Running
<1>2. RunInv'
  BY <1>1, SameSets DEF RunInv, Looping
<1>. QED  BY <1>1, <1>2 DEF HeldInv, UpInv, DownInv, Looping

LEMMA StopHeld ==
  ASSUME OpenInv, HeldInv, pc \in Looping, pc' \in Looping, UNCHANGED << plat, failed >>,
         NEW stops \in BOOLEAN, Stopping(stops)
  PROVE  HeldInv'
<1>1. failed = None /\ held = Full \cup LoopInit(plat) \cup (IF stop THEN {} ELSE LoopRun(plat)) /\ stop \in BOOLEAN
  BY DEF HeldInv, UpInv, RunInv, Looping, Running, OpenInv, TypeOK
<1>2. stop' = (stop \/ stops) /\ held' = IF stops THEN held \ LoopRun(plat) ELSE held
  BY DEF Stopping, LoopStop
<1>3. Full \cap LoopRun(plat) = {} /\ LoopInit(plat) \cap LoopRun(plat) = {}
  BY LoopApart DEF OpenInv, TypeOK
<1>4. held' = Full \cup LoopInit(plat) \cup (IF stop' THEN {} ELSE LoopRun(plat))
  <2>1. CASE stops
    BY <1>1, <1>2, <1>3, <2>1
  <2>2. CASE ~stops
    BY <1>1, <1>2, <2>2
  <2>. QED  BY <2>1, <2>2
<1>5. RunInv'
  BY <1>4, SameSets DEF RunInv, Looping
<1>. QED  BY <1>1, <1>5 DEF HeldInv, UpInv, DownInv, Looping

LEMMA HandlingLoops ==
  ASSUME OpenInv, NEW k, Handling(k)
  PROVE  pc \in Looping /\ pc' \in Looping /\ UNCHANGED << plat, failed >>
<1>1. pc \in {"drain", "handle"} /\ back # None /\ back \in {None, "poll", "check", "get"}
  BY DEF OpenInv, PathInv, TypeOK, Handling
<1>. QED  BY <1>1 DEF Handling, Looping

LEMMA HandlersHeld ==
  OpenInv /\ HeldInv /\ (Map \/ Configure \/ CloseAsked \/ Expose \/ OtherMessage \/ Press \/ Release) => HeldInv'
<1>. SUFFICES ASSUME OpenInv, HeldInv, Map \/ Configure \/ CloseAsked \/ Expose \/ OtherMessage \/ Press \/ Release
              PROVE  HeldInv'
  OBVIOUS
<1>1. CASE Map
  BY <1>1, HandlingLoops, LoopHeld DEF Map
<1>2. CASE Configure
  BY <1>2, HandlingLoops, LoopHeld DEF Configure
<1>3. CASE CloseAsked
  BY <1>3, HandlingLoops, StopHeld DEF CloseAsked, win_event
<1>4. CASE Expose \/ OtherMessage
  BY <1>4, HandlingLoops, LoopHeld DEF Expose, OtherMessage
<1>5. CASE Press
  BY <1>5, HandlingLoops, StopHeld DEF Press
<1>6. CASE Release
  BY <1>6, HandlingLoops, StopHeld DEF Release
<1>. QED  BY <1>1, <1>2, <1>3, <1>4, <1>5, <1>6

LEMMA LoopStepsHeld ==
  OpenInv /\ HeldInv /\ (FrameCb \/ NotDue \/ PollCb \/ NotReadable \/ Drained \/ Draw \/ Leave \/ Timer \/ Message)
    => HeldInv'
<1>. SUFFICES ASSUME OpenInv, HeldInv,
                     FrameCb \/ NotDue \/ PollCb \/ NotReadable \/ Drained \/ Draw \/ Leave \/ Timer \/ Message
              PROVE  HeldInv'
  OBVIOUS
<1>1. UNCHANGED << plat, held, failed, stop >>
  BY DEF FrameCb, NotDue, PollCb, NotReadable, Drained, Draw, Leave, Timer, Message, Rest, input
<1>2. pc \in Looping
  BY DEF FrameCb, NotDue, PollCb, NotReadable, Drained, Draw, Leave, Timer, Message, Looping
<1>3. /\ pc = "drain" => then \in {"draw", "unlock"}
      /\ pc \in {"drain", "draw", "unlock", "handle"} => back \in {"poll", "check", "get"}
  BY DEF OpenInv, PathInv, TypeOK
<1>4. pc' \in Looping
  BY <1>3 DEF FrameCb, NotDue, PollCb, NotReadable, Drained, Draw, Leave, Timer, Message, Looping
<1>. QED  BY <1>1, <1>2, <1>4, LoopHeld

LEMMA CheckHeld == OpenInv /\ HeldInv /\ Check => HeldInv'
<1>. SUFFICES ASSUME OpenInv, HeldInv, Check PROVE HeldInv'
  OBVIOUS
<1>1. /\ pc = "check" /\ UNCHANGED << plat, held, failed, stop >>
      /\ pc' = IF stop THEN "fini" ELSE Top
  BY DEF Check, Rest
<1>2. CASE ~stop
  BY <1>1, <1>2, LoopHeld DEF Top, Looping
<1>3. CASE stop
  <2>1. failed = None /\ held = Full \cup LoopInit(plat)
    BY <1>1, <1>3 DEF HeldInv, UpInv, RunInv, Running
  <2>. QED  BY <1>1, <1>3, <2>1, SameSets DEF HeldInv, UpInv, RunInv, DownInv, Running
<1>. QED  BY <1>2, <1>3

LEMMA LoopQuitsHeld == OpenInv /\ HeldInv /\ LoopQuits => HeldInv'
<1>. SUFFICES ASSUME OpenInv, HeldInv, LoopQuits PROVE HeldInv'
  OBVIOUS
<1>1. plat = "win" /\ pc = "get" /\ pc' = "fini" /\ UNCHANGED << plat, held, failed, stop >>
  BY DEF LoopQuits, Rest
<1>2. failed = None /\ held = Full \cup LoopInit(plat) \cup (IF stop THEN {} ELSE LoopRun(plat))
  BY <1>1 DEF HeldInv, UpInv, RunInv, Running
<1>3. LoopRun(plat) = Spare
  BY <1>1 DEF LoopRun, Spare
<1>4. RunInv'
  BY <1>1, <1>2, <1>3, SameSets DEF RunInv, Running
<1>. QED  BY <1>1, <1>2, <1>4 DEF HeldInv, UpInv, DownInv

LEMMA FiniHeld == OpenInv /\ HeldInv /\ Fini => HeldInv'
<1>. SUFFICES ASSUME OpenInv, HeldInv, Fini PROVE HeldInv'
  OBVIOUS
<1>1. /\ pc = "fini" /\ pc' = "lock" /\ UNCHANGED << plat, failed, stop >>
      /\ held' = held \ LoopInit(plat)
  BY DEF Fini, Rest, LoopFini
<1>2. /\ failed = None /\ Full \cup LoopInit(plat) \subseteq held
      /\ held \subseteq Full \cup LoopInit(plat) \cup Spare
  BY <1>1 DEF HeldInv, UpInv, RunInv
<1>3. Full \subseteq held' /\ held' \subseteq Full \cup Spare
  BY <1>1, <1>2, LoopApart DEF OpenInv, TypeOK
<1>4. RunInv'
  BY <1>1, <1>3, SameSets DEF RunInv, Running
<1>. QED  BY <1>1, <1>2, <1>4 DEF HeldInv, UpInv, DownInv

LEMMA LockToCloseHeld == OpenInv /\ HeldInv /\ LockToClose => HeldInv'
<1>. SUFFICES ASSUME OpenInv, HeldInv, LockToClose PROVE HeldInv'
  OBVIOUS
<1>1. pc = "lock" /\ pc' = "close" /\ UNCHANGED << plat, i, held, failed, stop >>
  BY DEF LockToClose, Rest
<1>2. failed = None /\ Full \subseteq held /\ held \subseteq Full \cup Spare /\ i = 1 /\ plat \in Platforms
  BY <1>1 DEF HeldInv, UpInv, RunInv, OpenInv, StepInv, TypeOK
<1>3. Bounds(held, CloseLadder(plat), 1, Freed, LeaksOf(failed))
  <2>1. Ahead(CloseLadder(plat), 1) = Drawn \cup Closed \cup {"locked"}
    BY <1>2, CloseGives
  <2>2. /\ Freed \ Along \subseteq Kept /\ Kept \subseteq Freed \cup LeaksOf(failed)
        /\ Closed \ Along \subseteq Own /\ Own \subseteq Closed \cup Freed \cup LeaksOf(failed)
        /\ Spare \subseteq Closed
        /\ "locked" \notin Closed /\ "locked" \notin Drawn /\ "locked" \in Along
    BY <1>2, FreedOrKept, ClosedOrOwn DEF Along
  <2>. QED  BY <1>2, <2>1, <2>2 DEF Bounds, Full
<1>4. Bounds(held', CloseLadder(plat'), i', Freed', KnownLeaks')
  BY <1>1, <1>2, <1>3, LeaksNext, SameSets
<1>. QED  BY <1>1, <1>2, <1>4 DEF HeldInv, UpInv, RunInv, DownInv, Running

LEMMA SameHeld == HeldInv /\ UNCHANGED << plat, main, stop >> => HeldInv'
<1>. SUFFICES ASSUME HeldInv, UNCHANGED << plat, main, stop >> PROVE HeldInv'
  OBVIOUS
<1>1. UNCHANGED << plat, pc, i, held, failed, stop, Kept, Own, Full, Freed, Spare, KnownLeaks, Running >>
  BY SameSets DEF main, Running
<1>2. UpInv'
  BY <1>1 DEF HeldInv, UpInv
<1>3. RunInv'
  BY <1>1 DEF HeldInv, RunInv
<1>4. DownInv'
  BY <1>1 DEF HeldInv, DownInv
<1>. QED  BY <1>2, <1>3, <1>4 DEF HeldInv

LEMMA NextHeld == OpenInv /\ HeldInv /\ [Next]_vars => HeldInv'
<1>. SUFFICES ASSUME OpenInv, HeldInv, [Next]_vars PROVE HeldInv'
  OBVIOUS
<1>1. CASE Alloc \/ OpenImpl \/ Open
  BY <1>1, AllocHeld, OpenImplHeld, GlHeld
<1>2. CASE Abort \/ Close \/ Free
  BY <1>2, AbortHeld, CloseHeld, FreeHeld
<1>3. CASE Start \/ Check \/ LoopQuits \/ Fini \/ LockToClose
  BY <1>3, StartHeld, CheckHeld, LoopQuitsHeld, FiniHeld, LockToCloseHeld
<1>4. CASE FrameCb \/ NotDue \/ PollCb \/ NotReadable \/ Drained \/ Draw \/ Leave \/ Timer \/ Message
  BY <1>4, LoopStepsHeld
<1>5. CASE Map \/ Configure \/ CloseAsked \/ Expose \/ OtherMessage \/ Press \/ Release
  BY <1>5, HandlersHeld
<1>6. CASE Wants \/ WorkerLock \/ WorkerUnlock \/ SystemSends \/ LoseCapture \/ PointerMoves
  <2>1. UNCHANGED << plat, main, stop >>
    BY <1>6 DEF Wants, WorkerLock, WorkerUnlock, SystemSends, LoseCapture, PointerMoves
  <2>. QED  BY <2>1, SameHeld
<1>7. CASE Ended \/ UNCHANGED vars
  <2>1. UNCHANGED << plat, main, stop >>
    BY <1>7 DEF Ended, vars
  <2>. QED  BY <2>1, SameHeld
<1>. QED  BY <1>1, <1>2, <1>3, <1>4, <1>5, <1>6, <1>7 DEF Next, MainStep

-------------------------------------------------------------------------------
\* Nothing that is held lives on what is not.
Standing(s) == \A r \in s : LivesOn(plat, r) \subseteq s

LEMMA GroundedStands ==
  ASSUME NEW l, NEW base, NEW n \in 0 .. Len(l), Len(l) \in Nat, Grounded(l, base), Standing(base)
  PROVE  Standing(base \cup Gave(l, n))
<1>1. ASSUME NEW r \in Gave(l, n) PROVE LivesOn(plat, r) \subseteq base \cup Gave(l, n)
  <2>1. PICK k \in 1 .. n : r \in l[k].gives
    BY DEF Gave
  <2>2. LivesOn(plat, r) \subseteq base \cup Gave(l, k)
    BY <2>1 DEF Grounded
  <2>3. Gave(l, k) \subseteq Gave(l, n)
    BY ShedIn
  <2>. QED  BY <2>2, <2>3
<1>. QED  BY <1>1 DEF Standing

LEMMA KeptStands ==
  ASSUME plat \in Platforms
  PROVE  Standing(Kept) /\ Standing(Kept \cup Own) /\ Standing(Full)
<1>1. Standing(Kept)
  <2>. DEFINE l == AllocLadder(plat)
  <2>1. Len(l) \in 1 .. 30 /\ Grounded(l, {}) /\ Gave(l, Len(l)) = Kept
    BY AllocLen, AllocGrounded, AllocGives
  <2>. HIDE DEF l
  <2>2. Standing({} \cup Gave(l, Len(l)))
    BY <2>1, GroundedStands DEF Standing
  <2>. QED  BY <2>1, <2>2
<1>2. Standing(Kept \cup Own)
  <2>. DEFINE l == OpenLadder(plat)
  <2>1. Len(l) \in 1 .. 30 /\ Grounded(l, Kept) /\ Reopens(l)
    BY OpenLen, OpenGives
  <2>. HIDE DEF l
  <2>0. Len(l) \in 0 .. Len(l) /\ Len(l) \in Nat
    BY <2>1
  <2>2. Standing(Kept \cup Gave(l, Len(l)))
    BY <1>1, <2>0, <2>1, GroundedStands
  <2>3. /\ (Kept \cup Gave(l, Len(l))) \ Shed(l, Len(l)) = Kept \cup Own
        /\ Shed(l, Len(l)) \subseteq {"trampoline", "wtitle"}
    BY <2>1 DEF Reopens
  <2>. QED  BY <2>2, <2>3, ShedUnneeded DEF Standing
<1>3. Drawn \cap Own = {} /\ {"ctx", "window"} \subseteq Kept \cup Own
  BY DEF Drawn, Own, Platforms
<1>4. Standing(Full)
  BY <1>2, <1>3, LivesOnIs DEF Standing, Full
<1>. QED  BY <1>1, <1>2, <1>4

LEMMA GlStands ==
  ASSUME plat \in Platforms, NEW n \in 0 .. 14
  PROVE  Standing(Kept \cup Own \cup Gave(GlLadder, n))
<1>1. Gave(GlLadder, n) \subseteq Drawn
  BY GlGives DEF Gave
<1>2. {"ctx", "window"} \subseteq Kept \cup Own
  BY DEF Own, Platforms
<1>. QED  BY <1>1, <1>2, KeptStands, LivesOnIs DEF Standing

LEMMA AheadStands ==
  ASSUME NEW l, NEW after, Len(l) \in Nat, Orderly(l, after), Standing(after), NEW n \in 1 .. Len(l)
  PROVE  Standing((Ahead(l, n) \ {"locked"}) \cup after)
<1>1. ASSUME NEW r \in Ahead(l, n) \ {"locked"}
      PROVE  LivesOn(plat, r) \subseteq (Ahead(l, n) \ {"locked"}) \cup after
  <2>1. PICK k \in n .. Len(l) : r \in l[k]
    BY DEF Ahead
  <2>2. LivesOn(plat, r) \subseteq (Ahead(l, k) \ {"locked"}) \cup after
    BY <2>1 DEF Orderly
  <2>3. Ahead(l, k) \subseteq Ahead(l, n)
    BY DEF Ahead
  <2>. QED  BY <2>2, <2>3
<1>. QED  BY <1>1 DEF Standing

\* Nothing lives on what may not be there.
LEMMA AlongUnneeded ==
  ASSUME plat \in Platforms, NEW r
  PROVE  LivesOn(plat, r) \cap Along = {}
BY SMTT(60) DEF LivesOn, Platforms, Along

\* On the way down what is held, the leaks apart, stands.
LEMMA BoundsStand ==
  ASSUME plat \in Platforms, NEW l, NEW after, Len(l) \in Nat, Orderly(l, after), Standing(after),
         NEW n \in 1 .. Len(l), Bounds(held, l, n, after, KnownLeaks)
  PROVE  NothingOutlives
<1>1. Standing((Ahead(l, n) \ {"locked"}) \cup after)
  BY AheadStands
<1>2. SUFFICES ASSUME NEW r \in held \ KnownLeaks PROVE LivesOn(plat, r) \subseteq held
  BY DEF NothingOutlives
<1>3. LivesOn(plat, r) \subseteq (Ahead(l, n) \ {"locked"}) \cup after
  BY <1>1, <1>2 DEF Bounds, Standing
<1>. QED  BY <1>3, AlongUnneeded DEF Bounds

LEMMA FreedStands ==
  ASSUME plat \in Platforms
  PROVE  Standing(Freed)
<1>. DEFINE m == FreeLadder(plat)
<1>1. Len(m) \in 1 .. 30 /\ Orderly(m, {}) /\ Ahead(m, 1) = Freed /\ "locked" \notin Freed
  BY FreeLadderIs, CloseGives
<1>. HIDE DEF m
<1>2. 1 \in 1 .. Len(m) /\ Len(m) \in Nat
  <2>1. \A n \in 1 .. 30 : 1 \in 1 .. n /\ n \in Nat
    OBVIOUS
  <2>. QED  BY <1>1, <2>1, Zenon
<1>3. Standing((Ahead(m, 1) \ {"locked"}) \cup {})
  BY <1>1, <1>2, AheadStands DEF Standing
<1>4. (Ahead(m, 1) \ {"locked"}) \cup {} = Freed
  BY <1>1
<1>. QED  BY <1>3, <1>4

LEMMA UpStands ==
  ASSUME OpenInv, HeldInv, pc \notin {"abort", "close", "free", "done"}
  PROVE  NothingOutlives
<1>. SUFFICES Standing(held)
  BY DEF NothingOutlives, Standing
<1>0. plat \in Platforms /\ i \in 1 .. 30
  BY DEF OpenInv, TypeOK, StepInv
<1>1. CASE pc = "alloc"
  <2>. DEFINE l == AllocLadder(plat)
  <2>1. i <= Len(l) /\ held = Gave(l, i - 1)
    BY <1>1 DEF HeldInv, UpInv
  <2>2. Len(l) \in 1 .. 30 /\ Grounded(l, {})
    BY <1>0, AllocLen, AllocGrounded
  <2>. HIDE DEF l
  <2>3. i - 1 \in 0 .. Len(l) /\ Len(l) \in Nat
    BY <1>0, <2>1, <2>2
  <2>4. Standing({} \cup Gave(l, i - 1))
    BY <2>2, <2>3, GroundedStands DEF Standing
  <2>. QED  BY <2>1, <2>4
<1>2. CASE pc = "open"
  <2>. DEFINE l == OpenLadder(plat)
  <2>1. i <= Len(l) /\ held = (Kept \cup Gave(l, i - 1)) \ Shed(l, i - 1)
    BY <1>2 DEF HeldInv, UpInv
  <2>2. Len(l) \in 1 .. 30 /\ Grounded(l, Kept) /\ Reopens(l)
    BY <1>0, OpenLen, OpenGives
  <2>. HIDE DEF l
  <2>3. i - 1 \in 0 .. Len(l) /\ Len(l) \in Nat
    BY <1>0, <2>1, <2>2
  <2>4. Standing(Kept \cup Gave(l, i - 1))
    BY <1>0, <2>2, <2>3, KeptStands, GroundedStands
  <2>5. Shed(l, i - 1) \subseteq {"trampoline", "wtitle"}
    BY <2>2, <2>3, ShedIn DEF Reopens
  <2>. QED  BY <1>0, <2>1, <2>4, <2>5, ShedUnneeded DEF Standing
<1>3. CASE pc = "gl"
  <2>1. i <= 14 /\ held = Kept \cup Own \cup Gave(GlLadder, i - 1)
    BY <1>3, GlGives DEF HeldInv, UpInv
  <2>2. i - 1 \in 0 .. 14
    BY <1>0, <2>1
  <2>. QED  BY <1>0, <2>1, <2>2, GlStands
<1>4. CASE pc \in Looping \cup {"opened", "fini", "lock"}
  <2>1. Full \subseteq held /\ held \subseteq Full \cup LoopInit(plat) \cup LoopRun(plat)
    <3>1. Spare \subseteq LoopRun(plat)
      BY DEF Spare, LoopRun
    <3>. QED  BY <1>4, <3>1 DEF HeldInv, RunInv, Running, Looping
  <2>. QED  BY <1>0, <2>1, KeptStands, LoopApart DEF Standing
<1>. QED  BY <1>1, <1>2, <1>3, <1>4 DEF OpenInv, TypeOK, Looping

LEMMA HeldStands ==
  ASSUME OpenInv, HeldInv
  PROVE  NothingOutlives
<1>0. plat \in Platforms /\ i \in 1 .. 30
  BY DEF OpenInv, TypeOK, StepInv
<1>. DEFINE Steps(l) == Len(l) \in 1 .. 30 /\ i <= Len(l)
<1>1. ASSUME NEW l, Steps(l) PROVE Len(l) \in Nat /\ i \in 1 .. Len(l)
  BY <1>0, <1>1
<1>2. CASE pc = "abort"
  <2>1. Steps(ImplClose(plat)) /\ Orderly(ImplClose(plat), Freed)
        /\ Bounds(held, ImplClose(plat), i, Freed, KnownLeaks)
    BY <1>0, <1>2, ImplCloseLen, AbortGives DEF HeldInv, DownInv
  <2>2. Len(ImplClose(plat)) \in Nat /\ i \in 1 .. Len(ImplClose(plat))
    BY <1>1, <2>1
  <2>. QED  BY <1>0, <2>1, <2>2, FreedStands, BoundsStand
<1>3. CASE pc = "close"
  <2>1. Steps(CloseLadder(plat)) /\ Orderly(CloseLadder(plat), Freed)
        /\ Bounds(held, CloseLadder(plat), i, Freed, KnownLeaks)
    BY <1>0, <1>3, CloseLadderIs, CloseGives DEF HeldInv, DownInv, OpenInv, StepInv
  <2>2. Len(CloseLadder(plat)) \in Nat /\ i \in 1 .. Len(CloseLadder(plat))
    BY <1>1, <2>1
  <2>. QED  BY <1>0, <2>1, <2>2, FreedStands, BoundsStand
<1>4. CASE pc = "free"
  <2>1. Steps(FreeLadder(plat)) /\ Orderly(FreeLadder(plat), {})
        /\ Bounds(held, FreeLadder(plat), i, {}, KnownLeaks)
    BY <1>0, <1>4, FreeLadderIs, CloseGives DEF HeldInv, DownInv, OpenInv, StepInv
  <2>2. Len(FreeLadder(plat)) \in Nat /\ i \in 1 .. Len(FreeLadder(plat)) /\ Standing({})
    BY <1>1, <2>1 DEF Standing
  <2>. QED  BY <1>0, <2>1, <2>2, BoundsStand
<1>5. CASE pc = "done"
  BY <1>5 DEF HeldInv, DownInv, NothingOutlives
<1>6. CASE pc \notin {"abort", "close", "free", "done"}
  BY <1>6, UpStands
<1>. QED  BY <1>2, <1>3, <1>4, <1>5, <1>6

LEMMA HeldReleased ==
  ASSUME OpenInv, HeldInv
  PROVE  ReleasedOnce
<1>0. plat \in Platforms /\ i \in 1 .. 30
  BY DEF OpenInv, TypeOK, StepInv
<1>1. ASSUME NEW l, Len(l) \in 1 .. 30, i <= Len(l) PROVE l[i] \subseteq Ahead(l, i)
  <2>1. i \in 1 .. Len(l) /\ Len(l) \in Nat
    BY <1>0, <1>1
  <2>. QED  BY <2>1, AheadAt
<1>2. pc = "abort" => ImplClose(plat)[i] \ Along \subseteq held
  BY <1>0, <1>1, ImplCloseLen DEF HeldInv, DownInv, Bounds
<1>3. pc = "close" => CloseLadder(plat)[i] \ Along \subseteq held
  BY <1>0, <1>1, CloseLadderIs DEF HeldInv, DownInv, OpenInv, StepInv, Bounds
<1>4. pc = "free" => FreeLadder(plat)[i] \ Along \subseteq held
  BY <1>0, <1>1, FreeLadderIs DEF HeldInv, DownInv, OpenInv, StepInv, Bounds
<1>. QED  BY <1>2, <1>3, <1>4 DEF ReleasedOnce

LEMMA ImpliesReleases == OpenInv /\ HeldInv => ReleasesSound
<1>. SUFFICES ASSUME OpenInv, HeldInv PROVE ReleasesSound
  OBVIOUS
<1>1. LeaksKnown
  BY DEF HeldInv, DownInv, LeaksKnown
<1>. QED  BY <1>1, HeldStands, HeldReleased DEF ReleasesSound

\* On every platform, wherever the way up fails and however the loop ends:
\* nothing but a known leak outlives what it was made from or is kept in,
\* nothing is released twice, and a program that has ended leaves only what is
\* known to leak on its platform, by the part that failed (window.c,
\* x11-xcb/window.c, x11-xcb/rtb.c, win/window.c, win/event.c, cocoa/window.m).
THEOREM ReleasesAreSound == Spec => []ReleasesSound
<1>1. Spec => Init /\ [][Next]_vars
  BY DEF Spec
<1>. QED  BY <1>1, InitCapture, NextCapture, InitOpen, NextOpen, InitHeld, NextHeld, ImpliesReleases, PTL
===============================================================================
