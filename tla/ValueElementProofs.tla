-------------------------- MODULE ValueElementProofs --------------------------
(***************************************************************************)
(* Theorems about value elements, for every range, grid and nesting.       *)
(***************************************************************************)
EXTENDS ValueElement, SequenceTheorems, TLAPS

-------------------------------------------------------------------------------
(***************************************************************************)
(* What is left to do                                                      *)
(***************************************************************************)
OpName == {"begin", "end", "delta", "set", "fraction", "hook", "change", "cursor"}
Edit   == {"DRAG", "WHEEL", "DISCRETE"}
Todo   == {c \in [op : OpName, to : Edit \cup Sources \cup {"none", "default", "hidden"},
                  by : Int, user : BOOLEAN] :
             /\ c.op \in {"begin", "end"} => c.to \in Edit
             /\ c.op \in {"delta", "set", "fraction", "hook", "change"} => c.to \in Sources \cup {"none"}
             /\ c.op = "delta" => c.user = TRUE
             /\ c.op = "cursor" => c.to \in {"default", "hidden"}}

Buttons == [1 .. 2 -> [state : {"UP", "DOWN", "DRAG"}, on : BOOLEAN]]

\* What events, the application and its handlers ask for.
Plain == {c \in Todo : c.op \notin {"hook", "change"}}

PointerTyped ==
  /\ attached \in BOOLEAN /\ inside \in BOOLEAN /\ mouse_in \in BOOLEAN /\ denied \in BOOLEAN
  /\ irregular \in BOOLEAN /\ lost \in BOOLEAN /\ strayed \in BOOLEAN
  /\ cursor \in {"default", "hidden"} /\ button \in Buttons

\* No call of change_state names the state of rest.
Typed ==
  /\ PointerTyped
  /\ calls \in Seq(Todo)
  /\ norm \in -1 .. Precision /\ value \in Int /\ shown \in [norm : -1 .. Precision, value : Int]
  /\ ve_state \in Edit \cup {"REST"}

EditInv == Typed /\ EditsPaired

LEMMA PlainIsTodo ==
  ASSUME NEW s \in Seq(Plain)
  PROVE  s \in Seq(Todo)
BY SeqMonotonic, Plain \subseteq Todo DEF Plain

LEMMA PlainOne == ASSUME NEW c \in Plain PROVE <<c>> \in Seq(Plain)
OBVIOUS

LEMMA PlainTwo == ASSUME NEW c \in Plain, NEW d \in Plain PROVE <<c, d>> \in Seq(Plain)
OBVIOUS

LEMMA EditOps ==
  ASSUME NEW s \in Edit
  PROVE  Begin(s) \in Plain /\ End(s) \in Plain
BY DEF Begin, End, Op, Plain, Todo, OpName

LEMMA CursorOps ==
  ASSUME NEW c \in {"default", "hidden"}
  PROVE  Cursor(c) \in Plain
BY DEF Cursor, Op, Plain, Todo, OpName

LEMMA SetOps ==
  ASSUME NEW n \in Int, NEW user \in BOOLEAN, NEW to \in Sources \cup {"none"},
         NEW op \in {"delta", "set", "fraction"}, op = "delta" => user = TRUE
  PROVE  Op(op, to, n, user) \in Plain
BY DEF Op, Plain, Todo, OpName

LEMMA DiscreteOps ==
  ASSUME NEW ops \in Seq(Plain)
  PROVE  Discretely(ops) \in Seq(Plain)
<1>1. <<Begin("DISCRETE")>> \in Seq(Plain) /\ <<End("DISCRETE")>> \in Seq(Plain)
  BY EditOps, PlainOne DEF Edit
<1>. QED  BY <1>1, ConcatProperties DEF Discretely

LEMMA RestTyped ==
  ASSUME Typed, calls # <<>>
  PROVE  Rest \in Seq(Todo) /\ Top \in Todo
BY HeadTailProperties DEF Typed, Rest, Top

-------------------------------------------------------------------------------
(***************************************************************************)
(* The value                                                               *)
(***************************************************************************)
LEMMA GridTyped == ASSUME NEW x \in Int PROVE OnGrid(x) \in Int
<1>1. CASE Granularity = 0
  BY <1>1 DEF OnGrid
<1>2. CASE Granularity # 0
  <2>. DEFINE g == Granularity * Precision
  <2>1. g \in Int /\ g > 0
    BY <1>2, ValueAssumption
  <2>. HIDE DEF g
  <2>2. (x \div g) * g \in Int
    BY <2>1
  <2>. QED  BY <1>2, <2>2 DEF OnGrid, g
<1>. QED  BY <1>1, <1>2

LEMMA ClampTyped == ASSUME NEW n \in Int PROVE Clamp(n) \in 0 .. Precision
BY ValueAssumption DEF Clamp

LEMMA NormalisedTyped == ASSUME NEW v \in Int PROVE Normalised(v) \in Int
<1>1. Span \in Int /\ Span > 0
  BY ValueAssumption DEF Span
<1>. DEFINE x == 2 * (v - Low) * Precision + Span
            d == 2 * Span
<1>2. x \in Int /\ d \in Int /\ d > 0
  BY <1>1, ValueAssumption
<1>. HIDE DEF x, d
<1>3. x \div d \in Int
  BY <1>2
<1>. QED  BY <1>3 DEF Normalised, x, d

\* Setting the value changes no edit, and leaves typed what is left to do.
LEMMA SetTyped ==
  ASSUME Typed, calls # <<>>, NEW n \in Int, NEW user \in BOOLEAN, Set(n, user),
         Top.to \in Sources \cup {"none"}
  PROVE  /\ calls' \in Seq(Todo)
         /\ norm' \in -1 .. Precision /\ value' \in Int
         /\ shown' \in [norm : -1 .. Precision, value : Int]
<1>. DEFINE new == OnGrid(Low * Precision + Clamp(n) * Span)
            change == Op("change", Top.to, 0, user)
<1>1. Clamp(n) \in 0 .. Precision /\ new \in Int
  <2>1. Clamp(n) \in 0 .. Precision
    BY ClampTyped
  <2>2. Low * Precision + Clamp(n) * Span \in Int
    BY <2>1, ValueAssumption DEF Span
  <2>. QED  BY <2>1, <2>2, GridTyped
<1>2. Rest \in Seq(Todo) /\ <<change>> \o Rest \in Seq(Todo) /\ <<>> \o Rest \in Seq(Todo)
  <2>1. change \in Todo
    BY DEF Op, Todo, OpName
  <2>. HIDE DEF change
  <2>2. <<change>> \in Seq(Todo) /\ <<>> \in Seq(Todo)
    BY <2>1
  <2>. QED  BY <2>2, RestTyped, ConcatProperties
<1>. HIDE DEF change
<1>3. calls' \in Seq(Todo)
  BY <1>2 DEF Set, change
<1>. HIDE DEF new
<1>4. /\ norm' = Clamp(n)
      /\ \/ UNCHANGED <<value, shown>>
         \/ value' = new /\ shown' = [norm |-> Clamp(n), value |-> new]
  BY DEF Set, new
<1>. QED  BY <1>1, <1>3, <1>4, ValueAssumption DEF Typed

-------------------------------------------------------------------------------
(***************************************************************************)
(* The edits                                                               *)
(***************************************************************************)
LEMMA InitEdits == Init => EditInv
<1>. SUFFICES ASSUME Init PROVE EditInv
  OBVIOUS
<1>1. /\ attached \in BOOLEAN /\ inside \in BOOLEAN /\ mouse_in \in BOOLEAN /\ denied \in BOOLEAN
      /\ irregular \in BOOLEAN /\ lost \in BOOLEAN /\ strayed \in BOOLEAN
  BY Zenon DEF Init
<1>2. button \in Buttons
  BY DEF Init, Buttons
<1>. QED  BY <1>1, <1>2, ValueAssumption DEF Init, EditInv, Typed, PointerTyped, EditsPaired, held, Buttons

\* Most steps only say what is left to do.
LEMMA CallsOnly ==
  ASSUME EditInv, UNCHANGED <<held, ve_state, editing>>, calls' \in Seq(Todo), PointerTyped'
  PROVE  EditInv'
BY DEF EditInv, Typed, EditsPaired, held

LEMMA PointerKept ==
  ASSUME PointerTyped, UNCHANGED <<attached, pointer>>
  PROVE  PointerTyped'
BY DEF PointerTyped, pointer

\* An element that is asked to do something does it.
LEMMA DoEdits ==
  ASSUME EditInv,
         DoDelta \/ DoSet \/ DoFraction \/ DoHook \/ DoBegin \/ DoEnd \/ DoChange \/ DoCursor
  PROVE  EditInv'
<1>0. Typed /\ calls # <<>> /\ Top \in Todo /\ Rest \in Seq(Todo)
  <2>1. Typed /\ calls # <<>>
    BY DEF EditInv, DoDelta, DoSet, DoFraction, DoHook, DoBegin, DoEnd, DoChange, DoCursor, Running
  <2>. QED  BY <2>1, RestTyped
<1>1. /\ Top.op \in OpName /\ Top.by \in Int /\ Top.user \in BOOLEAN
      /\ Top.op \in {"begin", "end"} => Top.to \in Edit
      /\ Top.op = "cursor" => Top.to \in {"default", "hidden"}
      /\ Top.op \in {"delta", "set", "fraction", "hook", "change"} => Top.to \in Sources \cup {"none"}
  BY <1>0 DEF Todo
<1>2. ASSUME NEW n \in Int, NEW user \in BOOLEAN, Set(n, user), UNCHANGED <<ve_state, editing, attached, pointer>>,
             Top.op \in {"delta", "set", "fraction"}
      PROVE  EditInv'
  <2>1. Top.to \in Sources \cup {"none"}
    BY <1>1, <1>2
  <2>. QED  BY <1>0, <1>2, <2>1, SetTyped, PointerKept DEF EditInv, Typed, EditsPaired
<1>3. CASE DoDelta
  <2>1. norm + Top.by \in Int
    BY <1>0, <1>1, ValueAssumption DEF Typed
  <2>. QED  BY <1>2, <1>3, <2>1 DEF DoDelta, Running
<1>4. CASE DoSet
  BY <1>1, <1>2, <1>4, NormalisedTyped DEF DoSet, Running
<1>5. CASE DoFraction
  BY <1>1, <1>2, <1>5 DEF DoFraction, Running
<1>6. CASE DoHook
  BY <1>0, <1>6, PointerKept DEF DoHook, EditInv, Typed, EditsPaired
<1>7. CASE DoBegin
  BY <1>0, <1>1, <1>7, PointerKept DEF DoBegin, Running, Tells, held, EditInv, Typed, EditsPaired, Edit
<1>8. CASE DoEnd
  BY <1>0, <1>1, <1>8, PointerKept DEF DoEnd, Running, Ends, held, EditInv, Typed, EditsPaired, Edit
<1>9. CASE DoChange
  <2>1. ASSUME NEW v \in Asked, NEW user \in BOOLEAN
        PROVE  <<SetTo(v, user)>> \in Seq(Plain)
    <3>1. v \in Int
      BY ValueAssumption
    <3>. QED  BY <3>1, SetOps, PlainOne DEF SetTo
  <2>2. ASSUME NEW v \in Asked
        PROVE  /\ Discretely(<<SetTo(v, TRUE)>>) \o Rest \in Seq(Todo)
               /\ <<SetTo(v, FALSE)>> \o Rest \in Seq(Todo)
    BY <1>0, <2>1, DiscreteOps, PlainIsTodo, ConcatProperties
  <2>3. calls' \in Seq(Todo)
    BY <1>0, <1>9, <2>2 DEF DoChange
  <2>. QED  BY <1>0, <1>9, <2>3, CallsOnly, PointerKept DEF DoChange, Typed
<1>10. CASE DoCursor
  <2>1. PointerTyped'
    BY <1>0, <1>1, <1>10 DEF DoCursor, Running, Typed, PointerTyped
  <2>. QED  BY <1>0, <1>10, <2>1, CallsOnly DEF DoCursor
<1>. QED  BY <1>3, <1>4, <1>5, <1>6, <1>7, <1>8, <1>9, <1>10

LEMMA DragTyped ==
  ASSUME NEW b \in 1 .. 2, NEW d \in Deltas, button \in Buttons
  PROVE  DragCalls(b, d) \in Seq(Plain)
<1>1. d \in Int /\ Delta(d) \in Plain
  BY ValueAssumption, SetOps DEF Delta
<1>2. Cursor("default") \in Plain /\ Cursor("hidden") \in Plain /\ End("DRAG") \in Plain
  BY CursorOps, EditOps DEF Edit
<1>3. /\ <<>> \in Seq(Plain) /\ <<Cursor("default"), End("DRAG")>> \in Seq(Plain)
      /\ <<Cursor("hidden"), Delta(d)>> \in Seq(Plain) /\ <<Delta(d)>> \in Seq(Plain)
  BY <1>1, <1>2, PlainOne, PlainTwo
<1>4. button[b].state \in {"UP", "DOWN", "DRAG"}
  BY DEF Buttons
<1>. QED  BY <1>3, <1>4 DEF DragCalls


\* What an event or the application asks for, and a removal from the tree.
Asks ==
  \/ Modifier \/ Detach
  \/ \E b \in 1 .. 2 : Press(b) \/ Release(b)
  \/ \E d \in Deltas : \/ Wheel(d) \/ Key(d)
                      \/ \E p \in Place : Motion(p, d) \/ EnterWindow(p, d)
  \/ LeaveWindow
  \/ \E s \in Sources : \/ \E v \in Asked : AppSet("set", v, s)
                       \/ \E n \in Fractions : AppSet("fraction", n, s)

LEMMA AskTyped ==
  ASSUME Typed, Asks
  PROVE  /\ calls = <<>> /\ calls' \in Seq(Plain) /\ PointerTyped'
         /\ UNCHANGED <<held, ve_state, editing>>
         /\ attached' => attached
<1>. DEFINE Goal == /\ calls = <<>> /\ calls' \in Seq(Plain) /\ PointerTyped'
                    /\ UNCHANGED <<held, ve_state, editing>>
                    /\ attached' => attached
<1>. SUFFICES Goal
  OBVIOUS
<1>0. PointerTyped /\ button \in Buttons /\ <<>> \in Seq(Plain)
  BY DEF Typed, PointerTyped
<1>1. CASE Modifier
  BY <1>0, <1>1 DEF Modifier, Event, Idle, PointerTyped
<1>2. CASE Detach
  BY <1>0, <1>2 DEF Detach, Event, Idle, PointerTyped, pointer
<1>3. ASSUME NEW b \in 1 .. 2, Press(b) PROVE Goal
  <2>1. <<Cursor("hidden"), Begin("DRAG")>> \in Seq(Plain)
    BY CursorOps, EditOps, PlainTwo DEF Edit
  <2>2. calls' \in Seq(Plain)
    BY <1>0, <1>3, <2>1 DEF Press
  <2>3. PointerTyped'
    BY <1>0, <1>3 DEF Press, PointerTyped, Buttons
  <2>. QED  BY <1>3, <2>2, <2>3 DEF Press, Event, Idle
<1>4. ASSUME NEW b \in 1 .. 2, Release(b) PROVE Goal
  <2>. DEFINE ends == IF EndsDrag(b) THEN <<Cursor("default"), End("DRAG")>> ELSE <<>>
              reset == Discretely(<<SetTo(Origin, TRUE)>>)
  <2>1. ends \in Seq(Plain)
    BY <1>0, CursorOps, EditOps, PlainTwo DEF Edit
  <2>2. reset \in Seq(Plain)
    <3>1. Origin \in Int
      BY ValueAssumption
    <3>2. SetTo(Origin, TRUE) \in Plain
      BY <3>1 DEF SetTo, Op, Plain, Todo, OpName
    <3>. QED  BY <3>2, PlainOne, DiscreteOps
  <2>3. reset \o ends \in Seq(Plain)
    BY <2>1, <2>2, ConcatProperties
  <2>4. calls' = ends \/ calls' = reset \o ends
    BY <1>4 DEF Release
  <2>5. PointerTyped'
    BY <1>0, <1>4 DEF Release, PointerTyped, Buttons
  <2>. HIDE DEF ends, reset
  <2>. QED  BY <1>4, <2>1, <2>3, <2>4, <2>5 DEF Release, Event, Idle
<1>5. ASSUME NEW d \in Deltas, Wheel(d) \/ Key(d) PROVE Goal
  <2>1. Begin("WHEEL") \in Plain /\ Delta(d) \in Plain
    BY EditOps, SetOps, ValueAssumption DEF Edit, Delta
  <2>2. <<Begin("WHEEL"), Delta(d)>> \in Seq(Plain) /\ Discretely(<<Delta(d)>>) \in Seq(Plain)
    BY <2>1, PlainOne, PlainTwo, DiscreteOps
  <2>. QED  BY <1>0, <1>5, <2>2, PointerKept DEF Wheel, Key, Event, Idle
<1>6. ASSUME NEW d \in Deltas, NEW p \in Place, Motion(p, d) \/ EnterWindow(p, d) PROVE Goal
  <2>1. PICK leaves \in BOOLEAN : Follow(p, d, leaves)
    BY <1>6, <1>0 DEF Motion, EnterWindow, PointerTyped
  <2>. DEFINE leave == IF leaves THEN LeaveCalls ELSE <<>>
  <2>2. leave \in Seq(Plain)
    BY <1>0, EditOps, PlainOne DEF LeaveCalls, Edit
  <2>3. DragCalls(1, d) \in Seq(Plain) /\ DragCalls(2, d) \in Seq(Plain)
    BY <1>0, DragTyped
  <2>. HIDE DEF leave
  <2>4. leave \o DragCalls(1, d) \o DragCalls(2, d) \in Seq(Plain)
    BY <2>2, <2>3, ConcatProperties
  <2>5. calls' \in Seq(Plain)
    BY <2>1, <2>4 DEF Follow, leave
  <2>6. /\ inside' \in BOOLEAN /\ irregular' \in BOOLEAN /\ button' \in Buttons
        /\ UNCHANGED <<held, ve_state, attached, cursor, denied, lost, editing>>
    BY <1>0, <2>1 DEF Follow, Place, PointerTyped, Buttons
  <2>7. mouse_in' \in BOOLEAN /\ strayed' \in BOOLEAN
    BY <1>0, <1>6 DEF Motion, EnterWindow, PointerTyped
  <2>8. PointerTyped'
    BY <1>0, <2>6, <2>7 DEF PointerTyped
  <2>. QED  BY <1>6, <2>5, <2>6, <2>8 DEF Motion, EnterWindow, Event, Idle
<1>8. CASE LeaveWindow
  <2>1. calls' \in Seq(Plain)
    BY <1>0, <1>8, EditOps, PlainOne DEF LeaveWindow, LeaveCalls, Edit
  <2>. QED  BY <1>0, <1>8, <2>1 DEF LeaveWindow, Event, Idle, PointerTyped
<1>7. ASSUME NEW s \in Sources, NEW op \in {"set", "fraction"}, NEW v \in Int, AppSet(op, v, s)
      PROVE  Goal
  <2>1. (s = "direct") \in BOOLEAN /\ op \in {"delta", "set", "fraction"}
    OBVIOUS
  <2>2. Op(op, "none", v, TRUE) \in Plain /\ Op(op, s, v, s = "direct") \in Plain
    BY <2>1, SetOps
  <2>3. Discretely(<<Op(op, "none", v, TRUE)>>) \in Seq(Plain) /\ <<Op(op, s, v, s = "direct")>> \in Seq(Plain)
    BY <2>2, PlainOne, DiscreteOps
  <2>4. calls' \in Seq(Plain)
    BY <1>7, <2>3 DEF AppSet
  <2>. QED  BY <1>0, <1>7, <2>4, PointerKept DEF AppSet, Idle
<1>. QED  BY <1>1, <1>2, <1>3, <1>4, <1>5, <1>6, <1>7, <1>8, ValueAssumption DEF Asks

Hook == Op("hook", "none", 0, FALSE)

LEMMA AttachTyped ==
  ASSUME Typed, Attach
  PROVE  /\ \E c \in Plain : c.op = "set" /\ calls' = <<c, c, Hook>>
         /\ Hook \in Todo /\ Hook.op = "hook" /\ calls' \in Seq(Todo)
         /\ calls = <<>> /\ PointerTyped' /\ UNCHANGED <<held, ve_state, editing>>
<1>. DEFINE v == IF norm = -1 THEN Origin ELSE value \div Precision
<1>1. Origin \in Int /\ value \div Precision \in Int
  BY ValueAssumption DEF Typed
<1>2. v \in Int
  BY <1>1
<1>3. calls' = <<SetTo(v, FALSE), SetTo(v, FALSE), Hook>>
  BY DEF Attach, Hook
<1>. HIDE DEF v
<1>4. SetTo(v, FALSE) \in Plain /\ SetTo(v, FALSE) \in Todo /\ SetTo(v, FALSE).op = "set"
  BY <1>2 DEF SetTo, Op, Plain, Todo, OpName
<1>5. Hook \in Todo /\ Hook.op = "hook"
  BY DEF Hook, Op, Todo, OpName
<1>6. ASSUME NEW c \in Todo, NEW d \in Todo PROVE <<c, c, d>> \in Seq(Todo)
  BY <1>6
<1>7. PointerTyped'
  BY DEF Attach, Typed, PointerTyped, pointer
<1>. QED  BY <1>3, <1>4, <1>5, <1>6, <1>7 DEF Attach, Idle

LEMMA NextEdits == EditInv /\ [Next]_vars => EditInv'
<1>. SUFFICES ASSUME EditInv, [Next]_vars PROVE EditInv'
  OBVIOUS
<1>1. CASE Asks
  BY <1>1, AskTyped, PlainIsTodo, CallsOnly DEF EditInv
<1>2. CASE Attach
  BY <1>2, AttachTyped, CallsOnly DEF EditInv
<1>3. CASE UNCHANGED vars
  BY <1>3, PointerKept DEF vars, held, EditInv, Typed, EditsPaired
<1>. QED  BY <1>1, <1>2, <1>3, DoEdits DEF Next, Asks

\* For every range and grid, and however deep the handlers of changes nest, the
\* application is told of the beginning of an edit and of its end in turn.
THEOREM EditsArePaired == Spec => []EditsPaired
<1>1. EditInv => EditsPaired
  BY DEF EditInv
<1>. QED  BY <1>1, InitEdits, NextEdits, PTL DEF Spec

-------------------------------------------------------------------------------
(***************************************************************************)
(* What is shown                                                           *)
(***************************************************************************)
Has(s, op) == \E i \in 1 .. Len(s) : s[i].op = op

\* The value on the grid that a normalised value stands for.
Snapped(n) == OnGrid(Low * Precision + n * Span)

Agrees == shown.value = value /\ Snapped(shown.norm) = value

\* While the element is not attached, and until its hook is called, it may show
\* anything; and the hook is called only when there is a value.
ShowInv ==
  /\ norm # -1 => Snapped(norm) = value
  /\ Has(calls, "change") => Agrees
  /\ attached /\ ~Has(calls, "hook") => Agrees
  /\ norm = -1 /\ Has(calls, "hook") => Running("set")

LEMMA HasHead ==
  ASSUME NEW s \in Seq(Todo), s # <<>>
  PROVE  \A op \in OpName : Has(s, op) <=> Head(s).op = op \/ Has(Tail(s), op)
<1>. SUFFICES ASSUME NEW op \in OpName PROVE Has(s, op) <=> Head(s).op = op \/ Has(Tail(s), op)
  OBVIOUS
<1>1. Len(s) \in Nat /\ Len(s) > 0 /\ Head(s) = s[1]
  BY EmptySeq
<1>2. Len(Tail(s)) = Len(s) - 1 /\ \A i \in 1 .. Len(Tail(s)) : Tail(s)[i] = s[i + 1]
  BY HeadTailProperties
<1>3. ASSUME NEW i \in 1 .. Len(s), s[i].op = op, i # 1
      PROVE  Has(Tail(s), op)
  <2>1. i - 1 \in 1 .. Len(Tail(s)) /\ Tail(s)[i - 1] = s[i]
    BY <1>1, <1>2, <1>3
  <2>. QED  BY <1>3, <2>1 DEF Has
<1>4. ASSUME NEW i \in 1 .. Len(Tail(s)), Tail(s)[i].op = op
      PROVE  Has(s, op)
  <2>1. i + 1 \in 1 .. Len(s) /\ s[i + 1].op = op
    BY <1>1, <1>2, <1>4
  <2>. QED  BY <2>1 DEF Has
<1>5. Head(s).op = op => Has(s, op)
  BY <1>1 DEF Has
<1>. QED  BY <1>1, <1>3, <1>4, <1>5 DEF Has

LEMMA HasConcat ==
  ASSUME NEW s \in Seq(Todo), NEW t \in Seq(Todo)
  PROVE  \A op \in OpName : Has(s \o t, op) <=> Has(s, op) \/ Has(t, op)
<1>. SUFFICES ASSUME NEW op \in OpName PROVE Has(s \o t, op) <=> Has(s, op) \/ Has(t, op)
  OBVIOUS
<1>1. /\ Len(s) \in Nat /\ Len(t) \in Nat /\ Len(s \o t) = Len(s) + Len(t)
      /\ \A i \in 1 .. Len(s) + Len(t) : (s \o t)[i] = IF i <= Len(s) THEN s[i] ELSE t[i - Len(s)]
  BY ConcatProperties, LenProperties
<1>2. ASSUME NEW i \in 1 .. Len(s), s[i].op = op PROVE Has(s \o t, op)
  BY <1>1, <1>2 DEF Has
<1>3. ASSUME NEW i \in 1 .. Len(t), t[i].op = op PROVE Has(s \o t, op)
  <2>1. i + Len(s) \in 1 .. Len(s \o t) /\ (s \o t)[i + Len(s)] = t[i]
    BY <1>1
  <2>. QED  BY <1>3, <2>1 DEF Has
<1>4. ASSUME NEW i \in 1 .. Len(s) + Len(t), (s \o t)[i].op = op PROVE Has(s, op) \/ Has(t, op)
  <2>1. CASE i <= Len(s)
    BY <1>1, <1>4, <2>1 DEF Has
  <2>2. CASE ~(i <= Len(s))
    <3>1. i - Len(s) \in 1 .. Len(t) /\ t[i - Len(s)].op = op
      BY <1>1, <1>4, <2>2
    <3>. QED  BY <3>1 DEF Has
  <2>. QED  BY <2>1, <2>2
<1>. QED  BY <1>1, <1>2, <1>3, <1>4 DEF Has

LEMMA HasPlain ==
  ASSUME NEW s \in Seq(Plain)
  PROVE  ~Has(s, "hook") /\ ~Has(s, "change")
BY ElementOfSeq DEF Has, Plain

\* What setting the value makes of what is shown.
LEMMA SetShows ==
  ASSUME Typed, ShowInv, calls # <<>>, NEW n \in Int, NEW user \in BOOLEAN, Set(n, user),
         UNCHANGED attached, Top.op \in {"delta", "set", "fraction"}, Top.to \in Sources \cup {"none"}
  PROVE  ShowInv'
<1>. DEFINE change == Op("change", Top.to, 0, user)
            new == Snapped(Clamp(n))
<1>1. /\ Rest \in Seq(Todo) /\ change \in Todo /\ change.op = "change"
      /\ \A op \in OpName : Has(calls, op) <=> Top.op = op \/ Has(Rest, op)
  <2>1. Rest \in Seq(Todo) /\ calls \in Seq(Todo)
    BY RestTyped DEF Typed
  <2>2. change \in Todo /\ change.op = "change"
    BY DEF Op, Todo, OpName
  <2>. QED  BY <2>1, <2>2, HasHead DEF Top, Rest
<1>2. norm' = Clamp(n) /\ Clamp(n) # -1
  BY ClampTyped, ValueAssumption DEF Set
<1>3. CASE Granularity # 0 /\ new = value
  <2>1. UNCHANGED <<value, shown>> /\ calls' = Rest
    BY <1>3 DEF Set, Snapped
  <2>. QED  BY <1>1, <1>2, <1>3, <2>1 DEF ShowInv, Agrees, Snapped, OpName
<1>4. CASE ~(Granularity # 0 /\ new = value)
  <2>1. value' = new /\ shown' = [norm |-> Clamp(n), value |-> new]
    BY <1>4 DEF Set, Snapped
  <2>2. Agrees' /\ Snapped(norm') = value'
    BY <1>2, <2>1 DEF Agrees, Snapped
  <2>. QED  BY <1>2, <2>2 DEF ShowInv, Snapped
<1>. QED  BY <1>3, <1>4

\* A step that sets nothing, shows nothing and forgets no hook to come.
LEMMA ShowKept ==
  ASSUME ShowInv, UNCHANGED held, attached' => attached,
         Has(calls', "change") => Has(calls, "change"),
         Has(calls', "hook") <=> Has(calls, "hook"),
         ~Running("set")
  PROVE  ShowInv'
BY DEF ShowInv, held, Agrees, Snapped

LEMMA DoShows ==
  ASSUME EditInv, ShowInv,
         DoDelta \/ DoSet \/ DoFraction \/ DoHook \/ DoBegin \/ DoEnd \/ DoChange \/ DoCursor
  PROVE  ShowInv'
<1>0. Typed /\ calls # <<>> /\ Top \in Todo /\ Rest \in Seq(Todo)
  <2>1. Typed /\ calls # <<>>
    BY DEF EditInv, DoDelta, DoSet, DoFraction, DoHook, DoBegin, DoEnd, DoChange, DoCursor, Running
  <2>. QED  BY <2>1, RestTyped
<1>1. /\ Top.by \in Int /\ Top.user \in BOOLEAN
      /\ Top.op \in {"delta", "set", "fraction"} => Top.to \in Sources \cup {"none"}
  BY <1>0 DEF Todo
<1>2. \A op \in OpName : Has(calls, op) <=> Top.op = op \/ Has(Rest, op)
  BY <1>0, HasHead DEF Typed, Top, Rest
<1>3. CASE DoDelta
  <2>1. norm + Top.by \in Int
    BY <1>0, <1>1, ValueAssumption DEF Typed
  <2>. QED  BY <1>0, <1>1, <1>3, <2>1, SetShows DEF DoDelta, Running
<1>4. CASE DoSet
  BY <1>0, <1>1, <1>4, NormalisedTyped, SetShows DEF DoSet, Running
<1>5. CASE DoFraction
  BY <1>0, <1>1, <1>5, SetShows DEF DoFraction, Running
<1>6. CASE DoHook
  <2>1. Has(calls, "hook") /\ ~Running("set")
    BY <1>2, <1>6 DEF DoHook, Running, OpName
  <2>2. Snapped(norm) = value
    BY <2>1 DEF ShowInv
  <2>3. shown' = [norm |-> norm, value |-> value] /\ UNCHANGED <<norm, value, attached>>
    BY <1>6 DEF DoHook
  <2>4. Agrees'
    BY <2>2, <2>3 DEF Agrees, Snapped
  <2>5. norm # -1
    BY <2>1 DEF ShowInv
  <2>. QED  BY <2>2, <2>3, <2>4, <2>5 DEF ShowInv, Snapped
<1>7. CASE DoBegin \/ DoEnd \/ DoCursor
  <2>1. calls' = Rest /\ UNCHANGED <<held, attached>> /\ Top.op \in {"begin", "end", "cursor"}
    BY <1>7 DEF DoBegin, DoEnd, DoCursor, Running
  <2>. QED  BY <1>2, <2>1, ShowKept DEF Running, OpName
<1>8. CASE DoChange
  <2>1. Top.op = "change" /\ UNCHANGED <<held, attached>>
    BY <1>8 DEF DoChange, Running
  <2>2. ASSUME NEW ops \in Seq(Plain), calls' = ops \o Rest PROVE ShowInv'
    <3>1. \A op \in OpName : Has(calls', op) <=> Has(ops, op) \/ Has(Rest, op)
      BY <1>0, <2>2, PlainIsTodo, HasConcat
    <3>. QED  BY <1>2, <2>1, <3>1, HasPlain, ShowKept DEF Running, OpName
  <2>3. ASSUME NEW v \in Asked, NEW user \in BOOLEAN PROVE <<SetTo(v, user)>> \in Seq(Plain)
    <3>1. v \in Int
      BY ValueAssumption
    <3>. QED  BY <3>1, SetOps, PlainOne DEF SetTo
  <2>4. ASSUME NEW v \in Asked
        PROVE  Discretely(<<SetTo(v, TRUE)>>) \in Seq(Plain) /\ <<SetTo(v, FALSE)>> \in Seq(Plain)
    BY <2>3, DiscreteOps
  <2>5. CASE calls' = Rest
    BY <1>2, <2>1, <2>5, ShowKept DEF Running, OpName
  <2>6. CASE calls' # Rest
    <3>1. \E ops \in Seq(Plain) : calls' = ops \o Rest
      BY <1>8, <2>4, <2>6 DEF DoChange
    <3>. QED  BY <2>2, <3>1
  <2>. QED  BY <2>5, <2>6
<1>. QED  BY <1>3, <1>4, <1>5, <1>6, <1>7, <1>8

LEMMA NextShows == EditInv /\ ShowInv /\ [Next]_vars => ShowInv'
<1>. SUFFICES ASSUME EditInv, ShowInv, [Next]_vars PROVE ShowInv'
  OBVIOUS
<1>1. CASE Asks
  <2>1. /\ calls = <<>> /\ calls' \in Seq(Plain) /\ UNCHANGED held
        /\ attached' => attached
    BY <1>1, AskTyped DEF EditInv
  <2>2. /\ ~Has(calls, "hook") /\ ~Has(calls, "change")
        /\ ~Has(calls', "hook") /\ ~Has(calls', "change")
    BY <2>1, HasPlain, EmptySeq
  <2>. QED  BY <2>1, <2>2, ShowKept DEF Running
<1>2. CASE Attach
  <2>1. PICK c \in Plain : c.op = "set" /\ calls' = <<c, c, Hook>>
    BY <1>2, AttachTyped DEF EditInv
  <2>2. UNCHANGED held /\ Hook.op = "hook"
    BY <1>2, AttachTyped DEF EditInv
  <2>3. Has(calls', "hook") /\ ~Has(calls', "change") /\ Running("set")'
    BY <2>1, <2>2 DEF Has, Running, Top
  <2>. QED  BY <2>2, <2>3 DEF ShowInv, held, Snapped
<1>3. CASE UNCHANGED vars
  BY <1>3 DEF vars, held, ShowInv, Agrees, Snapped, Running, Top
<1>. QED  BY <1>1, <1>2, <1>3, DoShows DEF Next, Asks

LEMMA InitShows == Init => ShowInv
BY DEF Init, ShowInv, Has

\* For every range, grid and precision, whatever sets the value and however the
\* handlers of its changes nest: what is shown is the value, and the variables
\* keep their types.
THEOREM ShowsItsValue == Spec => []ValueSound
<1>1. Init => EditInv /\ ShowInv
  BY InitEdits, InitShows
<1>2. EditInv /\ ShowInv /\ [Next]_vars => (EditInv /\ ShowInv)'
  BY NextEdits, NextShows
<1>3. EditInv /\ ShowInv => ValueSound
  <2>. SUFFICES ASSUME EditInv, ShowInv PROVE ValueSound
    OBVIOUS
  <2>1. TypeOK
    <3>1. \A i \in DOMAIN calls : calls[i].op \in OpName
      BY LenProperties DEF EditInv, Typed, Todo
    <3>. QED  BY <3>1 DEF EditInv, Typed, PointerTyped, Buttons, Edit, OpName, TypeOK
  <2>2. calls = <<>> => ~Has(calls, "hook")
    BY DEF Has
  <2>3. Running("change") => Has(calls, "change")
    BY HasHead DEF Running, Top, EditInv, Typed, OpName
  <2>. QED  BY <2>1, <2>2, <2>3 DEF ValueSound, ShowsValue, ShowInv, Agrees, Snapped
<1>. QED  BY <1>1, <1>2, <1>3, PTL DEF Spec

-------------------------------------------------------------------------------
(***************************************************************************)
(* The gestures                                                            *)
(***************************************************************************)
\* The first button is down, and the element is its target.
Pressed == button[1].state # "UP" /\ button[1].on

\* A call that is still to come.
Due(s, op, to) == \E i \in 1 .. Len(s) : s[i].op = op /\ s[i].to = to

\* A discrete edit that is to begin is to end.
Closes(s) ==
  \A i \in 1 .. Len(s) : s[i].op = "begin" /\ s[i].to = "DISCRETE" =>
    \E j \in i + 1 .. Len(s) : s[j].op = "end" /\ s[j].to = "DISCRETE"

GestureInv ==
  /\ button[2].state = "DRAG" => ~button[2].on
  /\ ve_state = "DRAG" => Pressed \/ lost \/ Due(calls, "end", "DRAG")
  /\ ve_state = "DISCRETE" => Due(calls, "end", "DISCRETE")
  /\ ve_state = "WHEEL" => inside \/ strayed \/ Due(calls, "end", "WHEEL")
  /\ cursor = "hidden" => Pressed \/ lost \/ Due(calls, "cursor", "default")
  /\ Due(calls, "begin", "DRAG") \/ Due(calls, "cursor", "hidden") => Pressed
  /\ Due(calls, "begin", "WHEEL") => inside
  /\ Pressed => irregular \/ ve_state = "DRAG" \/ Due(calls, "begin", "DRAG")
  /\ Due(calls, "end", "DRAG") => ~Pressed \/ irregular
  /\ Closes(calls)

\* What the user's change of the value is told of by.
Told(c) == c.op \in {"delta", "set", "fraction", "change"} /\ c.user /\ c.to # "direct"

\* The user's changes are to come right after the beginning of an edit.
Led(s) == \A i \in 2 .. Len(s) : Told(s[i]) => s[i - 1].op = "begin"

\* No change is to come after the end of a drag.
LastsLong(s) ==
  \A i, j \in 1 .. Len(s) : i < j /\ s[i].op = "end" /\ s[i].to = "DRAG" => ~Told(s[j])

TellInv ==
  \/ irregular
  \/ ve_state = "DRAG" /\ LastsLong(calls)
  \/ Led(calls) /\ (calls # <<>> /\ Told(Top) => ve_state # "REST")

LEMMA DueHead ==
  ASSUME NEW s \in Seq(Todo), s # <<>>, NEW op, NEW to
  PROVE  Due(s, op, to) <=> (Head(s).op = op /\ Head(s).to = to) \/ Due(Tail(s), op, to)
<1>1. Len(s) \in Nat /\ Len(s) > 0 /\ Head(s) = s[1]
  BY EmptySeq
<1>2. Len(Tail(s)) = Len(s) - 1 /\ \A i \in 1 .. Len(Tail(s)) : Tail(s)[i] = s[i + 1]
  BY HeadTailProperties
<1>3. ASSUME NEW i \in 1 .. Len(s), s[i].op = op, s[i].to = to, i # 1
      PROVE  Due(Tail(s), op, to)
  <2>1. i - 1 \in 1 .. Len(Tail(s)) /\ Tail(s)[i - 1] = s[i]
    BY <1>1, <1>2, <1>3
  <2>. QED  BY <1>3, <2>1 DEF Due
<1>4. ASSUME NEW i \in 1 .. Len(Tail(s)), Tail(s)[i].op = op, Tail(s)[i].to = to
      PROVE  Due(s, op, to)
  <2>1. i + 1 \in 1 .. Len(s) /\ s[i + 1] = Tail(s)[i]
    BY <1>1, <1>2
  <2>. QED  BY <1>4, <2>1 DEF Due
<1>5. Head(s).op = op /\ Head(s).to = to => Due(s, op, to)
  <2>1. 1 \in 1 .. Len(s)
    BY <1>1
  <2>. QED  BY <1>1, <2>1 DEF Due
<1>. QED  BY <1>1, <1>3, <1>4, <1>5 DEF Due

\* The calls of two sequences, one after the other.
LEMMA Joined ==
  ASSUME NEW s \in Seq(Todo), NEW t \in Seq(Todo)
  PROVE  /\ s \o t \in Seq(Todo) /\ Len(s \o t) = Len(s) + Len(t) /\ Len(s) \in Nat /\ Len(t) \in Nat
         /\ \A i \in 1 .. Len(s) : i \in 1 .. Len(s \o t) /\ (s \o t)[i] = s[i]
         /\ \A i \in 1 .. Len(t) : Len(s) + i \in 1 .. Len(s \o t) /\ (s \o t)[Len(s) + i] = t[i]
         /\ \A i \in 1 .. Len(s \o t) : i \in 1 .. Len(s) \/ (i - Len(s) \in 1 .. Len(t) /\ i = Len(s) + (i - Len(s)))
<1>. DEFINE m == Len(s)
            n == Len(t)
            u == s \o t
<1>1. /\ m \in Nat /\ n \in Nat /\ Len(u) = m + n /\ u \in Seq(Todo)
      /\ \A i \in 1 .. m + n : u[i] = IF i <= m THEN s[i] ELSE t[i - m]
  BY ConcatProperties, LenProperties
<1>. HIDE DEF m, n, u
<1>2. \A i \in 1 .. m : i \in 1 .. Len(u) /\ u[i] = s[i]
  BY <1>1
<1>3. \A i \in 1 .. n : m + i \in 1 .. Len(u) /\ u[m + i] = t[i]
  <2>. TAKE i \in 1 .. n
  <2>1. m + i \in 1 .. m + n /\ ~(m + i <= m) /\ (m + i) - m = i
    BY <1>1
  <2>. QED  BY <1>1, <2>1
<1>4. \A i \in 1 .. Len(u) : i \in 1 .. m \/ (i - m \in 1 .. n /\ i = m + (i - m))
  BY <1>1
<1>. QED  BY <1>1, <1>2, <1>3, <1>4 DEF m, n, u

LEMMA DueConcat ==
  ASSUME NEW s \in Seq(Todo), NEW t \in Seq(Todo), NEW op, NEW to
  PROVE  Due(s \o t, op, to) <=> Due(s, op, to) \/ Due(t, op, to)
<1>1. ASSUME NEW i \in 1 .. Len(s), s[i].op = op, s[i].to = to PROVE Due(s \o t, op, to)
  BY <1>1, Joined DEF Due
<1>2. ASSUME NEW i \in 1 .. Len(t), t[i].op = op, t[i].to = to PROVE Due(s \o t, op, to)
  BY <1>2, Joined DEF Due
<1>3. ASSUME NEW i \in 1 .. Len(s \o t), (s \o t)[i].op = op, (s \o t)[i].to = to
      PROVE  Due(s, op, to) \/ Due(t, op, to)
  <2>1. CASE i \in 1 .. Len(s)
    BY <1>3, <2>1, Joined DEF Due
  <2>2. CASE i - Len(s) \in 1 .. Len(t) /\ i = Len(s) + (i - Len(s))
    <3>1. t[i - Len(s)] = (s \o t)[i]
      BY <2>2, Joined
    <3>. QED  BY <1>3, <2>2, <3>1 DEF Due
  <2>. QED  BY <2>1, <2>2, Joined
<1>. QED  BY <1>1, <1>2, <1>3 DEF Due

\* What is left when the first call is done.
LEMMA TailFacts ==
  ASSUME NEW s \in Seq(Todo), s # <<>>
  PROVE  /\ Closes(s) => Closes(Tail(s))
         /\ Closes(s) /\ Head(s).op = "begin" /\ Head(s).to = "DISCRETE" => Due(Tail(s), "end", "DISCRETE")
         /\ Led(s) => Led(Tail(s)) /\ (Tail(s) # <<>> /\ Told(Head(Tail(s))) => Head(s).op = "begin")
         /\ LastsLong(s) => LastsLong(Tail(s))
         /\ LastsLong(s) /\ Head(s).op = "end" /\ Head(s).to = "DRAG" =>
              Led(Tail(s)) /\ (Tail(s) # <<>> => ~Told(Head(Tail(s))))
<1>. DEFINE n == Len(s)
            t == Tail(s)
<1>1. n \in Nat /\ n > 0 /\ Head(s) = s[1]
  BY EmptySeq
<1>2. t \in Seq(Todo) /\ Len(t) = n - 1 /\ \A i \in 1 .. Len(t) : t[i] = s[i + 1]
  BY HeadTailProperties
<1>3. t # <<>> => n >= 2 /\ Head(t) = t[1] /\ 1 \in 1 .. Len(t)
  BY <1>1, <1>2, EmptySeq
<1>. HIDE DEF t, n
<1>4. \A i \in 1 .. Len(t) : i + 1 \in 1 .. n /\ i + 1 \in 2 .. n /\ i \in Nat
  BY <1>1, <1>2
<1>5. \A i \in 2 .. n : i - 1 \in 1 .. Len(t) /\ (i - 1) + 1 = i
  BY <1>1, <1>2
<1>6. Closes(s) => Closes(t)
  <2>. SUFFICES ASSUME Closes(s), NEW i \in 1 .. Len(t), t[i].op = "begin", t[i].to = "DISCRETE"
                PROVE  \E j \in i + 1 .. Len(t) : t[j].op = "end" /\ t[j].to = "DISCRETE"
    BY DEF Closes
  <2>1. s[i + 1].op = "begin" /\ s[i + 1].to = "DISCRETE" /\ i + 1 \in 1 .. n
    BY <1>2, <1>4
  <2>2. PICK j \in (i + 1) + 1 .. n : s[j].op = "end" /\ s[j].to = "DISCRETE"
    BY <2>1 DEF Closes, n
  <2>3. j - 1 \in i + 1 .. Len(t) /\ j - 1 \in 1 .. Len(t) /\ (j - 1) + 1 = j
    BY <1>1, <1>2, <1>4
  <2>. QED  BY <1>2, <2>2, <2>3
<1>7. Closes(s) /\ Head(s).op = "begin" /\ Head(s).to = "DISCRETE" => Due(t, "end", "DISCRETE")
  <2>. SUFFICES ASSUME Closes(s), s[1].op = "begin", s[1].to = "DISCRETE" PROVE Due(t, "end", "DISCRETE")
    BY <1>1
  <2>1. PICK j \in 1 + 1 .. n : s[j].op = "end" /\ s[j].to = "DISCRETE"
    BY <1>1 DEF Closes, n
  <2>2. j - 1 \in 1 .. Len(t) /\ t[j - 1] = s[j]
    BY <1>1, <1>2
  <2>. QED  BY <2>1, <2>2 DEF Due
<1>8. Led(s) => Led(t)
  <2>. SUFFICES ASSUME Led(s), NEW i \in 2 .. Len(t), Told(t[i]) PROVE t[i - 1].op = "begin"
    BY DEF Led
  <2>1. i + 1 \in 2 .. n /\ t[i] = s[i + 1] /\ t[i - 1] = s[i] /\ (i + 1) - 1 = i
    BY <1>1, <1>2
  <2>. QED  BY <2>1 DEF Led, n
<1>9. Led(s) => (t # <<>> /\ Told(Head(t)) => Head(s).op = "begin")
  <2>. SUFFICES ASSUME Led(s), t # <<>>, Told(Head(t)) PROVE s[1].op = "begin"
    BY <1>1
  <2>1. 2 \in 2 .. n /\ s[2] = Head(t)
    BY <1>1, <1>2, <1>3
  <2>2. s[2 - 1].op = "begin"
    BY <2>1 DEF Led, n
  <2>. QED  BY <2>2
<1>10. LastsLong(s) => LastsLong(t)
  <2>. SUFFICES ASSUME LastsLong(s), NEW i \in 1 .. Len(t), NEW j \in 1 .. Len(t), i < j,
                       t[i].op = "end", t[i].to = "DRAG"
                PROVE  ~Told(t[j])
    BY DEF LastsLong
  <2>1. i + 1 < j + 1 /\ t[i] = s[i + 1] /\ t[j] = s[j + 1]
    BY <1>2, <1>4
  <2>. QED  BY <1>4, <2>1 DEF LastsLong, n
<1>11. LastsLong(s) /\ Head(s).op = "end" /\ Head(s).to = "DRAG" =>
         Led(t) /\ (t # <<>> => ~Told(Head(t)))
  <2>. SUFFICES ASSUME LastsLong(s), s[1].op = "end", s[1].to = "DRAG"
                PROVE  Led(t) /\ (t # <<>> => ~Told(Head(t)))
    BY <1>1
  <2>1. ASSUME NEW i \in 1 .. Len(t) PROVE ~Told(t[i])
    <3>1. 1 < i + 1 /\ 1 \in 1 .. n /\ i + 1 \in 1 .. n /\ t[i] = s[i + 1]
      BY <1>1, <1>2, <1>4
    <3>. QED  BY <3>1 DEF LastsLong, n
  <2>2. \A i \in 2 .. Len(t) : i \in 1 .. Len(t)
    BY <1>1, <1>2
  <2>. QED  BY <1>3, <2>1, <2>2 DEF Led
<1>. QED  BY <1>6, <1>7, <1>8, <1>9, <1>10, <1>11 DEF t

\* Calls put before others.
LEMMA ConcatFacts ==
  ASSUME NEW s \in Seq(Todo), NEW t \in Seq(Todo)
  PROVE  /\ Closes(s) /\ Closes(t) => Closes(s \o t)
         /\ Led(s) /\ Led(t) /\ (t # <<>> => ~Told(Head(t))) => Led(s \o t)
         /\ LastsLong(s) /\ LastsLong(t) /\ ~Due(s, "end", "DRAG") => LastsLong(s \o t)
         /\ s # <<>> => s \o t # <<>> /\ Head(s \o t) = Head(s)
<1>. DEFINE m == Len(s)
            n == Len(t)
            u == s \o t
<1>1. /\ u \in Seq(Todo) /\ Len(u) = m + n /\ m \in Nat /\ n \in Nat
      /\ \A i \in 1 .. m : i \in 1 .. Len(u) /\ u[i] = s[i]
      /\ \A i \in 1 .. n : m + i \in 1 .. Len(u) /\ u[m + i] = t[i]
      /\ \A i \in 1 .. Len(u) : i \in 1 .. m \/ (i - m \in 1 .. n /\ i = m + (i - m))
  BY Joined
<1>2. s # <<>> => m > 0 /\ Head(s) = s[1]
  BY EmptySeq
<1>3. t # <<>> => n > 0 /\ Head(t) = t[1]
  BY EmptySeq
<1>4. n > 0 => t # <<>>
  BY EmptySeq
<1>5. u # <<>> => Head(u) = u[1]
  BY <1>1, EmptySeq
<1>6. m > 0 => u # <<>>
  BY <1>1, EmptySeq
<1>. HIDE DEF m, n, u
<1>7. Closes(s) /\ Closes(t) => Closes(u)
  <2>. SUFFICES ASSUME Closes(s), Closes(t), NEW i \in 1 .. Len(u), u[i].op = "begin", u[i].to = "DISCRETE"
                PROVE  \E j \in i + 1 .. Len(u) : u[j].op = "end" /\ u[j].to = "DISCRETE"
    BY DEF Closes
  <2>1. CASE i \in 1 .. m
    <3>1. PICK j \in i + 1 .. m : s[j].op = "end" /\ s[j].to = "DISCRETE"
      BY <1>1, <2>1 DEF Closes, m
    <3>2. j \in 1 .. m /\ j \in i + 1 .. Len(u)
      BY <1>1, <2>1
    <3>. QED  BY <1>1, <3>1, <3>2
  <2>2. CASE i - m \in 1 .. n /\ i = m + (i - m)
    <3>1. u[i] = t[i - m]
      BY <1>1, <2>2
    <3>2. PICK j \in (i - m) + 1 .. n : t[j].op = "end" /\ t[j].to = "DISCRETE"
      BY <2>2, <3>1 DEF Closes, n
    <3>3. j \in 1 .. n /\ m + j \in i + 1 .. Len(u)
      BY <1>1, <2>2
    <3>. QED  BY <1>1, <3>2, <3>3
  <2>. QED  BY <1>1, <2>1, <2>2
<1>8. Led(s) /\ Led(t) /\ (t # <<>> => ~Told(Head(t))) => Led(u)
  <2>. SUFFICES ASSUME Led(s), Led(t), t # <<>> => ~Told(Head(t)), NEW i \in 2 .. Len(u), Told(u[i])
                PROVE  u[i - 1].op = "begin"
    BY DEF Led
  <2>1. CASE i \in 1 .. m
    <3>1. i \in 2 .. m /\ i - 1 \in 1 .. m
      BY <1>1, <2>1
    <3>2. s[i - 1].op = "begin"
      BY <1>1, <2>1, <3>1 DEF Led, m
    <3>. QED  BY <1>1, <3>1, <3>2
  <2>2. CASE i = m + 1
    <3>1. n > 0 /\ 1 \in 1 .. n
      BY <1>1, <2>2
    <3>2. u[i] = t[1]
      BY <1>1, <2>2, <3>1
    <3>. QED  BY <1>3, <1>4, <3>1, <3>2
  <2>3. CASE i - m \in 2 .. n
    <3>1. i - m \in 1 .. n /\ (i - m) - 1 \in 1 .. n /\ i = m + (i - m) /\ i - 1 = m + ((i - m) - 1)
      BY <1>1, <2>3
    <3>2. u[i] = t[i - m] /\ u[i - 1] = t[(i - m) - 1]
      BY <1>1, <3>1
    <3>. QED  BY <2>3, <3>2 DEF Led, n
  <2>4. i \in 1 .. m \/ i = m + 1 \/ i - m \in 2 .. n
    BY <1>1
  <2>. QED  BY <2>1, <2>2, <2>3, <2>4
<1>9. LastsLong(s) /\ LastsLong(t) /\ ~Due(s, "end", "DRAG") => LastsLong(u)
  <2>. SUFFICES ASSUME LastsLong(t), ~Due(s, "end", "DRAG"), NEW i \in 1 .. Len(u), NEW j \in 1 .. Len(u), i < j,
                       u[i].op = "end", u[i].to = "DRAG"
                PROVE  ~Told(u[j])
    BY DEF LastsLong
  <2>1. i \notin 1 .. m
    BY <1>1 DEF Due, m
  <2>2. i - m \in 1 .. n /\ j - m \in 1 .. n /\ i = m + (i - m) /\ j = m + (j - m) /\ i - m < j - m
    BY <1>1, <2>1
  <2>3. u[i] = t[i - m] /\ u[j] = t[j - m]
    BY <1>1, <2>2
  <2>. QED  BY <2>2, <2>3 DEF LastsLong, n
<1>10. s # <<>> => u # <<>> /\ Head(u) = Head(s)
  <2>. SUFFICES ASSUME s # <<>> PROVE u # <<>> /\ Head(u) = Head(s)
    OBVIOUS
  <2>1. 1 \in 1 .. m
    BY <1>1, <1>2
  <2>. QED  BY <1>1, <1>2, <1>5, <1>6, <2>1
<1>. QED  BY <1>7, <1>8, <1>9, <1>10 DEF u

-------------------------------------------------------------------------------
\* What a step that ends or begins nothing puts before the rest.
Quiet(ops) ==
  /\ ops \in Seq(Todo) /\ Closes(ops) /\ Led(ops) /\ LastsLong(ops)
  /\ \A op \in {"begin", "end", "cursor"}, to \in {"DRAG", "WHEEL", "default", "hidden"} : ~Due(ops, op, to)

Gestures == GestureInv /\ TellInv

LEMMA QuietGesture ==
  ASSUME Typed, Gestures, calls # <<>>, NEW ops, Quiet(ops), calls' = ops \o Rest,
         Top.op \notin {"begin", "end", "cursor"}, ops # <<>> /\ Told(Head(ops)) => Told(Top),
         UNCHANGED <<ve_state, pointer>>
  PROVE  Gestures'
<1>1. Rest \in Seq(Todo) /\ ops \in Seq(Todo) /\ calls \in Seq(Todo)
  BY RestTyped DEF Quiet, Typed
<1>2. \A op \in {"begin", "end", "cursor"}, to \in {"DRAG", "WHEEL", "default", "hidden"} :
        Due(calls', op, to) <=> Due(calls, op, to)
  <2>. TAKE op \in {"begin", "end", "cursor"}, to \in {"DRAG", "WHEEL", "default", "hidden"}
  <2>1. Due(calls, op, to) <=> Due(Rest, op, to)
    BY <1>1, DueHead DEF Top, Rest
  <2>2. Due(calls', op, to) <=> Due(Rest, op, to)
    BY <1>1, DueConcat DEF Quiet
  <2>. QED  BY <2>1, <2>2
<1>3. Due(calls, "end", "DISCRETE") => Due(calls', "end", "DISCRETE")
  BY <1>1, DueHead, DueConcat DEF Top, Rest
<1>4. Closes(calls')
  BY <1>1, TailFacts, ConcatFacts DEF Quiet, Rest, Gestures, GestureInv
<1>5. GestureInv'
  BY <1>2, <1>3, <1>4 DEF Gestures, GestureInv, Pressed, pointer
<1>6. TellInv'
  <2>1. CASE irregular
    BY <2>1 DEF TellInv, pointer
  <2>2. CASE ve_state = "DRAG" /\ LastsLong(calls)
    <3>1. LastsLong(calls')
      BY <1>1, <2>2, TailFacts, ConcatFacts DEF Quiet, Rest
    <3>. QED  BY <2>2, <3>1 DEF TellInv
  <2>3. CASE Led(calls) /\ (Told(Top) => ve_state # "REST")
    <3>1. Led(Rest) /\ (Rest # <<>> => ~Told(Head(Rest)))
      BY <1>1, <2>3, TailFacts DEF Rest, Top
    <3>2. Led(calls')
      BY <1>1, <3>1, ConcatFacts DEF Quiet
    <3>3. CASE ops = <<>>
      <4>1. calls' = Rest
        BY <1>1, <3>3, ConcatEmptySeq
      <4>. QED  BY <3>1, <3>2, <4>1 DEF TellInv, Top
    <3>4. CASE ops # <<>>
      <4>1. Head(calls') = Head(ops)
        BY <1>1, <3>4, ConcatFacts
      <4>. QED  BY <2>3, <3>2, <3>4, <4>1 DEF TellInv, Top
    <3>. QED  BY <3>3, <3>4
  <2>. QED  BY <2>1, <2>2, <2>3 DEF Gestures, TellInv
<1>. QED  BY <1>5, <1>6 DEF Gestures

LEMMA QuietNone == Quiet(<<>>)
BY DEF Quiet, Closes, Led, LastsLong, Due

LEMMA QuietOne ==
  ASSUME NEW c \in Todo, c.op \notin {"begin", "end", "cursor"}
  PROVE  Quiet(<<c>>) /\ <<c>> # <<>> /\ Head(<<c>>) = c
<1>1. <<c>> \in Seq(Todo) /\ Len(<<c>>) = 1 /\ <<c>>[1] = c
  OBVIOUS
<1>2. Closes(<<c>>) /\ Led(<<c>>) /\ LastsLong(<<c>>)
  BY <1>1 DEF Closes, Led, LastsLong
<1>3. \A op \in {"begin", "end", "cursor"}, to \in {"DRAG", "WHEEL", "default", "hidden"} : ~Due(<<c>>, op, to)
  BY <1>1 DEF Due
<1>. QED  BY <1>1, <1>2, <1>3 DEF Quiet

LEMMA Pair ==
  ASSUME NEW T, NEW x \in T, NEW y \in T
  PROVE  <<x>> \o <<y>> \in Seq(T) /\ Len(<<x>> \o <<y>>) = 2 /\ (<<x>> \o <<y>>)[1] = x /\ (<<x>> \o <<y>>)[2] = y
<1>1. <<x>> \in Seq(T) /\ <<y>> \in Seq(T)
  OBVIOUS
<1>2. Len(<<x>>) = 1 /\ Len(<<y>>) = 1 /\ <<x>>[1] = x /\ <<y>>[1] = y
  OBVIOUS
<1>. QED  BY <1>1, <1>2, ConcatProperties

LEMMA Triple ==
  ASSUME NEW T, NEW x \in T, NEW y \in T, NEW z \in T, NEW w, w = <<x>> \o <<y>> \o <<z>>
  PROVE  w \in Seq(T) /\ Len(w) = 3 /\ w[1] = x /\ w[2] = y /\ w[3] = z /\ w # <<>> /\ Head(w) = x
<1>. DEFINE u == <<x>> \o <<y>>
            v == u \o <<z>>
<1>1. <<z>> \in Seq(T) /\ Len(<<z>>) = 1 /\ <<z>>[1] = z
  OBVIOUS
<1>2. u \in Seq(T) /\ Len(u) = 2 /\ u[1] = x /\ u[2] = y
  BY Pair, ZenonT(30)
<1>4. w = v
  OBVIOUS
<1>. HIDE DEF u
<1>3. v \in Seq(T) /\ Len(v) = 3 /\ v[1] = x /\ v[2] = y /\ v[3] = z
  BY <1>1, <1>2, ConcatProperties
<1>. HIDE DEF v
<1>5. w # <<>> /\ Head(w) = w[1]
  BY <1>3, <1>4, EmptySeq
<1>. QED  BY <1>3, <1>4, <1>5

\* A discrete edit of one change.
LEMMA DiscreteQuiet ==
  ASSUME NEW c \in Plain, c.op \in {"delta", "set", "fraction"}
  PROVE  /\ Quiet(Discretely(<<c>>)) /\ Discretely(<<c>>) # <<>> /\ ~Told(Head(Discretely(<<c>>)))
         /\ \A op, to : Due(Discretely(<<c>>), op, to) => to = "DISCRETE" \/ op = c.op
<1>. DEFINE b == Begin("DISCRETE")
            e == End("DISCRETE")
            q == Discretely(<<c>>)
<1>1. /\ b \in Todo /\ b.op = "begin" /\ b.to = "DISCRETE" /\ e \in Todo /\ e.op = "end" /\ e.to = "DISCRETE"
      /\ c \in Todo
  BY DEF Begin, End, Op, Plain, Todo, OpName, Edit
<1>2. q = <<b>> \o <<c>> \o <<e>>
  BY DEF Discretely
<1>. HIDE DEF b, e, q
<1>3. q \in Seq(Todo) /\ Len(q) = 3 /\ q[1] = b /\ q[2] = c /\ q[3] = e /\ q # <<>> /\ Head(q) = b
  BY <1>1, <1>2, Triple
<1>4. \A i \in 1 .. Len(q) : (i = 1 /\ q[i] = b) \/ (i = 2 /\ q[i] = c) \/ (i = 3 /\ q[i] = e)
  BY <1>3
<1>5. Closes(q)
  <2>. SUFFICES ASSUME NEW i \in 1 .. Len(q), q[i].op = "begin"
                PROVE  \E j \in i + 1 .. Len(q) : q[j].op = "end" /\ q[j].to = "DISCRETE"
    BY DEF Closes
  <2>1. i = 1
    BY <1>1, <1>4
  <2>2. 3 \in i + 1 .. Len(q)
    BY <1>3, <2>1
  <2>. QED  BY <1>1, <1>3, <2>2
<1>6. ~Told(b) /\ ~Told(e)
  BY <1>1 DEF Told
<1>7. Led(q)
  <2>. SUFFICES ASSUME NEW i \in 2 .. Len(q), Told(q[i]) PROVE q[i - 1].op = "begin"
    BY DEF Led
  <2>1. i = 2
    BY <1>3, <1>4, <1>6
  <2>. QED  BY <1>1, <1>3, <2>1
<1>8. \A op, to : Due(q, op, to) => to = "DISCRETE" \/ op = c.op
  BY <1>1, <1>4 DEF Due
<1>9. LastsLong(q)
  BY <1>1, <1>4 DEF LastsLong
<1>10. \A op \in {"begin", "end", "cursor"}, to \in {"DRAG", "WHEEL", "default", "hidden"} : ~Due(q, op, to)
  BY <1>8
<1>. QED  BY <1>3, <1>5, <1>6, <1>7, <1>8, <1>9, <1>10 DEF Quiet, q

LEMMA SetGesture ==
  ASSUME Typed, Gestures, calls # <<>>, NEW n, NEW user \in BOOLEAN, Set(n, user),
         Top.op \in {"delta", "set", "fraction"}, Top.user = user, UNCHANGED <<ve_state, attached, pointer>>
  PROVE  Gestures'
<1>. DEFINE change == Op("change", Top.to, 0, user)
<1>1. Top \in Todo /\ Rest \in Seq(Todo)
  BY RestTyped
<1>2. Top.to \in Sources \cup {"none"}
  BY <1>1 DEF Todo
<1>3. change \in Todo /\ change.op = "change" /\ (Told(change) => Told(Top))
  BY <1>2 DEF Op, Todo, OpName, Told
<1>4. calls' = Rest \/ calls' = <<change>> \o Rest \/ calls' = <<>> \o Rest
  BY DEF Set
<1>. HIDE DEF change
<1>5. <<>> \o Rest = Rest
  BY <1>1, ConcatEmptySeq
<1>6. CASE calls' = <<>> \o Rest
  BY <1>6, QuietNone, QuietGesture
<1>7. CASE calls' = <<change>> \o Rest
  BY <1>3, <1>7, QuietOne, QuietGesture
<1>. QED  BY <1>4, <1>5, <1>6, <1>7

LEMMA ChangeGesture ==
  ASSUME Typed, Gestures, DoChange
  PROVE  Gestures'
<1>1. calls # <<>> /\ Top.op = "change" /\ UNCHANGED <<ve_state, pointer>>
  BY DEF DoChange, Running
<1>2. Rest \in Seq(Todo) /\ <<>> \o Rest = Rest
  BY <1>1, RestTyped, ConcatEmptySeq
<1>3. CASE calls' = Rest
  BY <1>1, <1>2, <1>3, QuietNone, QuietGesture
<1>4. ASSUME NEW v \in Asked,
             calls' = (IF Top.user THEN Discretely(<<SetTo(v, TRUE)>>) ELSE <<SetTo(v, FALSE)>>) \o Rest
      PROVE  Gestures'
  <2>1. /\ SetTo(v, TRUE) \in Plain /\ SetTo(v, TRUE).op = "set"
        /\ SetTo(v, FALSE) \in Todo /\ SetTo(v, FALSE).op = "set" /\ ~Told(SetTo(v, FALSE))
    <3>1. v \in Int
      BY ValueAssumption
    <3>. QED  BY <3>1 DEF SetTo, Op, Plain, Todo, OpName, Told
  <2>2. CASE Top.user
    BY <1>1, <1>4, <2>1, <2>2, DiscreteQuiet, QuietGesture
  <2>3. CASE ~Top.user
    BY <1>1, <1>4, <2>1, <2>3, QuietOne, QuietGesture
  <2>. QED  BY <2>2, <2>3
<1>. QED  BY <1>3, <1>4 DEF DoChange

LEMMA DoGestures ==
  ASSUME EditInv, Gestures,
         DoDelta \/ DoSet \/ DoFraction \/ DoHook \/ DoBegin \/ DoEnd \/ DoChange \/ DoCursor
  PROVE  Gestures'
<1>0. Typed /\ calls # <<>> /\ Top \in Todo /\ Rest \in Seq(Todo) /\ calls \in Seq(Todo)
  <2>1. Typed /\ calls # <<>>
    BY DEF EditInv, DoDelta, DoSet, DoFraction, DoHook, DoBegin, DoEnd, DoChange, DoCursor, Running
  <2>. QED  BY <2>1, RestTyped DEF Typed
<1>1. Top.op \in {"begin", "end"} => Top.to \in Edit
  BY <1>0 DEF Todo
<1>2. Top.user \in BOOLEAN
  BY <1>0 DEF Todo
<1>3. \A op, to : Due(calls, op, to) <=> (Top.op = op /\ Top.to = to) \/ Due(Rest, op, to)
  BY <1>0, DueHead DEF Top, Rest
<1>4. /\ Closes(Rest)
      /\ Top.op = "begin" /\ Top.to = "DISCRETE" => Due(Rest, "end", "DISCRETE")
      /\ Led(calls) => Led(Rest) /\ (Rest # <<>> /\ Told(Head(Rest)) => Top.op = "begin")
      /\ LastsLong(calls) => LastsLong(Rest)
      /\ LastsLong(calls) /\ Top.op = "end" /\ Top.to = "DRAG" => Led(Rest) /\ (Rest # <<>> => ~Told(Head(Rest)))
  BY <1>0, TailFacts DEF Gestures, GestureInv, Top, Rest
<1>5. CASE DoDelta
  <2>1. Top.user = TRUE
    BY <1>0, <1>5 DEF DoDelta, Running, Todo
  <2>. QED  BY <1>0, <1>5, <2>1, SetGesture DEF DoDelta, Running
<1>6. CASE DoSet
  BY <1>0, <1>2, <1>6, SetGesture DEF DoSet, Running
<1>7. CASE DoFraction
  BY <1>0, <1>2, <1>7, SetGesture DEF DoFraction, Running
<1>8. CASE DoHook
  <2>1. calls' = <<>> \o Rest
    BY <1>0, <1>8, ConcatEmptySeq DEF DoHook
  <2>. QED  BY <1>0, <1>8, <2>1, QuietNone, QuietGesture DEF DoHook, Running
<1>9. CASE DoChange
  BY <1>0, <1>9, ChangeGesture
<1>10. CASE DoBegin
  <2>1. Top.op = "begin" /\ calls' = Rest /\ UNCHANGED pointer
    BY <1>10 DEF DoBegin, Running
  <2>2. ve_state' = IF Stays(Top.to) THEN ve_state ELSE Top.to
    BY <1>10 DEF DoBegin
  <2>3. \/ ve_state' = ve_state /\ ve_state # "REST"
           /\ (ve_state = "DRAG" \/ ve_state = Top.to \/ (ve_state = "WHEEL" /\ Top.to # "DRAG"))
        \/ ve_state' = Top.to /\ ve_state # "DRAG"
    BY <1>1, <2>1, <2>2 DEF Stays, Edit
  <2>4. GestureInv'
    BY <1>1, <1>3, <1>4, <2>1, <2>3 DEF Gestures, GestureInv, Pressed, pointer, Edit
  <2>5. TellInv'
    <3>1. CASE irregular
      BY <2>1, <3>1 DEF TellInv, pointer
    <3>2. CASE ve_state = "DRAG" /\ LastsLong(calls)
      BY <1>4, <2>1, <2>3, <3>2 DEF TellInv
    <3>3. CASE Led(calls)
      <4>1. ve_state' # "REST"
        BY <1>1, <2>1, <2>3 DEF Edit
      <4>. QED  BY <1>4, <2>1, <3>3, <4>1 DEF TellInv
    <3>. QED  BY <3>1, <3>2, <3>3 DEF Gestures, TellInv
  <2>. QED  BY <2>4, <2>5 DEF Gestures
<1>11. CASE DoEnd
  <2>1. Top.op = "end" /\ calls' = Rest /\ UNCHANGED pointer
    BY <1>11 DEF DoEnd, Running
  <2>2. ve_state' = IF ve_state = Top.to THEN "REST" ELSE ve_state
    BY <1>11 DEF DoEnd, Ends
  <2>3. GestureInv'
    BY <1>1, <1>3, <1>4, <2>1, <2>2 DEF Gestures, GestureInv, Pressed, pointer, Edit
  <2>4. TellInv'
    <3>1. CASE irregular
      BY <2>1, <3>1 DEF TellInv, pointer
    <3>2. CASE ve_state = "DRAG" /\ LastsLong(calls) /\ Top.to # "DRAG"
      BY <1>4, <2>1, <2>2, <3>2 DEF TellInv
    <3>3. CASE LastsLong(calls) /\ Top.to = "DRAG"
      BY <1>4, <2>1, <3>3 DEF TellInv, Top
    <3>4. CASE Led(calls)
      BY <1>4, <2>1, <3>4 DEF TellInv, Top
    <3>. QED  BY <3>1, <3>2, <3>3, <3>4 DEF Gestures, TellInv
  <2>. QED  BY <2>3, <2>4 DEF Gestures
<1>12. CASE DoCursor
  <2>1. /\ Top.op = "cursor" /\ calls' = Rest /\ cursor' = Top.to
        /\ UNCHANGED <<ve_state, inside, button, denied, irregular, lost, strayed>>
    BY <1>12 DEF DoCursor, Running
  <2>2. GestureInv'
    BY <1>3, <1>4, <2>1 DEF Gestures, GestureInv, Pressed
  <2>3. TellInv'
    <3>1. CASE irregular
      BY <2>1, <3>1 DEF TellInv
    <3>2. CASE ve_state = "DRAG" /\ LastsLong(calls)
      BY <1>4, <2>1, <3>2 DEF TellInv
    <3>3. CASE Led(calls)
      BY <1>4, <2>1, <3>3 DEF TellInv, Top
    <3>. QED  BY <3>1, <3>2, <3>3 DEF Gestures, TellInv
  <2>. QED  BY <2>2, <2>3 DEF Gestures
<1>. QED  BY <1>5, <1>6, <1>7, <1>8, <1>9, <1>10, <1>11, <1>12

\* Nothing in a sequence tells of a change.
Silent(s) == \A i \in 1 .. Len(s) : ~Told(s[i])

LEMMA SilentFacts ==
  ASSUME NEW s \in Seq(Todo), Silent(s)
  PROVE  Led(s) /\ LastsLong(s) /\ (s # <<>> => ~Told(Head(s)))
<1>1. s # <<>> => Len(s) > 0 /\ Len(s) \in Nat /\ Head(s) = s[1]
  BY EmptySeq
<1>2. \A i \in 2 .. Len(s) : i \in 1 .. Len(s)
  OBVIOUS
<1>. QED  BY <1>1, <1>2 DEF Silent, Led, LastsLong

LEMMA SilentConcat ==
  ASSUME NEW s \in Seq(Todo), NEW t \in Seq(Todo), Silent(s), Silent(t)
  PROVE  Silent(s \o t)
<1>. SUFFICES ASSUME NEW i \in 1 .. Len(s \o t) PROVE ~Told((s \o t)[i])
  BY DEF Silent
<1>1. CASE i \in 1 .. Len(s)
  BY <1>1, Joined DEF Silent
<1>2. CASE i - Len(s) \in 1 .. Len(t) /\ i = Len(s) + (i - Len(s))
  <2>1. t[i - Len(s)] = (s \o t)[i]
    BY <1>2, Joined
  <2>. QED  BY <1>2, <2>1 DEF Silent
<1>. QED  BY <1>1, <1>2, Joined

LEMMA NoneFacts ==
  /\ Silent(<<>>) /\ Closes(<<>>) /\ Led(<<>>) /\ LastsLong(<<>>) /\ <<>> \in Seq(Todo)
  /\ \A op, to : ~Due(<<>>, op, to)
<1>1. Silent(<<>>) /\ Closes(<<>>) /\ <<>> \in Seq(Todo) /\ \A op, to : ~Due(<<>>, op, to)
  BY DEF Silent, Closes, Due
<1>. QED  BY <1>1, SilentFacts

LEMMA OneFacts ==
  ASSUME NEW c \in Todo, c.op # "begin"
  PROVE  /\ <<c>> \in Seq(Todo) /\ <<c>> # <<>> /\ Head(<<c>>) = c
         /\ \A op, to : Due(<<c>>, op, to) <=> c.op = op /\ c.to = to
         /\ Closes(<<c>>) /\ Led(<<c>>) /\ LastsLong(<<c>>)
         /\ ~Told(c) => Silent(<<c>>)
<1>. DEFINE s == <<c>>
<1>1. s \in Seq(Todo) /\ Len(s) = 1 /\ s[1] = c /\ Head(s) = c /\ s # <<>>
  OBVIOUS
<1>. HIDE DEF s
<1>2. \A i \in 1 .. Len(s) : i = 1
  BY <1>1
<1>3. 1 \in 1 .. Len(s)
  BY <1>1
<1>4. \A op, to : Due(s, op, to) <=> c.op = op /\ c.to = to
  BY <1>1, <1>2, <1>3 DEF Due
<1>5. Closes(s) /\ LastsLong(s) /\ (~Told(c) => Silent(s))
  BY <1>1, <1>2 DEF Closes, LastsLong, Silent
<1>6. Led(s)
  BY <1>1 DEF Led
<1>. QED  BY <1>1, <1>4, <1>5, <1>6 DEF s

LEMMA TwoFacts ==
  ASSUME NEW c \in Todo, NEW d \in Todo,
         c.op = "begin" => c.to # "DISCRETE", d.op = "begin" => d.to # "DISCRETE"
  PROVE  /\ <<c, d>> \in Seq(Todo) /\ <<c, d>> # <<>> /\ Head(<<c, d>>) = c
         /\ \A op, to : Due(<<c, d>>, op, to) <=> (c.op = op /\ c.to = to) \/ (d.op = op /\ d.to = to)
         /\ Closes(<<c, d>>)
         /\ c.op = "begin" => Led(<<c, d>>)
         /\ c.op # "end" => LastsLong(<<c, d>>)
         /\ ~Told(c) /\ ~Told(d) => Silent(<<c, d>>)
<1>. DEFINE s == <<c, d>>
<1>1. s \in Seq(Todo) /\ Len(s) = 2 /\ s[1] = c /\ s[2] = d /\ Head(s) = c /\ s # <<>>
  OBVIOUS
<1>. HIDE DEF s
<1>2. \A i \in 1 .. Len(s) : i = 1 \/ i = 2
  BY <1>1
<1>3. 1 \in 1 .. Len(s) /\ 2 \in 1 .. Len(s)
  BY <1>1
<1>4. \A op, to : Due(s, op, to) <=> (c.op = op /\ c.to = to) \/ (d.op = op /\ d.to = to)
  BY <1>1, <1>2, <1>3 DEF Due
<1>5. Closes(s)
  BY <1>1, <1>2 DEF Closes
<1>6. c.op = "begin" => Led(s)
  <2>. SUFFICES ASSUME c.op = "begin", NEW i \in 2 .. Len(s) PROVE s[i - 1].op = "begin"
    BY DEF Led
  <2>1. i = 2 /\ i - 1 = 1
    BY <1>1
  <2>. QED  BY <1>1, <2>1
<1>7. c.op # "end" => LastsLong(s)
  <2>. SUFFICES ASSUME c.op # "end", NEW i \in 1 .. Len(s), NEW j \in 1 .. Len(s), i < j, s[i].op = "end"
                PROVE  FALSE
    BY DEF LastsLong
  <2>1. i = 1
    BY <1>1
  <2>. QED  BY <1>1, <2>1
<1>8. ~Told(c) /\ ~Told(d) => Silent(s)
  BY <1>1, <1>2 DEF Silent
<1>. QED  BY <1>1, <1>4, <1>5, <1>6, <1>7, <1>8 DEF s

LEMMA EventOps ==
  ASSUME NEW d \in Int
  PROVE  /\ \A s \in Edit : /\ Begin(s) \in Todo /\ Begin(s).op = "begin" /\ Begin(s).to = s /\ ~Told(Begin(s))
                            /\ End(s) \in Todo /\ End(s).op = "end" /\ End(s).to = s /\ ~Told(End(s))
         /\ \A c \in {"default", "hidden"} :
              Cursor(c) \in Todo /\ Cursor(c).op = "cursor" /\ Cursor(c).to = c /\ ~Told(Cursor(c))
         /\ Delta(d) \in Plain /\ Delta(d) \in Todo /\ Delta(d).op = "delta" /\ Delta(d).to = "none"
BY DEF Begin, End, Cursor, Delta, Op, Plain, Todo, OpName, Edit, Told

\* What holds between events.
LEMMA AtRest ==
  ASSUME Gestures, calls = <<>>
  PROVE  /\ button[2].state = "DRAG" => ~button[2].on
         /\ ve_state = "DRAG" => Pressed \/ lost
         /\ ve_state # "DISCRETE"
         /\ ve_state = "WHEEL" => inside \/ strayed
         /\ cursor = "hidden" => Pressed \/ lost
         /\ Pressed => irregular \/ ve_state = "DRAG"
BY NoneFacts DEF Gestures, GestureInv

\* An event that begins and ends no gesture, and tells of no change but in an edit.
LEMMA QuietAsk ==
  ASSUME Typed, Gestures, calls = <<>>, calls' \in Seq(Todo), Closes(calls'), Led(calls'),
         calls' # <<>> => ~Told(Head(calls')),
         \A op \in {"begin", "end", "cursor"}, to \in {"DRAG", "WHEEL", "default", "hidden"} :
           Due(calls', op, to) => op = "begin" /\ to = "WHEEL" /\ inside,
         UNCHANGED <<ve_state, cursor, inside, button, irregular, lost, strayed>>
  PROVE  Gestures'
<1>1. GestureInv'
  BY AtRest DEF GestureInv, Pressed
<1>2. TellInv'
  BY DEF TellInv, Top
<1>. QED  BY <1>1, <1>2 DEF Gestures

LEMMA PressGesture ==
  ASSUME Typed, Gestures, NEW b \in 1 .. 2, Press(b)
  PROVE  Gestures'
<1>1. /\ calls = <<>> /\ UNCHANGED <<ve_state, cursor, inside, denied, strayed>> /\ button \in Buttons
      /\ lost' = (IF b # 1 THEN lost ELSE ~inside /\ (lost \/ button[1].on))
      /\ button' = [button EXCEPT ![b] = [state |-> "DOWN", on |-> inside]]
      /\ irregular' = IF b = 1 THEN denied ELSE irregular
  BY DEF Press, Event, Idle, Typed, PointerTyped
<1>2. button'[b].state = "DOWN" /\ button'[b].on = inside /\ \A c \in 1 .. 2 : c # b => button'[c] = button[c]
  BY <1>1 DEF Buttons
<1>. DEFINE grab == <<Cursor("hidden"), Begin("DRAG")>>
<1>3. calls' = IF inside /\ b = 1 /\ ~denied THEN grab ELSE <<>>
  BY DEF Press
<1>4. /\ Silent(grab) /\ grab \in Seq(Todo) /\ Closes(grab)
      /\ \A op, to : Due(grab, op, to) <=> (op = "cursor" /\ to = "hidden") \/ (op = "begin" /\ to = "DRAG")
  <2>1. Cursor("hidden") \in Todo /\ Begin("DRAG") \in Todo
    BY EventOps DEF Edit
  <2>2. /\ Cursor("hidden").op = "cursor" /\ Cursor("hidden").to = "hidden" /\ ~Told(Cursor("hidden"))
        /\ Begin("DRAG").op = "begin" /\ Begin("DRAG").to = "DRAG" /\ ~Told(Begin("DRAG"))
    BY EventOps DEF Edit
  <2>. QED  BY <2>1, <2>2, TwoFacts
<1>. HIDE DEF grab
<1>5. Silent(calls') /\ calls' \in Seq(Todo) /\ Closes(calls')
  BY <1>3, <1>4, NoneFacts
<1>6. \A op, to : Due(calls', op, to) <=>
        /\ inside /\ b = 1 /\ ~denied
        /\ (op = "cursor" /\ to = "hidden") \/ (op = "begin" /\ to = "DRAG")
  BY <1>3, <1>4, NoneFacts
<1>7. b = 1 => (Pressed' <=> inside) /\ (Pressed \/ lost => inside \/ lost')
  BY <1>1, <1>2 DEF Pressed
<1>8. b # 1 => (Pressed' <=> Pressed) /\ irregular' = irregular /\ lost' = lost
  BY <1>1, <1>2 DEF Pressed
<1>9. button'[2].state = "DRAG" => ~button'[2].on
  BY <1>1, <1>2, AtRest
<1>10. GestureInv'
  BY <1>1, <1>5, <1>6, <1>7, <1>8, <1>9, AtRest DEF GestureInv
<1>11. TellInv'
  BY <1>5, SilentFacts DEF TellInv, Top
<1>. QED  BY <1>10, <1>11 DEF Gestures

\* What ends a drag.
LEMMA DropFacts ==
  LET drop == <<Cursor("default"), End("DRAG")>> IN
  /\ Silent(drop) /\ drop \in Seq(Todo) /\ Closes(drop)
  /\ \A op, to : Due(drop, op, to) <=> (op = "cursor" /\ to = "default") \/ (op = "end" /\ to = "DRAG")
<1>1. Cursor("default") \in Todo /\ End("DRAG") \in Todo
  BY EventOps DEF Edit
<1>2. /\ Cursor("default").op = "cursor" /\ Cursor("default").to = "default" /\ ~Told(Cursor("default"))
      /\ End("DRAG").op = "end" /\ End("DRAG").to = "DRAG" /\ ~Told(End("DRAG"))
  BY EventOps DEF Edit
<1>. QED  BY <1>1, <1>2, TwoFacts

LEMMA ReleaseGesture ==
  ASSUME Typed, Gestures, NEW b \in 1 .. 2, Release(b)
  PROVE  Gestures'
<1>1. /\ calls = <<>> /\ UNCHANGED <<ve_state, cursor, inside, denied, strayed>> /\ button \in Buttons
      /\ lost' = (IF b # 1 THEN lost ELSE ~inside /\ (lost \/ (button[1].on /\ button[1].state = "DOWN")))
      /\ button' = [button EXCEPT ![b] = [state |-> "UP", on |-> FALSE]]
      /\ irregular' = (irregular /\ b # 1)
  BY DEF Release, Event, Idle, Typed, PointerTyped
<1>2. button'[b].state = "UP" /\ button'[b].on = FALSE /\ \A c \in 1 .. 2 : c # b => button'[c] = button[c]
  BY <1>1 DEF Buttons
<1>. DEFINE drop == <<Cursor("default"), End("DRAG")>>
            ends == IF EndsDrag(b) THEN drop ELSE <<>>
            reset == Discretely(<<SetTo(Origin, TRUE)>>)
<1>3. Silent(drop) /\ drop \in Seq(Todo) /\ Closes(drop)
      /\ \A op, to : Due(drop, op, to) <=> (op = "cursor" /\ to = "default") \/ (op = "end" /\ to = "DRAG")
  BY DropFacts
<1>4. Quiet(reset) /\ reset # <<>> /\ ~Told(Head(reset))
  <2>1. Origin \in Int
    BY ValueAssumption
  <2>2. SetTo(Origin, TRUE) \in Plain /\ SetTo(Origin, TRUE).op = "set"
    BY <2>1 DEF SetTo, Op, Plain, Todo, OpName
  <2>. QED  BY <2>2, DiscreteQuiet
<1>5. calls' = ends \/ calls' = reset \o ends
  BY DEF Release
<1>. HIDE DEF drop, reset
<1>6. /\ Silent(ends) /\ ends \in Seq(Todo) /\ Closes(ends)
      /\ \A op, to : Due(ends, op, to) <=>
           EndsDrag(b) /\ ((op = "cursor" /\ to = "default") \/ (op = "end" /\ to = "DRAG"))
  BY <1>3, NoneFacts
<1>7. EndsDrag(b) <=> b = 1 /\ (inside \/ (button[1].on /\ button[1].state = "DRAG"))
  BY DEF EndsDrag
<1>. HIDE DEF ends
<1>8. Led(ends) /\ (ends # <<>> => ~Told(Head(ends)))
  BY <1>6, SilentFacts
<1>9. calls' \in Seq(Todo) /\ Closes(calls') /\ Led(calls') /\ (calls' # <<>> => ~Told(Head(calls')))
  <2>1. CASE calls' = ends
    BY <1>6, <1>8, <2>1
  <2>2. CASE calls' = reset \o ends
    BY <1>4, <1>6, <1>8, <2>2, ConcatFacts, Joined DEF Quiet
  <2>. QED  BY <1>5, <2>1, <2>2
<1>10. \A op \in {"begin", "end", "cursor"}, to \in {"DRAG", "WHEEL", "default", "hidden"} :
         Due(calls', op, to) <=> EndsDrag(b) /\ ((op = "cursor" /\ to = "default") \/ (op = "end" /\ to = "DRAG"))
  <2>1. CASE calls' = ends
    BY <1>6, <2>1
  <2>2. CASE calls' = reset \o ends
    <3>. TAKE op \in {"begin", "end", "cursor"}, to \in {"DRAG", "WHEEL", "default", "hidden"}
    <3>1. Due(calls', op, to) <=> Due(ends, op, to)
      BY <1>4, <1>6, <2>2, DueConcat DEF Quiet
    <3>. QED  BY <1>6, <3>1
  <2>. QED  BY <1>5, <2>1, <2>2
<1>11. b = 1 => ~Pressed' /\ (Pressed \/ lost => EndsDrag(b) \/ lost')
  <2>1. button[1].state \in {"UP", "DOWN", "DRAG"}
    BY <1>1 DEF Buttons
  <2>. QED  BY <1>1, <1>2, <1>7, <2>1 DEF Pressed
<1>12. b # 1 => (Pressed' <=> Pressed) /\ (irregular' <=> irregular) /\ ~EndsDrag(b) /\ lost' = lost
  <2>1. b # 1 => button'[1] = button[1]
    BY <1>2
  <2>2. b # 1 => (Pressed' <=> Pressed)
    BY <2>1 DEF Pressed
  <2>. QED  BY <1>1, <1>7, <2>2
<1>13. button'[2].state = "DRAG" => ~button'[2].on
  BY <1>1, <1>2, AtRest
<1>14. GestureInv'
  BY <1>1, <1>9, <1>10, <1>11, <1>12, <1>13, AtRest DEF GestureInv
<1>15. TellInv'
  BY <1>9 DEF TellInv, Top
<1>. QED  BY <1>14, <1>15 DEF Gestures

\* The element is left with an event, or forgotten, when the pointer goes.
LEMMA FollowGesture ==
  ASSUME Typed, Gestures, NEW d \in Deltas, NEW p \in Place, NEW leaves \in BOOLEAN,
         calls = <<>>, Follow(p, d, leaves), inside \/ strayed => inside' \/ strayed' \/ leaves
  PROVE  Gestures'
<1>1. /\ UNCHANGED <<ve_state, cursor, denied, lost>> /\ button \in Buttons
      /\ irregular' = (irregular \/ (button[1].on /\ button[2].state = "DOWN" /\ button[2].on))
  BY DEF Follow, Typed, PointerTyped
<1>2. \A b \in 1 .. 2 : button[b].state \in {"UP", "DOWN", "DRAG"} /\ button[b].on \in BOOLEAN
  BY <1>1 DEF Buttons
<1>3. \A b \in 1 .. 2 : button'[b] = IF button[b].state = "UP" THEN button[b]
                                    ELSE [state |-> "DRAG",
                                          on |-> button[b].on /\ (button[b].state = "DRAG" \/ ~Refused(b))]
  BY DEF Follow
<1>4. Pressed' <=> Pressed /\ (button[1].state = "DRAG" \/ ~Refused(1))
  <2>1. CASE button[1].state = "UP"
    <3>1. button'[1] = button[1]
      BY <1>3, <2>1
    <3>. QED  BY <2>1, <3>1 DEF Pressed
  <2>2. CASE button[1].state # "UP"
    <3>1. button'[1] = [state |-> "DRAG", on |-> button[1].on /\ (button[1].state = "DRAG" \/ ~Refused(1))]
      BY <1>3, <2>2
    <3>2. button'[1].on = (button[1].on /\ (button[1].state = "DRAG" \/ ~Refused(1)))
      BY <3>1
    <3>3. button'[1].state = "DRAG"
      BY <3>1
    <3>. QED  BY <2>2, <3>2, <3>3 DEF Pressed
  <2>. QED  BY <2>1, <2>2
<1>5. button'[2].state = "DRAG" => ~button'[2].on
  <2>1. button[2].state = "DRAG" => ~button[2].on
    BY AtRest, <1>1
  <2>2. Refused(2)
    BY DEF Refused
  <2>3. CASE button[2].state = "UP"
    BY <1>3, <2>3
  <2>4. CASE button[2].state # "UP"
    <3>1. button'[2] = [state |-> "DRAG", on |-> button[2].on /\ (button[2].state = "DRAG" \/ ~Refused(2))]
      BY <1>3, <2>4
    <3>2. button'[2].on = (button[2].on /\ (button[2].state = "DRAG" \/ ~Refused(2)))
      BY <3>1
    <3>. QED  BY <2>1, <2>2, <3>2
  <2>. QED  BY <2>3, <2>4
<1>. DEFINE leave == IF leaves THEN LeaveCalls ELSE <<>>
            drop  == <<Cursor("default"), End("DRAG")>>
            grab  == <<Cursor("hidden"), Delta(d)>>
            pull  == <<Delta(d)>>
            first == DragCalls(1, d)
            second == DragCalls(2, d)
<1>6. /\ Silent(leave) /\ leave \in Seq(Todo) /\ Closes(leave)
      /\ \A op, s : Due(leave, op, s) <=> leaves /\ ve_state = "WHEEL" /\ op = "end" /\ s = "WHEEL"
  <2>1. End("WHEEL") \in Todo /\ End("WHEEL").op = "end" /\ End("WHEEL").to = "WHEEL" /\ ~Told(End("WHEEL"))
    BY EventOps DEF Edit
  <2>2. /\ Silent(<<End("WHEEL")>>) /\ <<End("WHEEL")>> \in Seq(Todo) /\ Closes(<<End("WHEEL")>>)
        /\ \A op, s : Due(<<End("WHEEL")>>, op, s) <=> op = "end" /\ s = "WHEEL"
    BY <2>1, OneFacts
  <2>. QED  BY <2>2, NoneFacts DEF LeaveCalls
<1>7. /\ Silent(drop) /\ drop \in Seq(Todo) /\ Closes(drop)
      /\ \A op, s : Due(drop, op, s) <=> (op = "cursor" /\ s = "default") \/ (op = "end" /\ s = "DRAG")
  BY DropFacts
<1>8. Delta(d) \in Todo /\ Delta(d).op = "delta"
  BY EventOps, ValueAssumption
<1>9. /\ grab \in Seq(Todo) /\ Closes(grab) /\ LastsLong(grab)
      /\ \A op \in {"begin", "end", "cursor"} : \A s : Due(grab, op, s) <=> op = "cursor" /\ s = "hidden"
  <2>1. Cursor("hidden") \in Todo /\ Cursor("hidden").op = "cursor" /\ Cursor("hidden").to = "hidden"
    BY EventOps
  <2>. QED  BY <1>8, <2>1, TwoFacts
<1>10. /\ pull \in Seq(Todo) /\ Closes(pull) /\ LastsLong(pull)
       /\ \A op \in {"begin", "end", "cursor"} : \A s : ~Due(pull, op, s)
  BY <1>8, OneFacts
<1>11. calls' = leave \o first \o second
  BY DEF Follow
<1>12. first = IF button[1].state = "UP" \/ ~button[1].on THEN <<>>
              ELSE CASE button[1].state = "DRAG"                -> pull
                     [] button[1].state = "DOWN" /\ Refused(1)  -> drop
                     [] button[1].state = "DOWN" /\ ~Refused(1) -> grab
  BY DEF DragCalls
<1>13. second = IF button[2].state = "DOWN" /\ button[2].on THEN drop ELSE <<>>
  <2>1. button[2].state = "DRAG" => ~button[2].on
    BY AtRest, <1>1
  <2>2. Refused(2)
    BY DEF Refused
  <2>3. CASE button[2].state = "UP" \/ ~button[2].on
    BY <2>3 DEF DragCalls
  <2>4. CASE button[2].state = "DOWN" /\ button[2].on
    BY <2>2, <2>4 DEF DragCalls
  <2>. QED  BY <1>2, <2>1, <2>3, <2>4
<1>. HIDE DEF leave, drop, grab, pull, first, second
<1>14. /\ Silent(second) /\ second \in Seq(Todo) /\ Closes(second)
       /\ \A op, s : Due(second, op, s) <=>
            button[2].state = "DOWN" /\ button[2].on
            /\ ((op = "cursor" /\ s = "default") \/ (op = "end" /\ s = "DRAG"))
  BY <1>7, <1>13, NoneFacts
<1>15. \/ ~Pressed /\ first = <<>>
       \/ Pressed /\ ~Pressed' /\ first = drop
       \/ Pressed /\ Pressed' /\ (first = grab \/ first = pull)
  <2>1. CASE button[1].state = "UP" \/ ~button[1].on
    <3>1. first = <<>>
      BY <1>12, <2>1
    <3>. QED  BY <2>1, <3>1 DEF Pressed
  <2>2. CASE button[1].state = "DOWN" /\ button[1].on /\ Refused(1)
    BY <1>4, <1>12, <2>2 DEF Pressed
  <2>3. CASE button[1].state = "DOWN" /\ button[1].on /\ ~Refused(1)
    BY <1>4, <1>12, <2>3 DEF Pressed
  <2>4. CASE button[1].state = "DRAG" /\ button[1].on
    BY <1>4, <1>12, <2>4 DEF Pressed
  <2>. QED  BY <1>2, <2>1, <2>2, <2>3, <2>4
<1>16. /\ first \in Seq(Todo) /\ Closes(first) /\ LastsLong(first)
       /\ ~Pressed' => Silent(first)
       /\ ~Due(first, "begin", "DRAG") /\ ~Due(first, "begin", "WHEEL")
       /\ Due(first, "cursor", "hidden") => Pressed'
       /\ Pressed /\ ~Pressed' => Due(first, "cursor", "default") /\ Due(first, "end", "DRAG")
       /\ Due(first, "end", "DRAG") => ~Pressed'
  <2>1. CASE ~Pressed /\ first = <<>>
    <3>1. ~Pressed'
      BY <1>4, <2>1
    <3>2. LastsLong(<<>>) /\ <<>> \in Seq(Todo)
      BY NoneFacts
    <3>. QED  BY <2>1, <3>1, <3>2, NoneFacts
  <2>2. CASE Pressed /\ ~Pressed' /\ first = drop
    BY <1>7, <2>2, SilentFacts
  <2>3. CASE Pressed /\ Pressed' /\ first = grab
    BY <1>9, <2>3
  <2>4. CASE Pressed /\ Pressed' /\ first = pull
    BY <1>10, <2>4
  <2>. QED  BY <1>15, <2>1, <2>2, <2>3, <2>4
<1>. DEFINE both == leave \o first
<1>17. both \in Seq(Todo) /\ Closes(both)
  BY <1>6, <1>16, Joined, ConcatFacts
<1>18. \A op, s : Due(both, op, s) <=> Due(leave, op, s) \/ Due(first, op, s)
  BY <1>6, <1>16, DueConcat
<1>19. calls' = both \o second
  BY <1>11
<1>20. ~Pressed' => Silent(both)
  BY <1>6, <1>16, SilentConcat
<1>21. Pressed' => LastsLong(both) /\ ~Due(both, "end", "DRAG")
  <2>1. LastsLong(leave) /\ ~Due(leave, "end", "DRAG")
    BY <1>6, SilentFacts
  <2>. QED  BY <1>6, <1>16, <1>18, <2>1, ConcatFacts
<1>. HIDE DEF both
<1>22. calls' \in Seq(Todo) /\ Closes(calls')
  BY <1>14, <1>17, <1>19, Joined, ConcatFacts
<1>23. \A op, s : Due(calls', op, s) <=> Due(leave, op, s) \/ Due(first, op, s) \/ Due(second, op, s)
  BY <1>14, <1>17, <1>18, <1>19, DueConcat
<1>24. GestureInv'
  <2>1. Pressed' => Pressed
    BY <1>4
  <2>2. Due(second, "end", "DRAG") => ~Pressed \/ irregular'
    BY <1>1, <1>14 DEF Pressed
  <2>3. irregular => irregular'
    BY <1>1
  <2>4. Pressed => irregular \/ ve_state = "DRAG"
    BY <1>1, AtRest
  <2>5. ve_state' = ve_state /\ cursor' = cursor /\ (ve_state = "DRAG" => Pressed \/ lost)
        /\ (cursor = "hidden" => Pressed \/ lost) /\ lost' = lost
        /\ ve_state # "DISCRETE" /\ (ve_state = "WHEEL" => inside \/ strayed)
    BY <1>1, AtRest
  <2>6. ve_state = "WHEEL" => inside' \/ strayed' \/ Due(leave, "end", "WHEEL")
    BY <1>1, <1>6, <2>5
  <2>7. /\ ~Due(leave, "begin", "DRAG") /\ ~Due(leave, "cursor", "hidden") /\ ~Due(leave, "begin", "WHEEL")
        /\ ~Due(leave, "end", "DRAG")
    BY <1>6
  <2>8. ~Due(second, "begin", "DRAG") /\ ~Due(second, "cursor", "hidden") /\ ~Due(second, "begin", "WHEEL")
    BY <1>14
  <2>. QED  BY <1>5, <1>16, <1>22, <1>23, <2>1, <2>2, <2>3, <2>4, <2>5, <2>6, <2>7, <2>8 DEF GestureInv
<1>25. TellInv'
  <2>1. CASE ~Pressed'
    <3>1. Silent(calls')
      BY <1>14, <1>17, <1>19, <1>20, <2>1, SilentConcat
    <3>. QED  BY <1>22, <3>1, SilentFacts DEF TellInv, Top
  <2>2. CASE Pressed' /\ ve_state = "DRAG"
    <3>1. LastsLong(second)
      BY <1>14, SilentFacts
    <3>2. LastsLong(calls')
      BY <1>14, <1>17, <1>19, <1>21, <2>2, <3>1, ConcatFacts
    <3>. QED  BY <1>1, <2>2, <3>2 DEF TellInv
  <2>3. CASE irregular
    BY <1>1, <2>3 DEF TellInv
  <2>. QED  BY <1>1, <1>4, <2>1, <2>2, <2>3, AtRest
<1>. QED  BY <1>24, <1>25 DEF Gestures

LEMMA MotionGesture ==
  ASSUME Typed, Gestures, NEW d \in Deltas, NEW p \in Place, Motion(p, d) \/ EnterWindow(p, d)
  PROVE  Gestures'
<1>1. calls = <<>> /\ p.over \in BOOLEAN
  BY DEF Motion, EnterWindow, Event, Idle, Place
<1>2. CASE Motion(p, d)
  <2>1. Follow(p, d, inside /\ ~p.over) /\ (inside /\ ~p.over) \in BOOLEAN
    BY <1>2 DEF Motion
  <2>2. inside \/ strayed => inside' \/ strayed' \/ (inside /\ ~p.over)
    BY <1>1, <1>2 DEF Motion, Follow
  <2>. QED  BY <1>1, <2>1, <2>2, FollowGesture
<1>3. CASE EnterWindow(p, d)
  <2>1. Follow(p, d, inside /\ mouse_in) /\ (inside /\ mouse_in) \in BOOLEAN
    BY <1>3 DEF EnterWindow
  <2>2. inside \/ strayed => inside' \/ strayed' \/ (inside /\ mouse_in)
    BY <1>1, <1>3 DEF EnterWindow, Follow
  <2>. QED  BY <1>1, <2>1, <2>2, FollowGesture
<1>. QED  BY <1>2, <1>3

LEMMA LeaveGesture ==
  ASSUME Typed, Gestures, LeaveWindow
  PROVE  Gestures'
<1>1. calls = <<>> /\ UNCHANGED <<ve_state, cursor, button, irregular, lost, strayed>> /\ ~inside'
  BY DEF LeaveWindow, Event, Idle
<1>2. End("WHEEL") \in Todo /\ End("WHEEL").op = "end" /\ End("WHEEL").to = "WHEEL" /\ ~Told(End("WHEEL"))
  BY EventOps DEF Edit
<1>3. /\ Silent(<<End("WHEEL")>>) /\ <<End("WHEEL")>> \in Seq(Todo) /\ Closes(<<End("WHEEL")>>)
      /\ \A op, s : Due(<<End("WHEEL")>>, op, s) <=> op = "end" /\ s = "WHEEL"
  BY <1>2, OneFacts
<1>4. calls' = IF inside /\ ve_state = "WHEEL" THEN <<End("WHEEL")>> ELSE <<>>
  BY DEF LeaveWindow, LeaveCalls
<1>5. /\ Silent(calls') /\ calls' \in Seq(Todo) /\ Closes(calls')
      /\ \A op, s : Due(calls', op, s) <=> inside /\ ve_state = "WHEEL" /\ op = "end" /\ s = "WHEEL"
  BY <1>3, <1>4, NoneFacts
<1>6. Pressed' <=> Pressed
  BY <1>1 DEF Pressed
<1>7. GestureInv'
  BY <1>1, <1>5, <1>6, AtRest DEF GestureInv
<1>8. TellInv'
  BY <1>5, SilentFacts DEF TellInv, Top
<1>. QED  BY <1>7, <1>8 DEF Gestures

LEMMA AskGestures ==
  ASSUME Typed, Gestures, Asks \/ Attach
  PROVE  Gestures'
<1>1. ASSUME Modifier \/ Detach PROVE Gestures'
  <2>1. calls = <<>> /\ calls' = <<>> /\ UNCHANGED <<ve_state, cursor, inside, button, irregular, lost, strayed>>
    BY <1>1 DEF Modifier, Detach, Event, Idle, pointer
  <2>2. <<>> \in Seq(Todo) /\ Led(<<>>) /\ Closes(<<>>) /\ \A op, to : ~Due(<<>>, op, to)
    BY NoneFacts
  <2>. QED  BY <2>1, <2>2, QuietAsk
<1>2. ASSUME NEW b \in 1 .. 2, Press(b) \/ Release(b) PROVE Gestures'
  BY <1>2, PressGesture, ReleaseGesture
<1>3. ASSUME NEW d \in Deltas, Wheel(d) PROVE Gestures'
  <2>. DEFINE wheel == <<Begin("WHEEL"), Delta(d)>>
  <2>1. calls = <<>> /\ calls' = wheel /\ inside /\ UNCHANGED <<ve_state, cursor, inside, button, irregular, lost, strayed>>
    BY <1>3 DEF Wheel, Event, Idle, pointer
  <2>2. /\ Begin("WHEEL") \in Todo /\ Begin("WHEEL").op = "begin" /\ Begin("WHEEL").to = "WHEEL"
        /\ ~Told(Begin("WHEEL")) /\ Delta(d) \in Todo /\ Delta(d).op = "delta"
    BY EventOps, ValueAssumption DEF Edit
  <2>3. /\ wheel \in Seq(Todo) /\ Closes(wheel) /\ Led(wheel) /\ ~Told(Head(wheel))
        /\ \A op \in {"begin", "end", "cursor"} : \A to : Due(wheel, op, to) => op = "begin" /\ to = "WHEEL"
    BY <2>2, TwoFacts
  <2>. HIDE DEF wheel
  <2>. QED  BY <2>1, <2>3, QuietAsk
<1>4. ASSUME NEW d \in Deltas, Key(d) PROVE Gestures'
  <2>1. calls = <<>> /\ calls' = Discretely(<<Delta(d)>>) /\ UNCHANGED <<ve_state, cursor, inside, button, irregular, lost, strayed>>
    BY <1>4 DEF Key, Event, Idle, pointer
  <2>2. Delta(d) \in Plain /\ Delta(d).op = "delta"
    BY EventOps, ValueAssumption
  <2>. QED  BY <2>1, <2>2, DiscreteQuiet, QuietAsk DEF Quiet
<1>5. ASSUME NEW s \in Sources, NEW op \in {"set", "fraction"}, NEW v \in Int, AppSet(op, v, s) PROVE Gestures'
  <2>. DEFINE c == Op(op, "none", v, TRUE)
              e == Op(op, s, v, s = "direct")
  <2>1. calls = <<>> /\ UNCHANGED <<ve_state, cursor, inside, button, irregular, lost, strayed>>
        /\ (calls' = Discretely(<<c>>) \/ calls' = <<e>>)
    BY <1>5 DEF AppSet, Idle, pointer
  <2>2. c \in Plain /\ c.op = op /\ e \in Todo /\ e.op = op /\ ~Told(e)
    BY DEF Op, Plain, Todo, OpName, Told
  <2>. HIDE DEF c, e
  <2>3. CASE calls' = Discretely(<<c>>)
    BY <2>1, <2>2, <2>3, DiscreteQuiet, QuietAsk DEF Quiet
  <2>4. CASE calls' = <<e>>
    BY <2>1, <2>2, <2>4, OneFacts, QuietAsk
  <2>. QED  BY <2>1, <2>3, <2>4
<1>6. ASSUME Attach PROVE Gestures'
  <2>1. PICK c \in Plain : c.op = "set" /\ calls' = <<c, c, Hook>>
    BY <1>6, AttachTyped
  <2>2. c \in Todo /\ Hook \in Todo /\ Hook.op = "hook" /\ calls = <<>>
        /\ UNCHANGED <<ve_state, cursor, inside, button, irregular, lost, strayed>>
    BY <1>6, AttachTyped DEF Plain, Attach, pointer
  <2>3. c.user = FALSE
    BY <1>6, <2>1 DEF Attach, SetTo, Op
  <2>4. ~Told(c) /\ ~Told(Hook)
    BY <2>2, <2>3 DEF Told
  <2>5. calls' \in Seq(Todo) /\ Len(calls') = 3 /\ calls'[1] = c /\ calls'[2] = c /\ calls'[3] = Hook
    BY <2>1, <2>2
  <2>6. \A i \in 1 .. Len(calls') : calls'[i] = c \/ calls'[i] = Hook
    BY <2>5
  <2>7. Silent(calls') /\ Closes(calls')
        /\ \A op \in {"begin", "end", "cursor"} : \A to : ~Due(calls', op, to)
    BY <2>1, <2>2, <2>4, <2>6 DEF Silent, Closes, Due
  <2>. QED  BY <2>2, <2>5, <2>7, SilentFacts, QuietAsk
<1>. QED  BY <1>1, <1>2, <1>3, <1>4, <1>5, <1>6, MotionGesture, LeaveGesture, ValueAssumption DEF Asks

LEMMA InitGestures == Init => Gestures
<1>. SUFFICES ASSUME Init PROVE Gestures
  OBVIOUS
<1>1. calls = <<>> /\ ve_state = "REST" /\ cursor = "default" /\ ~Pressed /\ button[2].state = "UP"
  BY DEF Init, Pressed
<1>2. Led(<<>>)
  BY NoneFacts
<1>. QED  BY <1>1, <1>2, NoneFacts DEF Gestures, GestureInv, TellInv

LEMMA NextGestures == EditInv /\ Gestures /\ [Next]_vars => Gestures'
<1>. SUFFICES ASSUME EditInv, Gestures, [Next]_vars PROVE Gestures'
  OBVIOUS
<1>1. CASE Asks \/ Attach
  BY <1>1, AskGestures DEF EditInv
<1>2. CASE DoDelta \/ DoSet \/ DoFraction \/ DoHook \/ DoBegin \/ DoEnd \/ DoChange \/ DoCursor
  BY <1>2, DoGestures
<1>3. CASE UNCHANGED vars
  BY <1>3 DEF vars, pointer, Gestures, GestureInv, TellInv, Pressed, Top
<1>. QED  BY <1>1, <1>2, <1>3 DEF Next, Asks

\* A change the user makes is told of between the beginning and the end of an
\* edit, whatever the handlers do, but for the two kinds the code lets through.
THEOREM EditsBracketTheirChanges == Spec => []EditsBracketChanges
<1>1. EditInv /\ Gestures => EditsBracketChanges
  <2>. SUFFICES ASSUME EditInv, Gestures, Running("change"), Top.user, Top.to # "direct", ~irregular
                PROVE  editing = 1
    BY DEF EditsBracketChanges
  <2>1. Told(Top)
    BY DEF Told, Running
  <2>2. ve_state # "REST"
    BY <2>1 DEF Gestures, TellInv, Running
  <2>. QED  BY <2>2 DEF EditInv, EditsPaired
<1>. QED  BY <1>1, InitEdits, NextEdits, InitGestures, NextGestures, PTL DEF Spec

\* What a gesture began, an edit or the hiding of the cursor, ends with it, unless
\* the release goes elsewhere or the window's entry forgets the element.
THEOREM GesturesDoEnd == Spec => []GesturesEnd
<1>1. Gestures => GesturesEnd
  BY AtRest DEF GesturesEnd, EditsEnd, CursorComesBack, Idle, Pressed
<1>. QED  BY <1>1, InitEdits, NextEdits, InitGestures, NextGestures, PTL DEF Spec

===============================================================================
