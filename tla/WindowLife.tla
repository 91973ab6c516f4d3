------------------------------- MODULE WindowLife -------------------------------
(***************************************************************************)
(* The life of a window: the program opens it, runs the event loop, and    *)
(* takes it down, on each platform.  Between, the loop handles the events  *)
(* of the system and draws frames under the window's mutex, which another  *)
(* thread of the program takes too.  Any step of the way up that can fail  *)
(* may fail; the program then gives back what it has by rtb_free, when     *)
(* rtb_new gave it something to free.                                      *)
(*                                                                         *)
(* MaxSent bounds the events the system sends.                             *)
(***************************************************************************)
EXTENDS Ladders

CONSTANTS Sizes, Buttons, Wheel, Other, MaxSent

ASSUME WindowLifeAssumption ==
  /\ Buttons \cap {Wheel, Other} = {} /\ Wheel # Other
  /\ Sizes # {}
  /\ MaxSent \in Nat

VARIABLES
  plat,      \* the platform
  pc, i,     \* where the main thread is, and the step of the ladder it climbs
  held,      \* the resources acquired and not released
  failed,    \* the part of the way up a step of which failed
  lock, ctx, \* who holds the window's mutex, and whose thread has the GL context
  worker,    \* the other thread: "idle", "wants" or "in"
  then, back,\* what follows the drain, and where the loop goes on after it
  queue, sent, \* the events that have arrived, and how many have been sent
  phy, seen, laid, need, \* the window's size, the one the toolkit knows, the one the
             \* tree is laid out at (0: not attached), and need_reconfigure
  stop,      \* the loop has been told to stop
  pressed, captured, depth  \* buttons down, the pointer captured, capture_depth

main == << pc, i, held, failed >>
size == << phy, seen, laid, need >>
input == << pressed, captured, depth >>
vars == << plat, main, lock, ctx, worker, then, back, queue, sent, size, stop, input >>

None == "none"
Main == "main"
Worker == "worker"
Broken == "broken"

AnyButton == Buttons \cup {Wheel, Other}
Events == [k : {"map", "close", "expose"}] \cup [k : {"configure"}, s : Sizes]
            \cup [k : {"press", "release"}, b : AnyButton] \cup [k : {"message"}]

-----------------------------------------------------------------------------
Init ==
  /\ plat \in Platforms
  /\ pc = "alloc" /\ i = 1 /\ held = {} /\ failed = None
  /\ lock = None /\ ctx = None /\ worker = "idle"
  /\ then = None /\ back = None /\ queue = << >> /\ sent = 0
  /\ phy = (CHOOSE s \in Sizes : TRUE) /\ seen = phy /\ laid = 0 /\ need = FALSE
  /\ stop = FALSE /\ pressed = {} /\ captured = FALSE /\ depth = 0

Rest == << plat, worker, then, back, queue, sent, size, stop, input >>

-----------------------------------------------------------------------------
(* The way up: rtb_new, then rtb_window_open.  The program gives up when     *)
(* either fails.  The context is current in the thread that opened it.       *)
AfterFailure(here) == CASE here = "alloc" -> "done" [] here = "open" -> "free" [] here = "gl" -> "abort"

Climb(here, ladder, next) ==
  /\ pc = here
  /\ LET step == ladder[i] IN
       \/ /\ held' = (held \cup step.gives) \ step.drops
          /\ IF i < Len(ladder) THEN pc' = here /\ i' = i + 1 ELSE pc' = next /\ i' = 1
          /\ UNCHANGED failed
       \/ /\ step.fails
          /\ held' = held \ step.undo /\ failed' = here /\ i' = 1
          /\ pc' = AfterFailure(here)
  /\ ctx' = IF pc' = "gl" THEN Main ELSE ctx

Alloc == Climb("alloc", AllocLadder(plat), "open") /\ UNCHANGED << lock, Rest >>
OpenImpl == Climb("open", OpenLadder(plat), "gl") /\ UNCHANGED << lock, Rest >>
Open == Climb("gl", GlLadder, "opened") /\ UNCHANGED << lock, Rest >>

(* The way down, one release at a time.                                      *)
Descend(here, ladder, next) ==
  /\ pc = here
  /\ held' = held \ ladder[i]
  /\ IF i < Len(ladder) THEN pc' = here /\ i' = i + 1 ELSE pc' = next /\ i' = 1
  /\ lock' = IF "locked" \notin ladder[i] THEN lock
             ELSE IF lock = Main THEN None ELSE Broken
  /\ ctx' = IF "ctx" \in ladder[i] THEN None ELSE ctx
  /\ UNCHANGED << failed, Rest >>

Abort == Descend("abort", ImplClose(plat), "free")
Close == Descend("close", CloseLadder(plat), "free")
Free == Descend("free", FreeLadder(plat), "done")

\* Mutation: the context stays current in the thread that unlocks.
UnlockCurrent(who) == lock' = None /\ UNCHANGED ctx

Lock(who) == lock = None /\ lock' = who /\ ctx' = IF ctx = None THEN who ELSE ctx
Unlock(who) == lock' = None /\ ctx' = IF ctx = who THEN None ELSE ctx

-----------------------------------------------------------------------------
(* rtb_event_loop_init and the start of rtb_event_loop_run.  Cocoa lays the  *)
(* tree out here, and a second thread may be at it.                          *)
Top == IF plat = "x11" THEN "timers" ELSE "get"

Start ==
  /\ pc = "opened"
  /\ pc' = Top /\ held' = held \cup LoopInit(plat) \cup LoopRun(plat)
  /\ laid' = IF plat = "cocoa" THEN seen ELSE laid
  /\ UNCHANGED << plat, i, failed, lock, ctx, worker, then, back, queue, sent, phy, seen, need, stop, input >>

(* X11: an iteration of uv_run runs the frame timer, if due, then the poll   *)
(* callback, if the connection is readable, and looks at uv_stop's flag.     *)
(* Both callbacks drain the connection under the lock.                       *)
FrameCb ==
  /\ pc = "timers" /\ Lock(Main)
  /\ pc' = "drain" /\ then' = "draw" /\ back' = "poll"
  /\ UNCHANGED << plat, i, held, failed, worker, queue, sent, size, stop, input >>

NotDue == /\ pc = "timers" /\ pc' = "poll"
          /\ UNCHANGED << i, held, failed, lock, ctx, Rest >>

PollCb ==
  /\ pc = "poll" /\ queue # << >> /\ Lock(Main)
  /\ pc' = "drain" /\ then' = "unlock" /\ back' = "check"
  /\ UNCHANGED << plat, i, held, failed, worker, queue, sent, size, stop, input >>

NotReadable == /\ pc = "poll" /\ queue = << >> /\ pc' = "check"
               /\ UNCHANGED << i, held, failed, lock, ctx, Rest >>

\* Mutation: the flag is cleared, but only a frame lays out.
DrainedInFrame ==
  /\ pc = "drain" /\ queue = << >>
  /\ laid' = IF need /\ then = "draw" THEN seen ELSE laid
  /\ need' = FALSE
  /\ pc' = then
  /\ UNCHANGED << plat, i, held, failed, lock, ctx, worker, then, back, queue, sent, phy, seen, stop, input >>

(* drain_xcb_event_queue's end.                                              *)
Drained ==
  /\ pc = "drain" /\ queue = << >>
  /\ laid' = IF need THEN seen ELSE laid
  /\ need' = FALSE
  /\ pc' = then
  /\ UNCHANGED << plat, i, held, failed, lock, ctx, worker, then, back, queue, sent, phy, seen, stop, input >>

(* rtb_window_draw: a frame at the size seen.  X11 drains once more.         *)
Draw ==
  /\ pc = "draw"
  /\ IF plat = "x11" THEN pc' = "drain" /\ then' = "unlock" ELSE pc' = "unlock" /\ UNCHANGED then
  /\ UNCHANGED << plat, i, held, failed, lock, ctx, worker, back, queue, sent, size, stop, input >>

Leave ==
  /\ pc = "unlock" /\ pc' = back
  /\ Unlock(Main)
  /\ UNCHANGED << i, held, failed, Rest >>

(* Windows and Cocoa: one message at a time, each locking for itself.        *)
(* GetMessage runs the handler of a message another program sends before it  *)
(* returns, and only a posted one makes it return and the loop look at       *)
(* event_loop_running.                                                       *)
Timer ==
  /\ pc = "get" /\ "frame_timer" \in held /\ Lock(Main)
  /\ pc' = "draw" /\ back' = IF plat = "win" THEN "check" ELSE "get"
  /\ UNCHANGED << plat, i, held, failed, worker, then, queue, sent, size, stop, input >>

Message ==
  /\ pc = "get" /\ queue # << >>
  /\ IF plat = "cocoa" /\ Head(queue).k = "close" THEN UNCHANGED << lock, ctx >> ELSE Lock(Main)
  /\ pc' = "handle"
  /\ back' \in IF plat = "win" /\ Head(queue).k \in {"close", "configure"} THEN {"get", "check"} ELSE {"check"}
  /\ UNCHANGED << plat, i, held, failed, worker, then, queue, sent, size, stop, input >>

\* Mutation: the iteration on X11 does not look at uv_stop's flag.
CheckQuit ==
  /\ pc = "check"
  /\ pc' = IF stop /\ plat # "x11" THEN "fini" ELSE Top
  /\ UNCHANGED << i, held, failed, lock, ctx, Rest >>

Check ==
  /\ pc = "check"
  /\ pc' = IF stop THEN "fini" ELSE Top
  /\ UNCHANGED << i, held, failed, lock, ctx, Rest >>

(* GetMessage also returns for a WM_QUIT, with 0, and for an error, with -1, *)
(* and both end the loop, told to stop or not.                               *)
LoopQuits ==
  /\ plat = "win" /\ pc = "get" /\ pc' = "fini"
  /\ UNCHANGED << i, held, failed, lock, ctx, Rest >>

-----------------------------------------------------------------------------
(* The handlers.  X11 handles an event in the drain, the others after taking *)
(* their lock, and then release it.                                          *)
Handling(k) ==
  /\ pc \in {"drain", "handle"} /\ queue # << >> /\ Head(queue).k = k
  /\ queue' = Tail(queue)
  /\ pc' = CASE pc = "drain" -> "drain"
             [] pc = "handle" /\ lock = Main -> "unlock"
             [] OTHER -> back
  /\ UNCHANGED << plat, i, failed, lock, ctx, worker, then, back, sent, phy >>

(* MapNotify attaches a tree that is not attached; the WM_SHOWWINDOW posted  *)
(* at the window's creation is handled as a change of size.                  *)
Map ==
  /\ Handling("map")
  /\ CASE plat = "x11" /\ laid = 0 -> laid' = seen /\ need' = FALSE /\ UNCHANGED seen
       [] plat = "win" -> seen' = phy /\ laid' = phy /\ UNCHANGED need
       [] OTHER -> UNCHANGED << seen, laid, need >>
  /\ UNCHANGED << held, stop, input >>

(* X11's ConfigureNotify carries the size and puts the layout off to the     *)
(* end of the drain; WM_SIZE and setFrameSize: lay out at the size there is. *)
Configure ==
  /\ Handling("configure")
  /\ IF plat = "x11"
       THEN /\ seen' = Head(queue).s
            /\ need' = (need \/ Head(queue).s # seen)
            /\ UNCHANGED laid
       ELSE /\ seen' = phy /\ laid' = phy /\ UNCHANGED need
  /\ UNCHANGED << held, stop, input >>

(* WM_DELETE_WINDOW, WM_CLOSE, windowShouldClose:.  The window's handlers    *)
(* answer SHOULD_CLOSE and, when they let it pass, WILL_CLOSE; an answer of  *)
(* 1 to either keeps the window open.                                        *)
win_event(should, will) == should < 1 /\ will < 1

Stopping(stops) ==
  /\ stop' = (stop \/ stops)
  /\ held' = IF stops THEN held \ LoopStop(plat) ELSE held

(* rtb_event_loop_stop lets go of the capture on Windows.                    *)
StopsCapture(stops) == stops /\ plat = "win" /\ depth > 0

CloseAsked ==
  /\ Handling("close")
  /\ \E should, will \in {0, 1} :
       LET stops == win_event(should, will) IN
       /\ Stopping(stops)
       /\ IF StopsCapture(stops) THEN captured' = FALSE /\ depth' = 0 ELSE UNCHANGED << captured, depth >>
  /\ UNCHANGED << seen, laid, need, pressed >>

Expose == Handling("expose") /\ UNCHANGED << held, size, stop, input >>
OtherMessage == Handling("message") /\ UNCHANGED << held, size, stop, input >>

(* X11 grabs the pointer for any button but the wheel's, known or not, and   *)
(* ungrabs it for any release; Windows counts the presses, after the         *)
(* handlers, which may stop the loop, have seen them.                        *)
\* Mutation: only the release of a button the toolkit knows ungrabs.
UngrabsKnown(b) == b # Other

Grabs(b) == b # Wheel
Ungrabs(b) == TRUE

ReleasesCapture(d) == d <= 0

Press ==
  /\ Handling("press")
  /\ \E stops \in BOOLEAN :
       LET b == Head(queue).b
           d == IF StopsCapture(stops) THEN 0 ELSE depth IN
       /\ Stopping(stops)
       /\ pressed' = pressed \cup {b}
       /\ CASE plat = "x11" -> captured' = (captured \/ Grabs(b)) /\ UNCHANGED depth
            [] plat = "win" /\ b \in Buttons -> captured' = (d = 0 \/ captured) /\ depth' = d + 1
            [] OTHER -> UNCHANGED << captured, depth >>
  /\ UNCHANGED << seen, laid, need >>

Release ==
  /\ Handling("release")
  /\ \E stops \in BOOLEAN :
       LET b == Head(queue).b
           d == (IF StopsCapture(stops) THEN 0 ELSE depth) - 1 IN
       /\ Stopping(stops)
       /\ pressed' = pressed \ {b}
       /\ CASE plat = "x11" -> captured' = (captured /\ ~Ungrabs(b)) /\ UNCHANGED depth
            [] plat = "win" /\ b \in Buttons ->
                 /\ captured' = (captured /\ ~StopsCapture(stops) /\ ~ReleasesCapture(d))
                 /\ depth' = IF ReleasesCapture(d) THEN 0 ELSE d
            [] OTHER -> UNCHANGED << captured, depth >>
  /\ UNCHANGED << seen, laid, need >>

-----------------------------------------------------------------------------
(* The end of main: the loop's own are let go, and the window is locked to   *)
(* be closed.  The program's other thread has ended by then.                 *)
Fini ==
  /\ pc = "fini" /\ worker = "idle"
  /\ held' = held \ LoopFini(plat)
  /\ pc' = "lock"
  /\ UNCHANGED << i, failed, lock, ctx, Rest >>

LockToClose ==
  /\ pc = "lock" /\ Lock(Main) /\ pc' = "close"
  /\ UNCHANGED << i, held, failed, Rest >>

-----------------------------------------------------------------------------
(* The other thread, between the opening and the end of the loop.            *)
Up == "lock" \in held /\ pc \notin {"alloc", "open", "gl", "abort", "fini", "lock", "close", "free", "done"}

Wants == /\ worker = "idle" /\ Up /\ worker' = "wants"
         /\ UNCHANGED << plat, main, lock, ctx, then, back, queue, sent, size, stop, input >>
WorkerLock == /\ worker = "wants" /\ Lock(Worker) /\ worker' = "in"
              /\ UNCHANGED << plat, main, then, back, queue, sent, size, stop, input >>
WorkerUnlock == /\ worker = "in" /\ Unlock(Worker) /\ worker' = "idle"
                /\ UNCHANGED << plat, main, then, back, queue, sent, size, stop, input >>

-----------------------------------------------------------------------------
(* The system, once the loop runs.  A button is released only once pressed;  *)
(* X11 maps the window at once.  On Windows another program may take the     *)
(* capture away.  Off X11, where the timer is the system's, a message that   *)
(* concerns nothing here may always come.                                    *)
Arrive(e) == queue' = Append(queue, e) /\ sent' = sent + 1 /\ sent < MaxSent
Running == pc \notin {"alloc", "open", "gl", "abort", "opened", "fini", "lock", "close", "free", "done"}
Undelivered(b) == \E k \in 1..Len(queue) : queue[k] \in [k : {"press", "release"}, b : {b}]

SystemSends ==
  /\ Running
  /\ \/ /\ plat # "cocoa" /\ laid = 0 /\ Arrive([k |-> "map"]) /\ UNCHANGED phy
     \/ \E s \in Sizes \ {phy} : phy' = s /\ Arrive([k |-> "configure", s |-> s])
     \/ \E k \in {"close", "expose"} : Arrive([k |-> k]) /\ UNCHANGED phy
     \/ \E b \in IF plat = "x11" THEN AnyButton ELSE Buttons :
          /\ ~Undelivered(b)
          /\ Arrive([k |-> IF b \in pressed THEN "release" ELSE "press", b |-> b])
          /\ UNCHANGED phy
  /\ UNCHANGED << plat, main, lock, ctx, worker, then, back, seen, laid, need, stop, input >>

LoseCapture ==
  /\ plat = "win" /\ Running /\ captured
  /\ captured' = FALSE /\ pressed' = {}
  /\ UNCHANGED << plat, main, lock, ctx, worker, then, back, queue, sent, size, stop, depth >>

PointerMoves ==
  /\ plat # "x11" /\ Running /\ queue = << >>
  /\ queue' = << [k |-> "message"] >>
  /\ UNCHANGED << plat, main, lock, ctx, worker, then, back, sent, size, stop, input >>

Ended == pc = "done" /\ UNCHANGED vars

-----------------------------------------------------------------------------
MainStep ==
  \/ Alloc \/ OpenImpl \/ Open \/ Abort \/ Start
  \/ FrameCb \/ NotDue \/ PollCb \/ NotReadable \/ Drained \/ Draw \/ Leave
  \/ Timer \/ Message \/ Check
  \/ Map \/ Configure \/ CloseAsked \/ Expose \/ OtherMessage \/ Press \/ Release
  \/ Fini \/ LockToClose \/ Close \/ Free

Next ==
  \/ MainStep \/ LoopQuits
  \/ Wants \/ WorkerLock \/ WorkerUnlock
  \/ SystemSends \/ LoseCapture \/ PointerMoves \/ Ended

(* Every thread goes on, and a timer that is due runs.  The loop gets the    *)
(* mutex when it wants it often enough.  Nothing is promised of the system's *)
(* events or of the user's pointer.                                          *)
Fairness ==
  /\ WF_vars(MainStep) /\ SF_vars(FrameCb) /\ SF_vars(PollCb) /\ SF_vars(Message) /\ SF_vars(LockToClose)
  /\ WF_vars(WorkerLock) /\ WF_vars(WorkerUnlock)

Spec == Init /\ [][Next]_vars /\ Fairness

-----------------------------------------------------------------------------
\* The types of the variables.
TypeOK ==
  /\ plat \in Platforms
  /\ pc \in {"alloc", "open", "gl", "abort", "opened", "timers", "poll", "drain", "draw", "unlock",
             "get", "handle", "check", "fini", "lock", "close", "free", "done"}
  /\ i \in 1..30
  /\ failed \in {None, "alloc", "open", "gl"}
  /\ lock \in {None, Main, Worker, Broken} /\ ctx \in {None, Main, Worker}
  /\ worker \in {"idle", "wants", "in"}
  /\ then \in {None, "draw", "unlock"} /\ back \in {None, "poll", "check", "get"}
  /\ \A k \in 1..Len(queue) : queue[k] \in Events
  /\ sent \in 0..MaxSent
  /\ phy \in Sizes /\ seen \in Sizes /\ laid \in Sizes \cup {0} /\ need \in BOOLEAN
  /\ stop \in BOOLEAN
  /\ pressed \subseteq AnyButton /\ captured \in BOOLEAN /\ depth \in 0..MaxSent

(* What is never given back, on each platform, by where a step failed.  With *)
(* none failing: the libraries win32 looks its DPI functions up in, Cocoa's  *)
(* pixel format and title.  A failing rtb_new or rtb_window_open also leaves *)
(* what its err_ labels overlook.                                            *)
Everytime == [x11 |-> {}, win |-> {"dpi_libs"}, cocoa |-> {"pixel_format", "title"}]
Overlooked ==
  [none  |-> [x11 |-> {}, win |-> {}, cocoa |-> {}],
   alloc |-> [x11 |-> {"xkb_ctx", "clip_conn"}, win |-> {}, cocoa |-> {}],
   open  |-> [x11 |-> {"cursor_ctx", "ctx", "egl_surface"}, win |-> {"trampoline"}, cocoa |-> {"view", "ctx"}],
   gl    |-> LET drawn == {"surface", "style_list", "style_fonts"} IN
               [x11 |-> drawn, win |-> drawn, cocoa |-> drawn]]
KnownLeaks == Everytime[plat] \cup Overlooked[failed][plat]

(* Nothing is released, by an err_ label, rtb_event_loop_fini,               *)
(* rtb_window_close or rtb_free or while the loop stops, before what was     *)
(* made from it or is kept in it, the leaks apart.                           *)
NothingOutlives == \A r \in held \ KnownLeaks : LivesOn(plat, r) \subseteq held

(* What a release on the way down gives back is still there to be given      *)
(* back: no err_ label and no other release came before it.                  *)
ReleasedOnce ==
  \A way \in {<< "abort", ImplClose(plat) >>, << "close", CloseLadder(plat) >>, << "free", FreeLadder(plat) >>} :
    pc = way[1] => way[2][i] \ Along \subseteq held

(* A program that has ended, wherever the way up failed or the loop quit,    *)
(* leaves what is known to leak there and nothing else.                      *)
LeaksKnown == pc = "done" => held \subseteq KnownLeaks

(* The mutex is released by the thread that holds it, up to the close of the *)
(* window, which releases it for its caller; an open that fails after        *)
(* window_impl_open has none to release, and releases it.                    *)
UnlockedByHolder == lock = Broken => failed = "gl"

(* Whoever holds the lock has the GL context until the window's is released: *)
(* the main thread when it handles events, draws and deletes, and the other  *)
(* thread once the main thread has unlocked for the first time (the open     *)
(* leaves the context current; Cocoa's close handler does not lock at all).  *)
HolderIsCurrent ==
  "ctx" \in held =>
    /\ lock = Main => ctx = Main
    /\ lock = Worker => ctx = Worker \/ back = None \/ plat = "cocoa"

(* A frame is drawn with the tree laid out at the size the viewport gets,    *)
(* whatever came between the resize and the frame.                           *)
FramesFit == pc = "draw" /\ laid # 0 => laid = seen

(* The pointer is captured only while a button is down, whichever buttons    *)
(* went down and up, and whoever stopped the loop between.                   *)
CaptureEnds == captured => pressed # {}

(* The loop on Windows in GetMessage, with no message to return.             *)
SleepsOn == plat = "win" /\ pc = "get" /\ queue = << >>

(* Once told to stop, from whichever handler, the loop ends and the program  *)
(* takes the window down; but for win32, where a stop from the handler of a  *)
(* sent message kills the timer while GetMessage waits, and the loop sleeps  *)
(* until something is posted.                                                *)
ClosesAtLast == <>stop => <>(pc = "done") \/ []<>SleepsOn

(* A window the system has resized is laid out at its size, unless the loop  *)
(* is stopped or ends.                                                       *)
LoopEnded == pc \in {"fini", "lock", "close", "free", "done"}
ResizeShown == (laid # 0 /\ laid # phy) ~> (laid = phy \/ stop \/ LoopEnded)

(* Of every release, on the way down and where the way up failed.            *)
ReleasesSound == NothingOutlives /\ ReleasedOnce /\ LeaksKnown

(* Of an open window: who holds the lock may draw, and draws the layout.     *)
OpenSound == TypeOK /\ UnlockedByHolder /\ HolderIsCurrent /\ FramesFit
===============================================================================
