# rutabaga in TLA+

rutabaga is a widget toolkit in C: a tree of elements inside a window, drawn
with OpenGL, driven by the events of X11, Cocoa or win32. This directory holds
TLA+ modules that model it part by part, the TLC configurations that check them
on small instances, and proofs for TLAPS. Paths below are relative to
`src/src/` unless they begin with `examples/`.

## 1. Inventory

| component | state it keeps | operations | what makes it correct | module |
|---|---|---|---|---|
| redraw pipeline: `surface.c`, `window.c` (`rtb_window_draw`), `element.c` (`mark_dirty`, `rtb_elem_draw`) | per surface `surface_state`, `render_queue`, `next_frame_render_queue`, `in_redraw`; per element `render_entry`; `win->dirty` | `rtb_elem_mark_dirty`, `rtb_surface_invalidate`, `rtb_surface_draw_children`, `rtb_window_draw` | a request is drawn by the next frame; queues and link fields agree; a frame ends | `Render` |
| element tree: `element.c`, `container.c` | `parent`, `window`, `surface`, `children` | add, remove, attach, detach | an element that has left is known to nobody: queue, mouse, focus | `TreeEdit` |
| element states: `element.c` | `state` | `transition_*`, `rtb_elem_deliver_event` | the look agrees with the mouse and the focus | `Mouse` |
| event delivery: `event.c`, `element.c` | handler vectors | `rtb_dispatch_raw`, `rtb_handle` | an event goes upward until it is handled | `Mouse` |
| mouse: `platform/mouse.c` | `element_underneath`, per button `state`, `target`; per element `mouse_in` | press, release, motion, wheel, enter and leave of the window | enter and leave pair up; press, drag, release reach the same target | `Mouse` |
| focus: `window.c` | `win->focus` | `rtb_window_focus_element` | FOCUS and UNFOCUS pair up; one element has the focus | `Mouse` |
| window life cycle: `window.c`, `rutabaga.c`, `platform/x11-xcb/{event,window}.c` | what is acquired, the window's mutex, the loop | open, close protocol, event loop, frame timer | releases in order and once; drawing under the lock; a loop that is stopped ends | `WindowLife` |
| other platforms: `platform/{win,cocoa}` | the same, `capture_depth` | the same | the same; mouse capture ends | `WindowLife` |
| value elements: `widgets/{value,knob,spinbox}.c` | `value`, `normalised_value`, `ve_state` | drag, wheel, key, reset, set | edits pair up; what is shown is the value | `ValueElement` |
| text input: `widgets/{text-input,label}.c`, `text/text-buffer.c`, `text/text-object.c` | UTF-8 buffer, `cursor_position`, `label_offset` | insert, erase, move, set | whole characters; cursor in the text and in the box | `TextInput` |
| patchbay: `widgets/patchbay` | patches in three lists, `patch_in_progress` | drag from port to port, connect, disconnect, free | no patch names a freed port; one patch per pair | `Patchbay` |
| `examples/cabbage_patch.c` | JACK clients and ports, `connection_from_gui` | JACK callbacks under the window lock | what is shown is what JACK has; no deadlock | `CabbagePatch` |
| type atoms and styles: `atom.c`, `style.c` | descriptors, reference counts, resolved styles | ref, unref, resolve | a descriptor lives while it is used; the first style that fits | `Resources` |
| fonts: `text/font-manager.c` | texture fonts, counted | load, free, set resolution | shared, freed with the last | `Resources` |
| layout: `layout.c`, `geometry.c`, reflow in `element.c` | sizes, positions | size and layout callbacks, reflow | a reflow that stops leaves the tree laid out | `Layout`, `Reflow` |
| X11 clipboard: `platform/x11-xcb/clipboard.c` | text kept, property, selection | copy, paste, selection events | a paste returns the selection's text whole | `Clipboard` |
| keyboard, cursor | tables kept by the X libraries | translation | acquired and released | `Ladders` |
| GL rendering, layout debugging, build system, vendored code | - | drawing | numeric, visual | - |

Interaction. The X event loop (`platform/x11-xcb/event.c`) takes the window
lock, drains X events and draws a frame each time the 10 ms timer fires. X
events become rutabaga events: the mouse code finds the element under the
pointer and dispatches to it, handlers bubble upward, change values, move the
focus, edit the tree and ask for repaints. Requests collect in the queues of
the nested surfaces. A frame dispatches FRAME_START, draws the window surface,
dispatches FRAME_END, draws the overlay surface. Other threads (JACK's in
`cabbage_patch`) get in only between, by taking the window lock. Types, styles
and fonts are shared by all elements and counted.

What is hard. One lock serialises threads; the hard part is re-entrancy: draw
callbacks, frame handlers and event handlers call back into the code that is
running them, while it holds a queue, a target, an edit or a focus in an
intermediate state. Next come identities that outlive what they name (a removed
element still queued, hovered, dragged; a freed port; a freed descriptor whose
address returns), the order in which the events of the system, of another
client or of the JACK server arrive, and ladders of steps of which any may
fail. The list, line by line, is `hazards` in `PROJECT.json`.

## 2. Modules

    ElementTree      the built tree                   element.c, surface.c
       +-- Render          the redraw pipeline        element.c, surface.c, window.c, x11-xcb/event.c
       |      +-- RedrawService   what it promises    (Render refines it)
       |      +-- RenderProofs
       +-- Mouse           pointer, delivery, looks, focus   platform/mouse.c, event.c, element.c, window.c
              +-- HoverService    what it promises    (Mouse refines it)
              +-- MouseProofs

    TreeEdit         a tree that changes in use       element.c, surface.c, window.c
       +-- TreeEditProofs

    ValueElement     values and edits                 widgets/value.c, knob.c, spinbox.c
       +-- ValueElementProofs

    TextInput        bytes, cursor, what is shown     text/text-buffer.c, widgets/text-input.c, label.c
       +-- TextEditor      what it promises           (TextInput refines it)

    Patchbay         ports, patches, the gesture      widgets/patchbay
       +-- CabbagePatch    two threads and a server   examples/cabbage_patch.c
              +-- CabbagePatchProofs

    Ladders          acquisitions and releases        platform/{x11-xcb,win,cocoa}, window.c, rutabaga.c
       +-- WindowLife      from rtb_new to rtb_free   the same, their event loops
              +-- WindowLifeProofs

    Clipboard        copy and paste on X11            platform/x11-xcb/clipboard.c
       +-- ClipboardProofs

    Resources        types, styles, fonts             atom.c, style.c, text/font-manager.c
       +-- ResourcesProofs

    Layout           size and layout callbacks        layout.c, geometry.c
       +-- Reflow          reflow through the tree    element.c

Each `MC` module gives one of them its constants for TLC. Operators commented
"Mutation:" are wrong on purpose: each is a plausible bug that the property
named with it in `PROJECT.json` (`mutants`) catches.

### ElementTree

Constants describe one built tree (`Elem`, `Surface`, `Win`, `Overlay`,
`Parent`, `Above`, `Opaque`); operators compute what `element.c` finds by
walking `parent` pointers.

* `SurfaceOf` is `elem->surface`. The window and the overlay surface are the
  two roots and are their own surface.
* `Target[e]` is where the walk of `mark_dirty` stops: the nearest element,
  `e` included, such that nothing between it and its surface paints a
  background (`Clearable`, from `rtb_elem_is_clearable`).
* `Inside(s)` is what a full redraw of `s` draws, `Below(e)` what
  `rtb_elem_draw(e)` draws.

`Above` (the transitive closure of `Parent`) is a constant with an assumption
because a recursive operator would put the module out of the prover's reach;
`MCRender` computes it recursively for TLC. `NearestAssumption` says that a
nearest surface and a nearest clearable element exist, as they do in every
finite tree whose roots are surfaces.

### Render

One variable per field of the code: `dirty`, `surface_state`, `render_queue`,
`next_queue` (`next_frame_render_queue`), `in_redraw`, `render_entry` (the set
of elements whose TAILQ link fields are not both NULL, which `mark_dirty` reads
as "already marked"), `attached`, `obscured`. `pc` is the place where
`rtb_window_draw` stands, `stack` the active calls of
`rtb_surface_draw_children`, innermost first, each with its surface, whether it
is a full redraw, and the elements it has still to draw in this turn.

| action | code |
|---|---|
| `AppMark`, `AppInvalidate` | `rtb_elem_mark_dirty`, `rtb_surface_invalidate` from event handlers and other threads between frames, from FRAME_START and FRAME_END handlers |
| `Expose`, `VisibilityNotify` | those cases of `drain_xcb_event_queue` |
| `Reinit` | MapNotify and ConfigureNotify: `rtb_window_reinit`, attach and leafward reflow, every surface invalidated from the inside out |
| `FrameStart`, `NothingToDraw`, `DrawWindow`, `FrameEnd`, `DrawOverlay`, `Finish` | `rtb_window_draw`, cut at the points where handlers run |
| `DrawElem` | `rtb_elem_draw` of a plain element, with its draw callback, which may mark any element or invalidate a surface |
| `DrawSurface` | the draw callback of a nested surface: redraw the contents if dirty, blit |
| `OpenSurface`, `PopQueue`, `CloseSurface` | entry, one turn of the loop, end of `rtb_surface_draw_children` |

A mark is one step: `mark_dirty` of a plain element queues its target, and
`surface_mark_dirty` goes on to the surface around it, up to the root, which
sets `win->dirty`. `Chain`, `Blocked` and `Marks` are that recursion, unrolled
over `Above`. One branch is worth reading slowly: a plain element whose request
is blocked (surface already INVALID, window obscured, target already linked)
stops there, whereas a surface marks its parent surface even when its own
insertion was blocked.

Abstractions: siblings are drawn in any order (the code uses the order of
insertion); requests that a reflow makes in one step are inserted in any order;
a draw callback makes at most one request; sizes, GL, and visibility of single
elements (never changed by the code under `src/src`) are left out; the tree does not
change while the window is up (`TreeEdit` has that).

### The ledger

`ledger` is a history variable: it never enables or disables an action of the
code. `ledger.now` holds the requests the next frame has to serve,
`ledger.next` those made while a frame draws (due one frame later, unless drawn
earlier in the same one). Drawing an element removes it.

The code does lose requests. `ledger.gap[e]` says in which of the situations
below a request was lost, and `GapOf` describes each as narrowly as it could be
described.

| gap | situation |
|---|---|
| `full_redraw` | from a draw callback, on a surface that is being redrawn in full (it is still INVALID, so `mark_dirty` returns at element.c:416); run `full_redraw` |
| `overlay` | from a draw callback while the overlay is being drawn, on the overlay: window.c:410 recomputes `dirty` from the window's queue alone |
| `obscured` | on the window's tree while the window is RTB_FULLY_OBSCURED (element.c:417): neither expose nor VisibilityNotify makes up for it |
| `frame_end` | the window invalidated after its own drawing has begun: by a draw callback, a FRAME_END handler, or the overlay |
| `stranded` | of a plain element whose queue entry is linked already (`mark_dirty` returns at element.c:418) in a queue that no redraw looks at, where an earlier lost request left it |

`stranded` is the legacy of the others, and it outlives them. With a surface
inside an opaque box inside a surface, a node marked while the window is
obscured links the box but not the surface around it; once the window is
visible again, marking the knob in the box finds the box "already marked". The
same remains of a request from a draw callback that was itself served later in
the frame. Hence `Stranded` looks at the queues, not at the ledger.

`Served` and `ImplementsService` speak of the other requests ("honoured"). The
exception is one request wide: an honoured request elsewhere must still be
served in the presence of a lost one.

### RedrawService

What a user of the toolkit may rely on, with no queue in it: requests are due
or come later; a frame that draws nothing finds nothing due; a frame that has
drawn leaves nothing that was due. `Render` implements it under the mapping
`due <- Honoured(ledger.now)`, `later <- Honoured(ledger.next)`,
`phase` from `pc`.

### Mouse

The pointer, event delivery, the looks of elements (`elem->state`) and the
focus form one module because they call each other: a motion leaves and enters
elements, each of those is an event that bubbles and changes a state, a press
may end in a change of focus, a handler of any event may ask for another.

| variable | code |
|---|---|
| `mouse_in`, `element_underneath`, `mouse_in_overlay` | the fields of those names; `mouse_in` is the set of elements that have the flag |
| `button` | `win->mouse.button[b].state` and `.target`; `buttons_down` is computed from it |
| `focus`, `state` | `win->focus`; `elem->state`, split into "focused" and NORMAL, HOVER or ACTIVE |
| `calls` | the C call stack, see below |
| `strayed`, `balance`, `pressed` | history: elements that were forgotten with `mouse_in` set; ENTER minus LEAVE events of each element, those that strayed being let off their LEAVE; the element under the pointer when a button went down |

`calls` lists what is still to be done by the functions that are running, the
innermost first. An event of the platform may only come when it is empty
(there is one thread); each step takes its head and may put calls before the
rest. `<<Dispatch(e, "LEAVE", 0), Op("cross", e, None, "DRAG_LEAVE", 0),
At("rise", Up(e), p), ...>>`, for instance, is `retarget` while it leaves `e`.

| action | code |
|---|---|
| `Press`, `Release`, `Motion`, `EnterWindow`, `LeaveWindow`, `Wheel`, `Key` | the handlers of `x11-xcb/event.c` and the functions of `mouse.c` they call, up to the first event they dispatch |
| `AppFocus` | `rtb_window_focus_element` called by the application |
| `MotionBody`, `EnterBody`, `ExitBody` | `rtb__platform_mouse_motion`, `_enter_window`, the loop of `_leave_window` |
| `Rise`, `Descend`, `Clear` | `retarget`: leaving upward, looking into the overlay and then downward (`retarget_descend`), leaving the tree for the overlay |
| `Cross` | `dispatch_drag_enter`, `dispatch_drag_leave` |
| `Drag`, `ReleaseBody` | `drag`, one button per step; the end of `mouse_up` |
| `Conclude` | the end of `rtb_elem_deliver_event` for one element: its transition, then the parent's turn (`rtb_dispatch_raw`) or the return to the caller (`Returned`) |
| `HandlerFocus` | a handler calls `rtb_window_focus_element` before it returns |
| `FocusElement`, `Unfocus`, `SetFocus` | `rtb_window_focus_element`, cut where handlers run |

Abstractions: a point is the set of elements whose rectangle contains it
(`Cover`); whether a handler handles an event is a free choice, except for the
four events that `on_event` always eats; the handlers of one element for one
event are one, and it moves the focus at most once; overlapping siblings are
hit in any order. A button may be pressed that is down, and released that is up:
`mouse.c` does not look (391-425), and releases get lost, since X11 gives the grab
up at any button's release (event.c:149). Not modelled: click counting,
cursors, and overlays that appear under the pointer; elements removed under it
are in `TreeEdit`.

`strayed` is there for one situation. While a button is down the pointer is
followed outside of the window, and on the border, which `mouse.c` counts as
outside (line 432 compares with `<`). An element that reaches there is entered.
When the pointer then enters the window, `element_underneath` is set to the window
and what was entered is not left: it keeps `mouse_in`, gets no LEAVE, and
`retarget` enters it once more if it comes upon it.

### HoverService

ENTER and LEAVE as an element may count them: they alternate; an element is
entered only inside an entered parent, and left only when its children have
been left. `Mouse` implements it under the mapping `balance <- balance`, for
all elements but the two surfaces at the roots: the overlay surface is left
without ever being entered, and a pointer dragged out of the window makes the
window be left while the search goes on from it. The one other step there is
(`Strays`) is the window being entered, which makes some elements start anew.

### TreeEdit

`kids` is the list of an element's children, `parent` and `surf` its two
pointers, `attached` and `styled` what `attached` and `reload_style` leave in
it. The window refers into the tree by the queues of its surfaces (`queue`,
`linked`), by `under`, `inside` (the elements with `mouse_in`), `target` and
`focus`.

| action | code |
|---|---|
| `rtb_elem_add_child` | lists and pointers, `child_attached` all the way down (`Attach`), restyling, and the reflow's requests (`Redraw`): how far up it goes and which siblings it lays out again depends on sizes, so any attached elements may be marked and any surfaces invalidated |
| `rtb_elem_remove_child` | `Unlinked` and `Repaired`, then `Detach` all the way down, then the leafward reflow, which invalidates the parent and any surfaces in it |
| `Ask`, `Frame` | a request and a frame, each one step |
| `MoveTo`, `Press`, `Release`, `Focus` | what the mouse and the focus make the window refer to |

The code leaves something to the program, and the module says what: `Removable`
and `Addable`. Removing an element does not touch the focus
(window.c keeps `focus`), nor the queue entries of what is below it, nor its own
entry if it is the last of the queue (element.c:658 wants both link fields set,
and the last has no `tqe_next`); it repairs the target of a button only for a
child that has `mouse_in`, and leaves `mouse_in` set in what it has removed. An
element removed while it is queued keeps its link fields besides: added again, it
is never queued (element.c:418), and removed again it is taken from a queue it is
not in. `Removable` keeps programs from all of this, so nothing here would catch it.

`Redraw` invalidates an inner surface before the one it draws on: surface.c:126 comes
after the children's reflow, so that the inner surface's mark still finds the outer one
valid and is queued there. In which order a walk comes to siblings is left open, and
with it the order of what joins a queue (`Join`).

### ValueElement

`norm` and `value` are the two forms of the value, `shown` what the hook of the
knob or the spinbox was last called with, `ve_state` the edit under way,
`calls` what the functions that run have still to do, innermost first. The
application counts: `editing` is begun less ended. A float is a multiple of
`1 / Precision`.

| action | code |
|---|---|
| `Press`, `Release`, `Motion`, `EnterWindow`, `LeaveWindow`, `Wheel`, `Key`, `Modifier` | `on_event` of value.c, fed by the mouse as far as one element sees it, with two buttons |
| `AppSet`, `Attach`, `Detach` | `rtb_value_element_set_value`, `_set_normalised_value`, `attached` with the hook the widget calls |
| `DoBegin`, `DoEnd` | `change_state`, with its priorities: a drag takes over, and only itself can end |
| `DoDelta`, `DoSet`, `DoFraction`, `DoHook` | `rtb__value_element_set_normalised_value` and its callers |
| `DoChange` | RTB_VALUE_CHANGE, whose handlers may set the value again |
| `DoCursor` | hiding the cursor and bringing it back |

Presses and releases come in any state of the button, as in `Mouse`. The code loses a
gesture in one way: the window is left while the button is DOWN and has not been
moved (`LeaveWindow`; platform/mouse.c:496-509), or the button is pressed again
elsewhere. The release then goes to the window alone, with no RTB_DRAG_DROP, and
value.c:336-345 does not run: the edit stays begun and the cursor hidden. `lost` says
so, until a release does come to the element; `GesturesEnd` excepts just that. The wheel's
counterpart is `strayed`: an element entered from outside of the window, by a
drag, is forgotten without a LEAVE when the window is entered, and a wheel's edit
goes on in it.

Left out: drawing, the text of the spinbox, `value_string`.

### TextInput and TextEditor

A byte is a character and a place in its encoding, so that a torn character
can be told from a whole one; `data` holds bytes, `cursor` counts characters,
`shown` is the label's text, `tobj` the bytes its glyphs were made of, `offset`
and `bar` where the label is and where the line of the cursor is drawn.
`insert_u32`, `erase_char` and `utf8_idx` translate text-buffer.c, `damaged`
is a write outside of the buffer, after which nothing is said. Actions are
`push_u32`, `pop_u32`, `delete_u32`, the four moves (`Navigate`, with
`fix_cursor`), `SetText`, `Resize`; each ends with `PostChange` or
`UpdateCursor` where the code does. `Attach` (label.c:54-76) makes an empty text
object; the label has a font, and lays its text out, only from `Restyle`
(label.c:110-141) on, which follows at once or when the window is restyled. Texts
may be set between the two, so what is shown is spoken of once `styled`.

`damaged` is reachable in two ways. Backspace at position 0 of a text that is
not empty: `rtb_text_buffer_erase_char` seeks back from the byte before the
buffer (text-buffer.c:85). And `rtb_text_input_set_text` counts the characters
of the whole text even if `nbytes` says to copy less (`clipped`), so that the
next key inserts at a character that is not there (`utf8_idx` returns -1).
Short of that a newline makes the two counts disagree: `fix_cursor` clamps to
the number of glyphs, of which a newline has none, while the cursor counts
characters (`Plain` excepts such texts). The properties except exactly this.

`TextEditor` is an editor of characters at a position; `TextInput` implements it
under `text <- Text`, `pos <- cursor`.

### Patchbay and CabbagePatch

`Patchbay` has the operations of the widget as operators: `Connect`,
`Disconnect`, `FreePatches`, `PortInit`, `PortFini`, and the gesture
(`Press`, `MovePointer`, `EnterWindow`, `LeaveWindow`, `Release`). `loose` says that a
port was freed that a gesture is about; `patch_in_progress` keeps its address.
`lost` is the same as in `ValueElement`: the release of a button pressed on a port came
to no port, `stop_patching` (port.c:167-199) did not run, and `patch_in_progress`
outlives the button. `strayed` says that the window's entry forgot the port
that the patch leads to.

`CabbagePatch` puts two threads over it. `ui` is where the window's thread is,
`cb` what JACK's does with a notification, `jack` the server, `notes` what it
has still to tell.

| action | code |
|---|---|
| `UiLock`, `UiUnlock`, `UiPointer` | the event loop's lock around a batch, in which the pointer acts |
| `UiDrop`, `UiMutex`, `UiCall`, `UiShow` | a drop: `connection` or `disconnection` with `connection_from_gui` held over `jack_connect` |
| `Called` | the part of a callback before the lock: `trylock`, the lookups, what is ignored |
| `CallbackLock`, `CallbackBody` | the window lock and what is done under it |
| `UiExit`, `UiClose` | the end of `main`, with the lock held |
| `OtherConnects`, ..., `ClientCloses` | other programs (external) |

`missed` is set when `trylock` fails for a notification about something else
than the window's own call: cabbage_patch.c:452 takes it for its own, and the
patchbay shows for ever what is no longer so. It is also set when `list_ports` shows
a connection at another port: `client_get_port` compares only as much of a name as
the name asked for has (cabbage_patch.c:243), so that a port may be found whose name
goes on (`Found`, `Listed`).

Two threads can wait for one another. The end of `main` waits for a
callback that waits for `main` (cabbage_patch.c:613), hence the exception in
`ExitsUnlessCalled`. And `jack_connect` is called with the window lock held: its
callback runs meanwhile (cabbage_patch.c:503-507), and one that is past the trylock
by then, or is about a port or a client, waits for that lock. Whether the server
then waits for the callback is not this code's to say: `UiCall` and `UiShow` may
happen, and nothing makes them (`Hung`).

### Ladders and WindowLife

`Ladders` lists, for X11, win32 and Cocoa, the steps by which `rtb_new` and
`rtb_window_open` acquire things, what each `err_` label releases, and the order
of `rtb_window_close` and `rtb_free`. `LivesOn` says what each thing is made
from. `WindowLife` climbs and descends them and runs the loop between.

| action | code |
|---|---|
| `Alloc`, `OpenImpl`, `Open`, `Abort` | `rtb_new`, `window_impl_open`, the rest of `rtb_window_open` and its error path |
| `Start`, `FrameCb`, `NotDue`, `PollCb`, `NotReadable`, `Drained`, `Draw`, `Leave`, `Check` | the loop; on X11 one turn of `uv_run` is the timer's callback, the poll's, then the flag of `uv_stop` |
| `Timer`, `Message` | win32 and Cocoa |
| `Map`, `Configure`, `CloseAsked`, `Press`, `Release`, `Expose`, `OtherMessage` | the handlers |
| `Fini`, `LockToClose`, `Close`, `Free` | the end of `main` |
| `Wants`, `WorkerLock`, `WorkerUnlock` | another thread that takes the lock |
| `LoopQuits` | `GetMessage` returns 0 or -1 (win/event.c:309-312) |
| `SystemSends`, `LoseCapture`, `PointerMoves` | the system (external) |

Wherever the way up fails, the program goes on to what the code asks of it: nothing
after a failed `rtb_new`, `rtb_free` after a failed `rtb_window_open`. What stays
behind at the end is named by `KnownLeaks`, by platform and by where the way up failed:

| failed | X11 | win32 | Cocoa |
|---|---|---|---|
| nothing | - | user32 and Shcore, loaded to be looked up in (win/window.c:533) | the pixel format, retained once too often, and the title (cocoa/window.m:456-484) |
| `rtb_new` | the xkb context, the clipboard's connection | - | - |
| `window_impl_open` | the cursor context; GL context and EGL surface | the context that was to make another | the view, the GL context |
| the rest of `rtb_window_open` | the window's surface, the list of styles and their fonts | the same | the same |

each besides what the platform leaves every time. The GL context of X11 stays in two ways:
the mapping fails while it is current, so that `eglTerminate` does not free it
(x11-xcb/window.c:740-743); elsewhere the same call does make up for the error path's
passing the surface where the context belongs (x11-xcb/window.c:770). `Along`
names what a release takes with it if it is there. Cocoa's `alloc_gl_ctx` answering
nil, which `window_impl_open` does not look at, is not modelled.

### Clipboard

`buffer` is the text kept for other clients, `prop` the property of the
clipboard window, `asked`, `selfAsked` and `notes` what is on its way. The
paste is cut where the server may act: `Ask`, `Poll` (MaxPolls times), `ReadSize`,
`ReadValue`. `handle_selection_clear` and `handle_selection_request` run in the
event loop, not during a paste. The other client is external: it copies, pastes,
answers late, twice in a row, or refuses. `left` notes the two ways a text stays
in the property: the paste had no memory for it (`ReadSize`), or it is our answer
to a request of our own (`AnswerOurselves`). We ask ourselves when the selection
is ours and the copy failed for want of memory; the event loop comes to the
request after the paste has given up, when another copy may have succeeded. It
then writes the property and sends the notification to clients that select
`PROPERTY_CHANGE` on the clipboard window (event.c:414), which was created
without an event mask (window.c:206-211): nobody is told. `notes` is thus not
raised, and whichever paste asks next may read that text.

### Resources

Types, styles and fonts, because each names the one before. A descriptor is at
an address, counted, with its supertypes; `resolved` is
`style->resolved_type`, `inherit` its `inherit_from`; `tx` are the
texture fonts. `Attach` is the `attached` of every class of an element, the
restyling that follows, and the loading of fonts; `Detach`, `Fini`, `Close`,
`FreeAllTypes`, `SetDpi` and the application's fonts are the rest. Two
things the code does limit the properties: attaching an element twice refers
to its types twice while `rtb_elem_fini` gives back one (`leaked`), and a style
whose type is freed keeps the address (`stale`, style.c:290).

### Layout and Reflow

`Layout` has the seven size callbacks and the eight layouts as functions from
the fields of all elements to new ones, said once for both axes. `Reflow`
carries a change through the tree: `Rootward` stops where the instigator's size
is what it was, `Leafward` lays out all below. Actions: `Resize`
(`rtb_window_reinit`), `SetText`, `Restyle`, `Rescale`, `add_child`,
`remove_child`. `late` marks what the code leaves for the next reflow: a child
that comes back at its old size, a child removed, labels measured again after
they were placed (`rtb_window_set_scale`). Not tried are siblings of which two are
"fill": the first leaves the second less than nothing (layout.c:156-159, with the
comment that asks what should happen), and sizes are negative from there on.

## 3. Runs

| run | instance | properties |
|---|---|---|
| `flat` | window {knob, patchbay surface {node}}, overlay {menu} | `TypeOK`, `RedrawBracketed`, `ImplementsService`, `FrameTerminates`, `RedrawHappens` |
| `nested` | window {patchbay surface {opaque box {knob, surface {node}}}}, empty overlay; draw callbacks also invalidate a surface; forced frames too | `QueuesSound`, `Served` |
| `pointer` | window {box {knob, label}}, overlay {menu} that hides the knob; two buttons; the focus goes to the window, the knob and the label | `PointerSound`, `FocusAgrees`, `ImplementsHover`, `PlainClickOnPressed` |
| `tree_edit` | a window, a surface, a box and a knob, put together in every way | `TreeSound`, `ReferencesSound` |
| `value` | a grid of three values with its lowest off the grid, two buttons | `EditsPaired`, `EditsBracketChanges`, `GesturesEnd`, `ValueSound` |
| `text` | up to five characters of one and two bytes and the newline, boxes two and four glyphs wide | `TextSound`, `ShownSound`, `KeysKeepBar`, `ImplementsEditor` |
| `cabbage` | a player with one port, a recorder with two, the name of one beginning that of the other; two changes | `PatchbaySound`, `GestureSound`, `CallbackPortsLive`, `ShownWhenTold`, `ShownAtLast`, `ExitsUnlessCalled` |
| `window` | each platform, two sizes, two buttons besides the wheel and an unknown one, three events, a second thread | `ReleasesSound`, `OpenSound`, `CaptureEnds`, `ClosesAtLast`, `ResizeShown` |
| `clipboard` | three texts, one of which outgrows the second read; two polls, two requests under way | `PasteSound`, `NoStaleProperty`, `KeptIsOwned` |
| `resources` | a window, a box and two nodes whose class is a subclass of the box's; four addresses; one font from a file | `TypesCounted`, `StylesSound`, `FontsShared` |
| `reflow` | window {box {two labels}, panel}, five size callbacks and eight layouts for the box, two layouts for the window | `Settled`, `Packed` |
| `full_redraw` | as `flat` | `FullRedrawRequestsServed`, violated |

Redraw.

* `RedrawBracketed`: `in_redraw` is set exactly while the surface's
  `rtb_surface_draw_children` runs; requests are put off only meanwhile.
* `QueuesSound`: link fields and queues agree. If they did not, `mark_dirty`
  would refuse an element for ever, or link it twice.
* `Served`: when a frame returns, drawn or skipped for a clean window, every
  honoured request that was due has been served. `ImplementsService` says it of
  the abstract service.
* `FrameTerminates`: no frame is kept going by callbacks that keep marking.
* `RedrawHappens`: an honoured request is eventually drawn, once the window
  stays visible.
* `full_redraw`: surface.c:267 says that elements that request a redraw from
  their draw function are moved to the queue of the next frame. During a
  full redraw they are dropped.

Pointer, focus, tree.

* `PointerSound`: between events, `mouse_in` is set in exactly the element
  underneath and those around it, they are the ones that have had one ENTER
  more than LEAVE, and an element looks hovered only there, active only there or
  while button 1 is down. `ImplementsHover`: `HoverService`, at every step
  of a cascade.
* `FocusAgrees`: between events one element looks focused and it is
  `win->focus`, whatever handlers did with the focus meanwhile, as long as they
  are `OrderlyMoves`.
* `PlainClickOnPressed`: a click that was not a drag goes to the element the
  button was pressed on. A drag that ends as a click is not looked at.
* `TreeSound`: lists and pointers agree, and every attached element draws on the
  nearest surface above it and has a style. `ReferencesSound`: the window refers
  to no element that has left it, and a surface queues what it draws, once; all of
  it for programs that keep to `Removable` and `Addable`.

Widgets.

* `EditsPaired`, `EditsBracketChanges`, `GesturesEnd`: the application is told
  of the beginning and the end of edits in turn, of the user's changes between
  them, and no edit nor hidden cursor outlives the button, the pointer or the
  call, unless the release is `lost` or the element `strayed`. `ValueSound`: what is shown is the value on its grid.
* `TextSound`, `ShownSound`: the bytes are whole characters and a NUL, the
  cursor is in the text, the label shows it, the line of the cursor is in the box.
  `KeysKeepBar`: no key parts the line from the cursor. `ImplementsEditor`:
  the refinement of `TextEditor`.
* `PatchbaySound`, `GestureSound`: three lists agree, one patch per pair; what is
  drawn is there unless it is `loose`, and the patch in progress is what button and
  pointer say unless `lost` or `strayed`. `CallbackPortsLive`: ports looked up before the
  lock are there after it. `ShownWhenTold`, `ShownAtLast`: the patchbay shows
  what the server has, unless something was `missed`; the latter also unless the
  threads are `Hung`. `ExitsUnlessCalled`: `main` ends, unless a callback waits.

Window, clipboard, resources, layout.

* `ReleasesSound`: nothing is released before what was made from it, nothing
  twice, and what a run leaves, finished or failed, is what is known of its
  platform. `OpenSound`: whoever holds the lock has
  the GL context, the lock is released by its holder, a frame is laid out at the
  size it is drawn at. `CaptureEnds`: no capture without a button.
  `ClosesAtLast`, `ResizeShown`: a stopped loop ends, unless `GetMessage` `SleepsOn`; a
  resize is shown, unless the loop is stopped or ends.
* `PasteSound`: a paste asked with nothing late returns whole what the owner
  wrote, or fails. `NoStaleProperty`: with all answered and read no text is left
  for a later paste. `KeptIsOwned`: a text kept is ours to give.
* `TypesCounted`: a descriptor lives as long as an element of its class or a
  subclass, no longer. `StylesSound`: an element has the first style of the list
  that is for one of its types, unless that one is `stale`, and queries end. `FontsShared`:
  texture fonts are shared by face and size and counted, and a change of resolution
  reaches the managed ones (a shared one as often as it is shared, which is not
  checked).
* `Settled`: after any reflow the tree is as if laid out from the window down.
  `Packed`: siblings stay in order, apart, and justified as the layout says.

### Bounds

* `flat`, `nested`: any element may be marked at any time between the draw
  callbacks; a draw callback makes at most one request, in `flat` for any
  element, in `nested` for the knob or the menu, or it invalidates the patchbay.
  There are no counters: a queue holds an element at most once. In one frame
  there is a mark of an element already drawn, being drawn, and still to be
  drawn; on the same surface, the one around it, inside it, and under the other
  root; behind a background; in a surface that is valid, invalid, or
  reached twice. One request per callback loses nothing that is visible
  between frames: a callback with two acts as two children with one each, except
  that the two share a ledger state. Forced frames are in `nested` only.
* `pointer`: five places give each kind of move between siblings, between tree
  and overlay in both directions, across the edge of the window, and along it, where
  what a drag enters strays. Two
  buttons, so that one machine disturbs the other; the third has the same
  code. `MaxNested` (guard of `HandlerFocus`): one change of focus from within a
  handler at a time.
* `tree_edit`: four elements give a chain of surfaces, elements and siblings,
  moved whole; no other bound. The box and the knob are symmetric (no liveness here).
* `value`: `MaxCalls` in `DoChange` bounds how far handlers nest: two changes
  deep. The precision does not divide the span, so that rounding happens.
* `text`: `MaxChars` in `push_u32`: five characters of three kinds are more than
  either box holds, by more than one. Characters of three and four bytes are left
  out: the seek over continuation bytes is a loop, which two bytes enter and end.
* `cabbage`: `MaxSteps` in `Change`: two changes by the program, by others or by
  ports and clients that come and go, with any of them under way while another is
  handled. Two suffice for one of the window's own against one of others,
  and the invariants are proved for any number.
* `window`: `MaxSent` in `Arrive`: three events give a press, another press and
  a release, or a resize between two others; a close may come at any of them.
  Messages that concern nothing (`PointerMoves`) are not counted.
* `clipboard`: `MaxPolls` (eight in the code),
  `MaxAsked` in `Ask` and `OtherCopies`: an answer from the paste before and one
  from this.
* `resources`: `MaxAttached`: an element attached twice leaks once; `MaxDpi`: one
  change of resolution. Addresses and nodes are symmetric: no property and no
  action tells one from another (there is no liveness in this run).
* `reflow`: changes are tried one at a time in a tree that is up to date (`Calm`), two
  sizes each for texts, style and window: one where all fits and one where not. A
  second change while a reflow is under way is not tried.

### Fairness

* `Render`: `WF_vars(FrameStep)`. The libuv timer calls the frame callback every
  10 ms for as long as the loop runs (`x11-xcb/event.c:633-660`), and a frame
  that has begun goes on because callbacks return. `RedrawHappens` assumes
  `<>[](~obscured)`: no frame is drawn while the window is covered.
* `CabbagePatch`: weak fairness of each thread's own steps; strong fairness of
  `CallbackLock`, as the window's thread gives the lock back after every batch
  and is asleep in between. JACK's calls return, but for those made while a callback
  waits for the lock their caller holds: `WF_vars(~Hung /\ UiCall)`, and the same of
  `UiShow`. Nobody has to move the mouse or to close.
* `WindowLife`: weak fairness of the main thread and of the worker;
  strong fairness of `FrameCb`, `PollCb`, `Message` and `LockToClose`, which wait
  for the mutex. Nothing is fair of the user or the system, so a loop on win32 that
  was told to stop by a sent message, and has killed its timer, may wait in
  `GetMessage` for ever: `SleepsOn`, which `ClosesAtLast` excepts.

Requests, events, handlers and other programs are not fair anywhere.

### Deadlock

Deadlock is checked but in three runs: `resources` (the program ends: after
`FreeAllTypes` there is nothing to do), `text` (nothing follows a write outside
of the buffer), `cabbage` (the program ends, and `main` may wait for a callback
that waits for `main`).

### What programs must not do

Some properties hold of programs that keep to a rule the code neither states
nor looks after. The rule is part of the model, by name:

| name | rule |
|---|---|
| `Moves` (MCMouse) | handlers of UNFOCUS do not move the focus, nor a FOCUS handler to its own element: window.c:357-362 would leave two elements that look focused, or none (`OrderlyMoves`); those of ENTER and LEAVE move it to the label only, and none to the window, to keep the run short |
| `Removable`, `Addable` (TreeEdit) | see there |
| `Detach` (ValueElement) | an element is not removed with the pointer in it or a button down |

And some except a situation in which the code does go wrong, by a history
variable or a named set: `ledger.gap` (Render), `irregular` (ValueElement: a drag
that was denied at first or that button 2 cuts short), the source `"direct"`
(`rtb_event_is_from_user` tests bit 0, which RTB_EVENT_SOURCE_USER_DIRECT has
not), `lost` and `strayed` (ValueElement, Patchbay), `clipped` and `damaged`
(TextInput), `loose`, `missed` and `Hung` (CabbagePatch), `KnownLeaks` and `SleepsOn`
(WindowLife), `left` (Clipboard), `leaked` and `stale`
(Resources), `late` (Reflow), `strayed` and `DuringDrag` (Mouse: an element that
stays active during drags may keep that look once the pointer has left). What is so
excepted is known to go wrong; the properties do not catch it, they show that it goes
wrong in no other way. The notes of the hazards in `PROJECT.json` say it of each.

### Seen while reading, without a property

* `force_redraw` makes `rtb_window_draw` return without drawing (window.c:380),
  where `window.h` says it skips the dirtiness check.
* The overlay is drawn after FRAME_END (window.c:407), which `event.h` places
  after all drawing.
* A drag that nobody handles is a click on the element it ended at, since
  `b->target` has become what DRAG_START bubbled to (platform/mouse.c:219).
* A key event that the focus handles still runs the window's handlers
  (window.c:246).
* `rtb_window_add_overlay` and `_remove_overlay` call
  `rtb__platform_mouse_motion` from within the event being delivered (window.c:327).
* Clicks are counted per button and over all the window: two quick clicks on
  different elements are a double click on the second (platform/mouse.c:230).
* `cabbage_patch` lists ports before `jack_activate`: a change between is lost.
* On Cocoa some handlers do not take the window's lock.

## 4. Proofs

Each theorem holds for every value of the constants that the named assumptions
of its module admit.

| module | theorem | statement | assumptions |
|---|---|---|---|
| `RenderProofs` | `TypeCorrect` | `Spec => []TypeOK` | `TreeAssumption`, `NearestAssumption`, `CallbackAssumption` |
| | `RedrawIsBracketed` | `Spec => []RedrawBracketed` | |
| | `QueuesStaySound` | `Spec => []QueuesSound` | |
| | `RequestsServed` | `Spec => Served` | |
| | `ServiceImplemented` | `Spec => ImplementsService` | |
| `ClipboardProofs` | `TypeCorrect`, `KeptOnlyWhileOwned`, `PastesLeaveNothing`, `PastesAreWhole` | `TypeOK`, `KeptIsOwned`, `NoStaleProperty`, `PasteSound` | `ClipboardAssumption` |
| `ValueElementProofs` | `EditsArePaired`, `ShowsItsValue`, `EditsBracketTheirChanges`, `GesturesDoEnd` | `EditsPaired`, `ValueSound`, `EditsBracketChanges`, `GesturesEnd` | `ValueAssumption` |
| `CabbagePatchProofs` | `PortsLive`, `PatchbayIsSound`, `GestureIsSound`, `AllIsShownWhenTold` | `CallbackPortsLive`, `PatchbaySound`, `GestureSound`, `ShownWhenTold` | `PortAssumption`, `ClientAssumption` |
| `WindowLifeProofs` | `CapturesEnd`, `OpenIsSound`, `ReleasesAreSound` | `CaptureEnds`, `OpenSound`, `ReleasesSound` | `WindowLifeAssumption` |
| `TreeEditProofs` | `TreeIsSound`, `ReferencesAreSound` | `TreeSound`, `ReferencesSound` | `TreeEditAssumption` |
| `ResourcesProofs` | `TypesAreCounted`, `StylesAreSound`, `FontsAreShared` | `TypesCounted`, `StylesSound`, `FontsShared` | `ResourcesAssumption` |
| `MouseProofs` | `PointerIsSound`, `HoverImplemented`, `ClicksArePlain` | `PointerSound`, `ImplementsHover`, `PlainClickOnPressed` | `TreeAssumption`, `PointerAssumption` |
| | `FocusIsOne` | `OrderlyMoves => (Spec => []FocusAgrees)` | the same |

What the assumptions ask: sets of elements and of ports are finite; there is a
size for the window to have; a port's client is given; a class has one
superclass (`Chain`, up to that of all elements), as `struct rtb_type_atom_descriptor`
has it; the list of styles ends with one for the class of all elements,
as `src/styles/default/style.css` does. The rest are types.

**Render.** `TypeOK` alone is inductive once it carries that queues hold only
elements of their own surface, which follows from
`SurfaceOf[Target[e]] = SurfaceOf[e]` (lemma about the walk of `mark_dirty`).
`RedrawBracketed` is not inductive: to enter a nested surface one must know that
it is not already on the stack, otherwise its `in_redraw` would be reset by the
inner call's end. The strengthening is `StackNested`: what a call has still to
draw lies directly on its surface, and the surface of every outer call contains
those of the inner ones. With it `RedrawInv == TypeOK /\ RedrawBracketed /\
StackNested` is inductive: the surface about to be entered lies on the innermost
one, so no call below can have it without the tree having a cycle.
`QueuesSound` is inductive relative to `RedrawInv`: the insertion is guarded by
the link flag, and a full redraw that unlinks the main queue leaves the
next-frame queue of a surface that was not in a redraw empty.

`Served` and the refinement of `RedrawService` need to know where an honoured
request is until it is served. A request for `e` goes up the surfaces around `e`
(`Chain`), one link on each: an element is `Linked` if its target is queued on
its surface, or if that surface is INVALID and not about to forget it (`Lost`).
`Carried(e)` says that all the way up to the root is linked, so that the next frame
finds it; `Soon(e)` that a call that is running has a part of the way in hand,
and what is below it is linked. `Kept` says that an honoured request is
one or the other, that `dirty` is set for it outside of drawing, and that
what is due on a tree is `Soon` as long as this tree is being drawn. `Found` is
the heart of the proof, and the reason why `GapOf` describes the holes as it
does: a request that falls into none of them is put where a redraw finds it, although
`mark_dirty` may return early because of an older one. That an INVALID
surface was asked for (`Asked`), that what sits in `next_frame_render_queue` is
connected to the root (`Deferred`) and that the calls running are those of one
tree (`OnOneTree`) is what the three early returns rest on. Each step of drawing
then moves a link from a queue into the hands of a call, or back when a call ends
(`KeepSoon`). All of it is `ServiceInv`, which is inductive; that surfaces around an
element lie one in the other (`Comparable`) takes that the tree is finite.

**Clipboard.** The counters of `TypeOK` stay below their bound because their sum
does (`Typed`). `NoStaleProperty` needs to know that the second read of a paste
deletes what it finds: the property is never longer than the size read, unless an
answer is still to come or to be read (`ReadsAll`). `CleanPasteWhole` adds
that an undisturbed paste has but one answer, which is what the property
holds (`OneAnswer`), so that it does not shrink between the reads
(`NeverShort`). That is where the limit on polls could hurt: a paste that gives up
leaves its answer to come, which the next paste is then not asked without. Our
own requests do not count in `NoStaleProperty`: they are answered with no
notification, and a text they leave is `left`.

**ValueElement.** `EditsPaired` is inductive with the types (`EditInv`):
`change_state` tells of a beginning just when it leaves "REST". `ShowsValue` is
not: between the calls of `attached` nothing is shown yet. `ShowInv` says what
the calls still to be made promise: as long as no hook is due, what is shown is
the value, and while one is due the value is about to be set (`Has(calls,
"hook")`, a fact about a sequence of which every action takes the head and puts
others before the rest). What is done to that sequence is in lemmas of its own.
`GestureInv` ties the edit, the cursor and the button together in the same way:
an edit that is a drag has its button down on the element, or its end is among the
calls to come (`Due`), or its release was `lost`; a wheel's edit has the pointer in the
element, or its end to come, or the element has `strayed`; a discrete edit that is to begin is to end further on
(`Closes`). It also says that a drag of the second button is never the element's
while the first one's is, which is what makes the value follow one button.
`TellInv` is about the order of what is to come: a change of the user's comes
right after the beginning of an edit (`Led`), or during a drag before its end
(`LastsLong`), or the gesture is `irregular`.

**CabbagePatch.** `CallbackPortsLive` rests on the lock (`LockHeld`): the window's
thread frees no port but at its end, and then it has the lock for good; JACK's
thread frees ports in the callbacks, and is one thread. So a callback that waits
with two ports has them, or waits for ever (`PortsKept`). `PatchInv` adds what the
window's thread remembers across the calls of JACK: a patch is linked between
ports that are there, the pair asked of the server is the one the drag was
between, and the patch in progress is what pointer and button say, as long as
none of its ports has been freed (`loose`), no release of its button came to no port
(`lost`) and no entry of the window has forgotten its far end (`strayed`). That a
press elsewhere loses the gesture under way is what makes `lost` inductive: the
patch in progress is of the last port that was pressed.

`ShownWhenTold` needs the notifications still to come. `Says(notes, n, Y, N, base)`
is what they tell of one thing, the first `n` of them heard: the
last that is about it decides, and if there is none, `base`, what is
so now. `ConnectionInv`: what the server has of a connection is what `notes` say
of it, with what is shown as the base, so that with `notes` empty the two
agree. `PortInv` says it of ports at every place of the queue, since a note of a
connection is heard only if its ports are there by then. Each notification is
handled under the lock, but the window's own call to the server comes before it is
shown; `Showing` is that interval.

**WindowLife.** `CaptureEnds` is not inductive: win32 gives the capture up when
`capture_depth` comes down to 0, which says nothing of the buttons unless the
two agree. They need not: after another window took the capture, releases come
without their press and presses after which no release is awaited. `CaptureInv`
says what remains: while there is a capture, `capture_depth` is at least 1 and at
most the number of known buttons that are down (`DepthCovered`); and a button has at
most one event under way, a press only if it is up (`InTurn`, `UpBefore`), so
that each release handled takes one button away with its one of the depth.

`OpenSound` follows from `OpenInv`, which says it of every place of the main
thread: where it holds the mutex (`LockInv`: down to which step of the way down),
whose the context is when nobody holds it (`CtxInv`), and where an event or a
drain goes on to (`PathInv`). `SizeInv` is why a frame fits: the tree is laid out
at the size seen unless that is put off to the end of the drain (`need`), and
that comes before any drawing.

`ReleasesSound` needs what is held at every place exactly (`HeldInv`). On the way
up it is what the steps so far gave, less what they dropped (`UpInv`); while the
window is open it is all of that, with the loop's own until it is stopped
(`RunInv`); on the way down it is what is `Ahead` of the step (`DownInv`), which is
why no release comes twice. Where the way up failed, `DownInv` bounds it from both sides:
all that `window_impl_close` or `rtb_free` will release is there, and beyond that only
what is known to leak on this platform, where it failed (`KnownLeaks`), so that the
end leaves no more. Three facts about the ladders carry it, proved once for each platform
from their entries: a step gives what lives on what was there before (`Grounded`),
what a failing step does not release leaks knowingly (`Reopens`), and a
release comes before that of what it lives on (`Orderly`). A ladder in another order
breaks one of the three.

**TreeEdit.** The tree is what the lists of children lead to. `Reach(kids, e)` is the
least set that holds `e` and is closed under `kids`: least by definition and
not by recursion, so that the provers can use it, and what they need of it are
eight lemmas (it is transitive, an element reached has a predecessor, adding a
list entry or taking one away changes just this much of it). `Forest` is the
invariant of the lists (nobody has two parents, no cycles, none above the
window), `TreeInv` that pointers, surfaces and styles are what the lists
make them. That `surf` is the nearest surface survives a move because the whole
subtree is walked. `QueueInv` and `PointInv` are the two halves of
`ReferencesSound`. What a reflow marks joins a queue only if it is attached, not linked
and draws there (`JoinQueues`, `RedrawQueues`), whichever elements those are. `PointInv` says of the elements the pointer is in that those
attached are the ones around `under`: without that, the repair at a removal,
which looks at the child's `mouse_in` alone, could leave a target below it.

**Mouse.** What is to be shown holds between events; the proof has to say what holds
in the midst of them, with handlers moving the focus at any moment. `WalkInv` gives
the calls an order (`Rank`): the ENTER or LEAVE on its way comes before the walk
through the tree that sent it, there is one walk at most, and it comes before the
drag or the motion that waits for it. Where the walk has come to is where the pointer
is (`On`): `FlagInv` says of every element that its flag and what it was told are
what this makes them, up to the one that is just being told. `HoverImplemented` is read off
from it: at the end of an ENTER all around the element is `On` and told, at the end
of a LEAVE nothing within it is. `LookInv` adds that an element keeps the look of a
pointer that has left only until its LEAVE is delivered, and `DownInv` that a press
bubbles through elements the pointer is in, for which it may set ACTIVE. `ClickInv`
is why a plain click goes to what was pressed: as long as a button is DOWN and not
DRAG, the walk has `drag` for this button still to come after it, so that between
events the pointer is where it was or the window was left. The trees are finite,
which is needed once: that what is around an element hangs from the same
root (`SameRoot`).

`FocusAgrees` holds of programs whose handlers are `OrderlyMoves`. When an UNFOCUS
handler moves the focus, the assignment after it (window.c:362) takes the focus
back without an UNFOCUS, and two elements look focused; when a FOCUS handler has
the focus moved to its own element, the outer call sends this element the UNFOCUS
of window.c:357-360, and none does. The other handlers may move the focus as they
like, nested to any depth. A change of the focus is three calls, and `Chained` says how they
lie in `calls`: FOCUS is followed by the UNFOCUS step for the same element, the
delivery of UNFOCUS by the assignment, for another element than the one that is told,
and what comes before a FOCUS handler that waits is a change to another element than its
own, so that `win->focus` is not this element when the handler returns. `Showing`
says what the elements look like at each of these calls: `win->focus` alone until
FOCUS is delivered, both elements until UNFOCUS is, then the new one alone. Together they
are `FocusInv`, inductive relative to `MouseInv`. All other steps make and end only
calls that are not part of a change (`Mild`), for which one lemma (`QuietStep`) does.

**Resources.** A count is the number of the attachments that refer to the
descriptor. `HeapOK` says that a supertype counts more than a subtype, by at least
the attachments that are not the subtype's: counts that have leaked keep
that distance, so that a descriptor never goes before those that have it
as a supertype, leaked or not. Classes being in single inheritance, an element refers to a
chain of types, and giving them all back at once keeps it (`UnrefCount`).
`StyleInv`: `resolved` of a style that is not `stale` is the descriptor of its
type. What an element or a style takes is then the first of the list among those
that are for one of its types, up to the stale ones, which may be taken
for another's (`Off`: equal, or one of the two is stale). `QueriesEnd`: a style
resolved before keeps what it inherits from, which was resolved as well, so any
cycle would be among the styles newly resolved; of these there is one for a type
of whose supertypes none of the others is for (`TopStyle`), and it inherits from
none of them.
`FontInv`: a texture font has as many references as fonts use it, is used by at
least one, and the managed ones are shared exactly when face and size are the
same.

Only model-checked:

* `TextSound`, `ShownSound`, `KeysKeepBar`, `ImplementsEditor`: `TextInput` is built
  on `SelectSeq` and `FlattenSeq`, for which the library has no theorem that the
  provers can use; what they return for every sequence needs induction.
* `Settled`, `Packed`: `Reflow` and `Layout` are recursive.
* Liveness (`FrameTerminates`, `RedrawHappens`, `ShownAtLast`, `ExitsUnlessCalled`,
  `ClosesAtLast`, `ResizeShown`) is out of the prover's reach.

## 5. Not modelled, and what is left

Not modelled:

* GL rendering, shaders, quads, glyph shapes: numeric and visual; when they run
  is in `Render`, what they acquire in `Ladders`.
* Keyboard and cursor translation: tables without state.
* `stub.c`, layout debugging, the build system, vendored code.
* Click counting: real time.
* Handler vectors: registering and unregistering them; a handler is the free
  choice to handle an event.
* The overlay's children (`rtb_window_add_overlay`), the order of siblings.
* The application's own code in `examples/` but `cabbage_patch.c`.

Left, the nearest first:

1. `TextInput` on functions of positions instead of `SelectSeq`, so that what it
   promises of the cursor can be proved.
2. Overlays that come and go, as actions of `TreeEdit`.
