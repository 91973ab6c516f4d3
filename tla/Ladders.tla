-------------------------------- MODULE Ladders --------------------------------
(***************************************************************************)
(* What each platform acquires to bring a window up, step by step, what a  *)
(* failing step releases (the err_ labels below it), and what taking the   *)
(* window down releases, in order.                                         *)
(*                                                                         *)
(* A step gives some resources; one that can fail names those its failure  *)
(* releases; one may also drop a resource that was needed on the way.  A   *)
(* release is the set of resources one call gives back.                    *)
(* "locked" is the hold on the window's mutex.  A context or a surface of  *)
(* EGL goes with the display eglTerminate takes down, unless it is the     *)
(* current one; what the server or the system keeps for a connection or a  *)
(* window (a colormap, a device context, a timer) goes with that.  The     *)
(* window is one of its own, in no other's.                                *)
(***************************************************************************)
EXTENDS Sequences, Integers

\* What a release gives back only if it is there.
Along == {"locked", "colormap", "frame_timer"}

Platforms == {"x11", "win", "cocoa"}

Sure(gives) == [gives |-> gives, fails |-> FALSE, undo |-> {}, drops |-> {}]
May(gives, undo) == [gives |-> gives, fails |-> TRUE, undo |-> undo, drops |-> {}]
Swap(gives, drops) == [gives |-> gives, fails |-> FALSE, undo |-> {}, drops |-> drops]

Egl == {"egl_surface", "ctx", "egl_dpy"}

\* window_impl_rtb_alloc, then rtb_new's own.  Opening the display and its
\* connection; xkb's context, device, keymap and state; the connection and the
\* window of the clipboard.
X11Display == << May({"rtb"}, {}), May({"dpy"}, {"rtb"}), May({}, {"dpy", "rtb"}) >>
X11Keyboard ==
  << May({"xkb_ctx"}, {"dpy", "rtb"}), May({}, {"dpy", "rtb"}),
     May({"xkb_keymap"}, {"dpy", "rtb"}),
     May({"xkb_state"}, {"xkb_keymap", "dpy", "rtb"}) >>
X11Clipboard ==
  << Sure({"clip_conn"}),
     May({}, {"xkb_ctx", "xkb_keymap", "xkb_state", "dpy", "rtb"}),
     May({"clip_win"}, {"clip_conn", "xkb_ctx", "xkb_keymap", "xkb_state", "dpy", "rtb"}) >>
X11Alloc   == X11Display \o X11Keyboard \o X11Clipboard \o << Sure({"empty_cursor"}) >>
\* user32 and Shcore are loaded to be looked up in, and nothing unloads them.
WinAlloc   == << Sure({"rtb"}), Sure({"ole32"}), Sure({"dpi_libs"}) >>
CocoaAlloc == << Sure({"rtb"}), Sure({"invisible_cursor"}) >>
AllocLadder(plat) ==
  [x11 |-> X11Alloc, win |-> WinAlloc, cocoa |-> CocoaAlloc][plat] \o << Sure({"types", "uv_loop"}) >>

\* window_impl_open.  On X11 the screen, EGL's start, making the context current
\* and the mapping are steps that give nothing.  Where the mapping fails the
\* context is current, and the terminated display keeps it with its surface.
X11Context ==
  << May({"egl_dpy"}, {"window"}), May({}, Egl \cup {"window"}), May({"ctx"}, Egl \cup {"window"}) >>
X11Open ==
  << May({"window"}, {}), May({}, {"window"}), May({"cursor_ctx"}, {"window"}), May({}, {"window"}) >>
    \o X11Context
    \o << Sure({"colormap"}), May({"xcb_win"}, Egl \cup {"window"}),
          May({"egl_surface"}, Egl \cup {"xcb_win", "window"}),
          May({}, Egl \cup {"xcb_win", "window"}), May({}, {"egl_dpy", "xcb_win", "window"}),
          Sure({"lock"}) >>
WinClass   == May({"window_class"}, {"wtitle", "window"})
\* The context that knows how to make another: what it lacks is found out in
\* two ways, one of which forgets it.
WinWindow  == {"hwnd", "dc", "window_class", "wtitle", "window"}
WinContext ==
  << May({"trampoline"}, WinWindow), May({}, {"trampoline"} \cup WinWindow), May({}, WinWindow),
     [May({"ctx"}, {"trampoline"} \cup WinWindow) EXCEPT !.drops = {"trampoline"}] >>
WinOpen ==
  << May({"window"}, {}), May({"wtitle"}, {"window"}), WinClass,
     May({"hwnd"}, {"window_class", "wtitle", "window"}), Sure({"dc"}) >>
    \o WinContext \o << Swap({"lock"}, {"wtitle"}) >>
\* The pixel format is retained once more than it is made, and nothing releases
\* it, nor the string made of the title.
CocoaContext == << Sure({"pixel_format"}), Sure({"ctx"}) >>
CocoaWindow  == << Sure({"title"}), May({"cocoa_win"}, {"lock", "window"}) >>
CocoaOpen == << May({"window"}, {}), Sure({"lock"}), Sure({"view"}) >> \o CocoaContext \o CocoaWindow
OpenLadder(plat) == [x11 |-> X11Open, win |-> WinOpen, cocoa |-> CocoaOpen][plat]

Shaders == << "dfault", "surface_shader", "stylequad" >>
Ibos == << "quad_solid", "quad_outline", "border", "solid", "outline" >>
Firsts(s, n) == {s[k] : k \in 1..n}

ShaderLadder == [k \in 1..Len(Shaders) |-> May({Shaders[k]}, Firsts(Shaders, k - 1))]
IboLadder == [k \in 1..Len(Ibos) |-> May({Ibos[k]}, Firsts(Ibos, k - 1) \cup Firsts(Shaders, 3))]

\* The rest of rtb_window_open.  A step that fails here goes on to
\* window_impl_close.
GlLadder ==
  << May({"surface"}, {}), Sure({"style_list"}), Sure({"style_fonts"}) >>
    \o ShaderLadder \o IboLadder
    \o << May({"fonts"}, Firsts(Ibos, 5) \cup Firsts(Shaders, 3)), Sure({"vao"}), Sure({"overlay"}) >>

X11Close   == << {"ctx"}, {"egl_surface", "egl_dpy"}, {"xcb_win"}, {"locked"}, {"lock"},
          {"cursor_ctx"}, {"window"} >>
\* Mutation: the device context is released after its window.
WinCloseDcLate == << {"ctx"}, {"hwnd", "dc", "frame_timer"}, {"dc"}, {"window_class"}, {"locked"},
          {"lock"}, {"window"} >>
WinClose   == << {"ctx"}, {"dc"}, {"hwnd", "frame_timer"}, {"window_class"}, {"locked"}, {"lock"},
          {"window"} >>
CocoaClose == << {"view"}, {"ctx"}, {"cocoa_win"}, {"locked"}, {"lock"}, {"window"} >>

\* window_impl_close.
ImplClose(plat) == [x11 |-> X11Close, win |-> WinClose, cocoa |-> CocoaClose][plat]

Releases(names) == [k \in 1..Len(names) |-> {names[k]}]
RestOfClose == << "stylequad", "surface_shader", "dfault", "style_fonts", "style_list", "surface" >>

\* rtb_window_close, with ibos_fini and shaders_fini.
CloseLadder(plat) ==
  Releases(<< "overlay", "vao", "fonts", "outline", "solid", "border", "quad_outline", "quad_solid" >>
      \o RestOfClose) \o ImplClose(plat)

\* rtb_free, with window_impl_rtb_free.  What the server holds for the
\* connection goes with it.
X11Free   == << {"clip_win"}, {"clip_conn"}, {"xkb_ctx"}, {"xkb_keymap"}, {"xkb_state"},
         {"empty_cursor"}, {"dpy", "colormap"}, {"rtb"} >>
WinFree   == << {"ole32"}, {"rtb"} >>
CocoaFree == << {"invisible_cursor"}, {"rtb"} >>
FreeLadder(plat) ==
  << {"types"}, {"uv_loop"} >> \o [x11 |-> X11Free, win |-> WinFree, cocoa |-> CocoaFree][plat]

\* What the event loop holds while it runs: libuv's handles on X11, the frame
\* timer of the system and, on Cocoa, the observer that runs libuv's loop.
LoopInit(plat) == CASE plat = "x11" -> {"xcb_poll", "frame_timer"}
             [] plat = "win" -> {}
             [] plat = "cocoa" -> {"observer"}
LoopRun(plat) == IF plat = "x11" THEN {} ELSE {"frame_timer"}
LoopStop(plat) == LoopRun(plat)
LoopFini(plat) == LoopInit(plat)

\* What a resource is kept in or made from, and must not outlive.
GlObjects == Firsts(Shaders, 3) \cup Firsts(Ibos, 5) \cup {"fonts", "vao", "overlay", "surface"}
LivesOn(plat, r) ==
  CASE r \in GlObjects -> {"ctx", "window"}
    [] r \in {"style_list", "style_fonts", "cursor_ctx", "lock", "view", "window_class", "cocoa_win",
     "wtitle"} -> {"window"}
    [] r = "window" -> {"rtb"}
    [] r = "egl_dpy" -> {"dpy", "window"}
    [] r = "ctx" -> {[x11 |-> "egl_dpy", win |-> "dc", cocoa |-> "window"][plat]}
    [] r = "egl_surface" -> {"egl_dpy", "xcb_win"}
    [] r = "xcb_win" -> {"dpy", "window"}
    [] r = "trampoline" -> {"dc"}
    [] r = "dc" -> {"hwnd"}
    [] r = "hwnd" -> {"window_class", "window"}
    [] r \in {"colormap", "empty_cursor"} -> {"dpy"}
    [] r = "clip_win" -> {"clip_conn"}
    [] r \in {"xcb_poll", "observer"} -> {"uv_loop", "window"}
    [] r = "frame_timer" -> IF plat = "win" THEN {"hwnd"} ELSE {"uv_loop", "window"}
    [] r \in {"dpy", "xkb_ctx", "xkb_keymap", "xkb_state", "clip_conn", "uv_loop", "types", "ole32",
       "invisible_cursor"} -> {"rtb"}
    [] OTHER -> {}
===============================================================================
