SPECIFICATION Spec
CONSTANTS
  win = win
  ovl = ovl
  box = box
  knob = knob
  label = label
  menu = menu
  none = none
  Elem <- Elements
  Surface = {win, ovl}
  Win = win
  Overlay = ovl
  Parent <- Parents
  Above <- Aboves
  Opaque = {}
  None = none
  Point <- Places
  WindowPoint <- OnScreen
  Cover <- Covers
  MaxButton = 1
  Focusable <- Keyed
  ClickFocus <- ClickKeyed
  DuringDrag = {knob}
  FocusMoves <- Moves
  MaxNested = 1
INVARIANT PointerSound
PROPERTY ImplementsHover
PROPERTY PlainClickOnPressed
INVARIANT FocusAgrees
