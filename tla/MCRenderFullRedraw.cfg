SPECIFICATION Spec
CONSTANTS
  win = win
  ovl = ovl
  box = box
  knob = knob
  bay = bay
  node = node
  menu = menu
  Elem <- FlatElem
  Surface <- Surfaces
  Win = win
  Overlay = ovl
  Parent <- FlatParent
  Above <- FlatAbove
  Opaque = {}
  DrawMarks <- FlatElem
  DrawInvalidates = {}
  ForceRedraw = {FALSE}
PROPERTY FullRedrawRequestsServed
