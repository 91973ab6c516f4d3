SPECIFICATION Spec
CONSTANTS
  win = win
  ovl = ovl
  box = box
  knob = knob
  bay = bay
  node = node
  menu = menu
  Elem <- DeepElem
  Surface <- DeepSurfaces
  Win = win
  Overlay = ovl
  Parent <- DeepParent
  Above <- DeepAbove
  Opaque = {box}
  DrawMarks = {knob, menu}
  DrawInvalidates = {bay}
  ForceRedraw = {TRUE, FALSE}
INVARIANT QueuesSound
PROPERTY Served
