SPECIFICATION Spec
CONSTANTS
  win = win  box = box  panel = panel  name = name  unit = unit
  Elem <- Elems
  Win = win
  Parent <- Parents
  Text = {name, unit}
  Styled = {panel}
  Removable = {unit}
  Sizes <- TextSizes
  WindowSizes <- Windows
  SizeCb <- SizeCbs
  LayoutCb <- LayoutCbs
  Align <- Aligns
  OuterPad = 1
  InnerPad = 1
INVARIANTS Settled Packed
