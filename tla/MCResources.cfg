SPECIFICATION Spec
CONSTANTS
  win = win  node1 = node1  node2 = node2  box = box  NULL = NULL  face = face  file = file
  Elem = {win, node1, node2, box}
  Win = win
  Chain <- Chains
  Styles <- StyleList
  External = {file}
  Key <- Keys
  None = NULL
  a1 = a1  a2 = a2  a3 = a3  a4 = a4
  Address <- Addresses
  MaxAttached = 2
  MaxDpi = 1
SYMMETRY Symmetry
INVARIANTS TypesCounted StylesSound FontsShared
\* The program ends.
CHECK_DEADLOCK FALSE
