SPECIFICATION Spec
CONSTANTS
  win = win
  bay = bay
  box = box
  knob = knob
  None = None
  Elem = {win, bay, box, knob}
  Surface = {win, bay}
  Win = win
INVARIANTS TreeSound ReferencesSound
SYMMETRY Alike
