SPECIFICATION Spec
CONSTANTS
  b1 = b1
  b2 = b2
  wheel = wheel
  other = other
  Sizes = {1, 2}
  Buttons = {b1, b2}
  Wheel = wheel
  Other = other
  MaxSent = 3
INVARIANTS  OpenSound CaptureEnds
PROPERTIES ClosesAtLast ResizeShown
