SPECIFICATION Spec
CONSTANTS
  a = a
  b = b
  c = c
  Text = {a, b, c}
  Size <- Sizes
  Long = {c}
  MaxPolls = 2
  MaxAsked = 2
INVARIANTS PasteSound NoStaleProperty KeptIsOwned
