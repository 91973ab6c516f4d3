SPECIFICATION Spec
CONSTANTS
  a = a
  e = e
  n = n
  Chars <- MCChars
  Newline = n
  Bytes <- MCBytes
  Texts <- MCTexts
  InnerWidths = {2, 4}
  MaxChars = 5
\* Nothing is said of what follows a write outside of the buffer.
CHECK_DEADLOCK FALSE
INVARIANTS
  TextSound
  ShownSound
PROPERTIES
  KeysKeepBar
  ImplementsEditor
