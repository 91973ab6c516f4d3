SPECIFICATION Spec
CONSTANTS
  Low = 1
  High = 7
  Granularity = 2
  Origin = 4
  Precision = 8
  Deltas <- UpDown
  Asked <- Grid
  Fractions <- Outside
  Sources = {"derived", "direct", "none"}
  MaxCalls = 4
INVARIANTS EditsPaired EditsBracketChanges GesturesEnd ValueSound
