SPECIFICATION Spec
CONSTANTS
  out = out  left = left  right = right  player = player  recorder = recorder
  Nothing = Nothing
  Port <- Ports
  OutputPort <- Outputs
  Client = {player, recorder}
  Owner <- Owners
  Found <- Founds
  MaxSteps = 2
INVARIANTS PatchbaySound GestureSound CallbackPortsLive ShownWhenTold
PROPERTIES ShownAtLast ExitsUnlessCalled
\* The program ends; and either thread may wait for the other for ever.
CHECK_DEADLOCK FALSE
