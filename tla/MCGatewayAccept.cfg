SPECIFICATION Spec
CONSTANTS
  Conns = {c1, c2}
  MaxWorkers = 2
  MaxInFlight = 1
INVARIANT WorkersComplete
CHECK_DEADLOCK FALSE
