SPECIFICATION Spec
CONSTANTS
  Conns = {c1, c2, c3}
  MaxWorkers = 2
  MaxInFlight = 1
SYMMETRY Symmetry
INVARIANTS
  TypeOK
  PermitsConserved
  SlotsConserved
  NoDetachedWatcher
  ReturnsQuiet
  OneRecord
PROPERTIES
  RejectsOnlyWhenFull
  PermitPool
  SlotPool
\* The process may end, and clients may stop connecting.
CHECK_DEADLOCK FALSE
