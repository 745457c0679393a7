SPECIFICATION ChattySpec
CONSTANTS
  IdleTimeout = 2
  Horizon = 6
INVARIANTS
  RelayTypeOK
  WireWellFormed
  OutcomeHonest
  NothingStale
  GateOpen
PROPERTY DisconnectEndsDelivery
\* The delivery ends, and the clock of the model stops.
CHECK_DEADLOCK FALSE
