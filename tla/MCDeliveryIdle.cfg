SPECIFICATION FairSpec
CONSTANTS
  IdleTimeout = 2
  Horizon = 6
PROPERTY IdleCloses
\* The delivery ends, and the clock of the model stops.
CHECK_DEADLOCK FALSE
