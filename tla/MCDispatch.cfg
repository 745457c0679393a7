SPECIFICATION FairSpec
CONSTANTS
  Entries = 3
  TargetTimeout <- Timeouts
  OverallTimeout = 4
  Horizon = 6
INVARIANTS
  TypeOK
  VerdictHonest
  AnswersInTime
PROPERTIES
  ImplementsFailover
  NoCallAfterDisconnect
  NoCallAfterDeadline
  Returns
\* The function returns, and the clock of the model stops.
CHECK_DEADLOCK FALSE
