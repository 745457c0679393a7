SPECIFICATION FairSpec
CONSTANTS
  Requests <- Sent
  MaxHead = 3
  MaxBody = 4
  Chunk = 2
  HeadTimeout = 2
  BodyTimeout = 2
  WriteTimeout = 1
  SendBuffer = 1
  AnswerSize = 3
INVARIANTS
  TypeOK
  BodyExact
  LimitsHonest
PROPERTY ConnectionEnds
\* A connection ends.
CHECK_DEADLOCK FALSE
