SPECIFICATION Spec
CONSTANTS
  Documents <- TheDocuments
  Names <- TheNames
  Models <- TheModels
  Secrets <- TheSecrets
  Urls <- TheUrls
  Numbers <- TheNumbers
  MaxTimeout = 50
  MaxInFlight = 50
  Tools <- TwoTools
  Undeclared <- NoTool
  NamedTool <- F
  Openings <- TheOpenings
  Bodies <- TheBodies
  MaxMessages = 5
INVARIANTS
  TypeOK
  RoutesFaithful
  CredentialsGuarded
  Representable
  AnswersContinue
\* A process that has ended and a conversation that is over stop.
CHECK_DEADLOCK FALSE
