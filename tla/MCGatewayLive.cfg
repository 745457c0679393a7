SPECIFICATION FairSpec
CONSTANTS
  Conns = {c1, c2}
  MaxWorkers = 2
  MaxInFlight = 2
PROPERTIES
  NoLateService
  DisconnectReleases
  ShutdownDrains
\* The process may end, and clients may stop connecting.
CHECK_DEADLOCK FALSE
