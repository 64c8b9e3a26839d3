SPECIFICATION FairSpec
CONSTANTS
  Settings <- Unblocked
  MaxRequests = 4
PROPERTIES
  PauseStopsRun
  DisconnectCompletes
\* A session ends.
CHECK_DEADLOCK FALSE
