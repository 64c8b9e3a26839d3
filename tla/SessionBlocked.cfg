SPECIFICATION FairSpec
CONSTANTS
  Settings <- TuiSession
  MaxRequests = 3
PROPERTIES
  DisconnectCompletes
\* A session ends.
CHECK_DEADLOCK FALSE
