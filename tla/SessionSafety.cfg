SPECIFICATION Spec
CONSTANTS
  Settings <- Everywhere
  MaxRequests = 4
INVARIANTS
  OneLiveRun
  StepsOnlyWhenStopped
  StepsNeverRace
  DisconnectFiresOnce
\* A session ends.
CHECK_DEADLOCK FALSE
