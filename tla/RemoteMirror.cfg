SPECIFICATION Spec
CONSTANTS
  MaxAddr = 1
  Values = {0, 1}
  EventCap = 1
  StoppedCap = 1
  ExternalCap = 1
  MaxTime = 2
  MaxKeys = 3
  MaxTimeOuts = 1
INVARIANTS
  NoByteForgotten
  QuietMirrorIsExact
  HostSeesEverything
CHECK_DEADLOCK FALSE
