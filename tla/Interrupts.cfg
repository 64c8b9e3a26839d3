SPECIFICATION Spec
CONSTANTS
  Settings <- Everything
  MaxQueue = 2
  MaxUndo = 1
INVARIANTS
  LineFollowsDevices
  WaitingBytesAnnounced
