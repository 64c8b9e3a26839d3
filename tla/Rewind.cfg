SPECIFICATION Spec
CONSTANTS
  Pages <- MCPages
  Bytes <- MCBytes
  Regs <- MCRegs
  Hidden <- MCHidden
  ResetRegs = 0
  ResetHidden = "run"
  Image <- MCImage
  Keys <- MCKeys
  NoKey <- MCNoKey
  Program <- MCProgram
  Settings <- OneSurface
  RingCap = 2
  KeyCaps = {1, 3}
  Interval = 2
  MaxSweep = 2
  MaxSteps = 5
INVARIANTS
  NearestOnTimeline
  ReplayBounded
PROPERTIES
  UndoExact
  RewindLands
  StepBackExact
