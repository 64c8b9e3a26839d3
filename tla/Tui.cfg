SPECIFICATION Spec
CONSTANTS
  Addrs <- MCAddrs
  Zero = "a0"
  Entry = "a0"
  Flow <- MCFlow
  Returns <- MCReturns
  LineOf <- MCLineOf
  DataAddrs = {"x"}
  Touch <- MCTouch
  MissKey = "a2"
  Sessions <- MCSessions
  Absent = Absent
  Torn = Torn
  Newer = Newer
  Presets <- MCPresets
  Second = 4
  Word = 128
  FramesPerSecond = 6
  BurstsPerSecond = 3
  Flat = 4
  Sweep = 3
  Guard = 5
  MaxElapsed = 5
  MaxCalls = 4
INVARIANTS
  ShownBreakpointsStop
  PaceKept
PROPERTIES
  RestartRestores
