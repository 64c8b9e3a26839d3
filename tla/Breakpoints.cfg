SPECIFICATION Spec
CONSTANTS
  Addrs <- MCAddrs
  Entry = "a0"
  Flow <- MCFlow
  BrkAddrs = {"a2"}
  DataAddrs = {"x", "y"}
  Touch <- MCTouch
  Settings <- Everything
  MaxHits = 3
  Absent = Absent
INVARIANTS
  WatchStopsAreReal
PROPERTIES
  StopsAtBreakpoint
  StopsAtWatchpoint
  StopsOnNthHit
