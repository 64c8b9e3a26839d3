SPECIFICATION ClientFairSpec
CONSTANTS
  Calls = {c1, c2, c3}
INVARIANTS
  LostConnectionWakes
PROPERTIES
  AnswersItsOwn
  EveryRequestReturns
CHECK_DEADLOCK FALSE
