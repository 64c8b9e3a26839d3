SPECIFICATION Spec
CONSTANTS
  Settings <- Everything
  SpriteBytes = 2
  MaxFetches = 2
INVARIANTS
  NmiAnswersAnEdge
  NmiPrompt
  IrqPrompt
  IrqsDoNotNest
  TransferRemembered
  SpriteCopyExact
  InstructionStealFollowsParity
PROPERTIES
  HandlerRunsFirst
