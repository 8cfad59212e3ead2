SPECIFICATION HandlerSpec
CONSTANTS
  Size = 1
  Kinds <- TwoKinds
  Targets = {t1, t2, t3}
  MinSuccess = 2
  Retries = 1
  MaxConcurrency = 1
INVARIANTS
  AckMeansAccepted
  GaveUpMeansExhausted
  BoundedCopies
PROPERTIES
  ImplementsDelivery
  PromptReply
  StragglersFinish
CHECK_DEADLOCK FALSE
