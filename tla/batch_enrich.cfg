SPECIFICATION HandlerSpec
CONSTANTS
  Size = 3
  Kinds <- AllKinds
  Targets = {t1}
  MinSuccess = 1
  Retries = 0
  MaxConcurrency = 2
INVARIANTS
  FailClosed
  RequiredLabelPresent
  NoneStranded
PROPERTY
  Answered
CHECK_DEADLOCK FALSE
