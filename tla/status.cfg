SPECIFICATION FairSpec
CONSTANTS
  w1 = w1
  w2 = w2
  Watchers = {w1, w2}
  Rules = {r1}
  Scenarios <- EveryScenario
  Overlap = 2
  MaxSeen = 1
  None = None
INVARIANTS TypeOK
PROPERTIES NeverOutdated StatusesConverge ResyncsRepair
