SPECIFICATION Spec
CONSTANTS
  Callers = {c1, c2}
  Keys = {k1, k2}
  TTL = 1
  NegativeTTL = 0
  Timeout = 1
  MaxEntries = 1
  Budget = 1
  Horizon = 2
  MaxLookups = 2
  None = None
SYMMETRY Symmetry
INVARIANTS TypeOK OnlyTheSourceTimesOut LookupsAreBounded
PROPERTIES TimeoutsAreForgotten ResultsAreFresh
CHECK_DEADLOCK FALSE
