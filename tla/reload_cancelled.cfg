SPECIFICATION Spec
CONSTANTS
  Watch = watch
  Posters = {p1}
  Gens = {g1, g2, g3}
  NoGen = NoGen
  Callbacks = {}
  Kinds <- NoWatcher
  MaxEdits = 0
  MaxChanges = 0
  MaxTriggers = 2
  BadRules = {}
  Updates <- InPlace
  EarlyEdits = FALSE
SYMMETRY Symmetry
INVARIANTS ServedIsRunning
CHECK_DEADLOCK FALSE
