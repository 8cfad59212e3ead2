SPECIFICATION FairSpec
CONSTANTS
  Watch = watch
  Posters = {}
  Gens = {g1, g2}
  NoGen = NoGen
  Callbacks = {}
  Kinds <- NoWatcher
  MaxEdits = 1
  MaxChanges = 0
  MaxTriggers = 0
  BadRules = {}
  Updates <- Mounted
  EarlyEdits = FALSE
PROPERTIES EditsServed
CHECK_DEADLOCK FALSE
