SPECIFICATION FairSpec
CONSTANTS
  Watch = watch
  Posters = {}
  Gens = {g1, g2}
  NoGen = NoGen
  Callbacks = {c1, c2}
  Kinds <- Assorted
  MaxEdits = 1
  MaxChanges = 1
  MaxTriggers = 0
  BadRules = {}
  Updates <- InPlace
  EarlyEdits = FALSE
PROPERTIES EditsServed ChangesServed
CHECK_DEADLOCK FALSE
