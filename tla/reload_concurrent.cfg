SPECIFICATION Spec
CONSTANTS
  Watch = watch
  Posters = {p1}
  Gens = {g1, g2, g3}
  NoGen = NoGen
  Callbacks = {c1}
  Kinds <- Assorted
  MaxEdits = 1
  MaxChanges = 1
  MaxTriggers = 1
  BadRules = {1}
  Updates <- InPlace
  EarlyEdits = TRUE
SYMMETRY Symmetry
INVARIANTS OneSurvivor HolderRuns FailedInvisible UnracedServesWhatRuns
CHECK_DEADLOCK FALSE
