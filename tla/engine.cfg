SPECIFICATION Spec
CONSTANTS
  alertname = alertname
  team = team
  low = low
  Names = {alertname, team}
  Reserved <- ReservedLabels
  Values = {Empty, low}
  Empty = Empty
  NoValue = NoValue
  RuleLists <- EveryRule
  Originals <- EveryAlert
INVARIANTS TypeOK RequiredIsPresent LastLabelKept ReservedKept FingerprintChangesReported
CHECK_DEADLOCK FALSE
