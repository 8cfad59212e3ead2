SPECIFICATION Spec
CONSTANTS
  team = team
  severity = severity
  a = a
  b = b
  limited = limited
  free = free
  alien = alien
  Names = {team, severity}
  Reserved = {}
  Values = {a, b}
  Namespaces = {a, b}
  Profiles = {limited, free, alien}
  NamespaceLabel = Unset
  Unset = Unset
  Policies <- TwoPolicies
  CRs = {1, 2, 3}
  NsOf <- Namespace
  Specs <- SomeSpecs
  Undecodable = Undecodable
  Absent = Absent
  MaxRules = 2
  Evaluations = {e1, e2}
  MaxChanges = 1
SYMMETRY Symmetry
INVARIANTS TypeOK TheCutIsExact
PROPERTIES TheGoneHaveNoGauge
