SPECIFICATION TenancySpec
CONSTANTS
  namespace = namespace
  cluster = cluster
  severity = severity
  a = a
  b = b
  isolated = isolated
  trusted = trusted
  Names = {namespace, cluster, severity}
  Reserved = {}
  Values = {a, b, Empty}
  Empty = Empty
  NoValue = NoValue
  RuleLists = {}
  Originals <- EveryAlert
  Namespaces = {a, b}
  Profiles = {isolated, trusted}
  NamespaceLabel = namespace
  Unset = Unset
  Policies <- TwoPolicies
  Admin = Admin
  FileRules <- FileLists
  Submitted <- TwoCRs
  Profile <- Profiled
INVARIANTS NoMasquerade TenantsCannotFailTheBatch
PROPERTIES TenantsAreScoped
CHECK_DEADLOCK FALSE
