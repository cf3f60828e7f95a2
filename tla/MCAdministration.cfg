SPECIFICATION Spec
CONSTANTS
  b1 = b1
  b2 = b2
  lower = lower
  upper = upper
  good = good
  other = other
  bad = bad
  p1 = p1
  BackendNames = {b1, b2}
  ModelNames = {lower, upper}
  Canonical <- MCCanonical
  Prices = {p1}
  Settings = {good, other, bad}
  Malformed = {bad}
  YamlBackends <- MCYamlBackends
  YamlModels <- MCYamlModels
  YamlPrices <- MCYamlPrices
  NoPrice = NoPrice
  NoModel = NoModel
  Unreachable = Unreachable
  Absent = Absent
  Idle = Idle
  MaxChanges = 3
  MaxStarts = 2
  MaxErrors = 3
INVARIANTS
  TypeOK
  BackendsFollowTable
  ConfirmedChangesLast
  ModelsFollowTables
  DisabledAgrees
  RefsExist
CHECK_DEADLOCK FALSE
