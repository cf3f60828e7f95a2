SPECIFICATION Spec
CONSTANTS
  b1 = b1
  b2 = b2
  lower = lower
  upper = upper
  Requests = {r1}
  ModelNames = {lower, upper}
  Canonical <- MCCanonical
  BackendNames = {b1, b2}
  Objects = {o1, o2, o3}
  Addresses = {a1, a2}
  Catalogs <- MCCatalogs
  Overrides <- MCOverrides
  Kinds = {"stream", "unseen", "plain", "other"}
  Lines <- MCLines
  MaxRequests = 1
  MaxLines = 3
  MaxAdmin = 2
  NoModel = NoModel
  NoAlias = NoAlias
  NoObject = NoObject
  NoBackend = NoBackend
INVARIANTS
  TypeOK
  ChargedAsReported
  AddressOfItsBackend
SYMMETRY
  MCSymmetry
CHECK_DEADLOCK FALSE
