SPECIFICATION FairSpec
CONSTANTS
  b1 = b1
  b2 = b2
  lower = lower
  upper = upper
  Requests = {r1}
  ModelNames = {lower, upper}
  Canonical <- MCCanonical
  BackendNames = {b1, b2}
  Objects = {o1, o2}
  Addresses = {a1}
  Catalogs <- MCCatalogs
  Overrides <- MCOverrides
  Kinds = {"stream", "unseen", "plain", "other"}
  Lines <- MCLines
  MaxRequests = 1
  MaxLines = 2
  MaxAdmin = 0
  NoModel = NoModel
  NoAlias = NoAlias
  NoObject = NoObject
  NoBackend = NoBackend
PROPERTY
  StreamsAsItComes
CHECK_DEADLOCK FALSE
