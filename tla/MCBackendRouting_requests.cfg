SPECIFICATION FairSpec
CONSTANTS
  b1 = b1
  b2 = b2
  b3 = b3
  b4 = b4
  b5 = b5
  ua = ua
  ub = ub
  uc = uc
  ubad = ubad
  m1 = m1
  m2 = m2
  NoModel = NoModel
  Names = {b1, b2}
  URLs = {ua, ub, ubad}
  Malformed = {ubad}
  StartReachable = {ua, ub}
  StartBackends <- RequestsStart
  Models = {m1, NoModel}
  Refs <- RequestsRefs
  UnhealthyThreshold = 1
  Requests = {r1}
  MaxObjects = 3
  InputWeights = {0}
  MaxRequests = 2
  MaxAdmin = 2
  MaxFlips = 1
INVARIANTS
  TypeOK
  RegistryConsistent
  RoutedWhileRoutable
  NoSpuriousRejection
PROPERTY
  HealthConverges
