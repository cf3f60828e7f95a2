SPECIFICATION Spec
CONSTANTS
  b1 = b1
  b2 = b2
  b3 = b3
  b4 = b4
  b5 = b5
  ua = ua
  ub = ub
  uc = uc
  ubad = ubad
  m1 = m1
  m2 = m2
  NoModel = NoModel
  Names = {b1, b2, b3}
  URLs = {ua}
  Malformed = {}
  StartReachable = {ua}
  StartBackends <- SharedStart
  Models = {m1}
  Refs <- RaceRefs
  UnhealthyThreshold = 1
  Requests = {r1, r2}
  MaxObjects = 3
  InputWeights = {}
  MaxRequests = 2
  MaxAdmin = 0
  MaxFlips = 0
INVARIANT
  WeightsConserved
