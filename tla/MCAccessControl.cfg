SPECIFICATION Spec
CONSTANTS
  u1 = u1
  u2 = u2
  k1 = k1
  k2 = k2
  k3 = k3
  UserIds = {u1, u2}
  Keys = {k1, k2, k3}
  Yamls <- MCYamls
  Limits <- MCLimits
  DefaultLimit <- Slow
  Admins = {a1}
  r1 = r1
  r2 = r2
  Clients = {r1, r2}
  MaxEdits = 2
  MaxRestarts = 1
  MaxTime = 2
  Unit = 2
  MaxArrivals = 3
  NoRow = NoRow
  NoLimit = NoLimit
  NoEdit = NoEdit
  Nobody = Nobody
  NoUser = NoUser
  NoBucket = NoBucket
  NoTime = NoTime
INVARIANTS
  TypeOK
  AttributedToOwner
  WithinBudget
  RetryAfterSuffices
PROPERTY
  DeactivationSticks
SYMMETRY
  MCSymmetry
CHECK_DEADLOCK FALSE
