SPECIFICATION FairSpec
CONSTANTS
  A = A
  B = B
  C = C
  p1 = p1
  p2 = p2
  Paths = {p1, p2}
  Renewed = {p2}
  Versions = {v1, v2}
  NoVersion = NoVersion
  MaxManagers = 4
  MaxWrites = 2
  Contents = {A, B, C}
  StartContent = A
  Config <- Configs
  MaxEdits = 2
  MaxSignals = 1
  HasRows = FALSE
INVARIANTS
  TypeOK
  StatusTellsTheTruth
  ServesWholePairs
PROPERTIES
  HupLoadsTheFile
  LastingEditIsLoaded
  CertificateFollowsFiles
  OldWatchersEnd
