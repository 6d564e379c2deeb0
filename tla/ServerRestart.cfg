SPECIFICATION FairSpec
CONSTANTS
  h1 = h1
  h2 = h2
  m1 = m1
  m2 = m2
  Handlers = {h1, h2}
  Manifests = {m1, m2}
  BootManifest = m1
  ModelOf <- SameModel
  Audited = {m1}
  NoHandler = NoHandler
  Endpoints = {"/manifest"}
  NumRequests = 1
  MaxLaunch = 3
  MaxSeq = 0
INVARIANTS TypeOK LaunchedAsDeclared
PROPERTIES RestartIsNotACrash ImplementsService LockIsReleased NoZombieServer
CHECK_DEADLOCK FALSE
