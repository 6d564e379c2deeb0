SPECIFICATION Spec
CONSTANTS
  h1 = h1
  h2 = h2
  m1 = m1
  m2 = m2
  Handlers = {h1, h2}
  Manifests = {m1, m2}
  BootManifest = m1
  ModelOf <- SameModel
  Audited = {m1}
  NoHandler = NoHandler
  Endpoints = {"/manifest", "/run", "/replay", "/v1", "proxy"}
  NumRequests = 2
  MaxLaunch = 2
  MaxSeq = 2
INVARIANTS QuietRunIsAttested CaptureMatchesEngine
PROPERTIES CaptureAppendOnly
SYMMETRY HandlerSymmetry
CHECK_DEADLOCK FALSE
