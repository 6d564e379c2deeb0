SPECIFICATION FairSpec
CONSTANTS
  Callers = {c1}
  Finalizers = {f1, f2}
  MaxBatch = 2
  MaxFrames = 3
  MaxThreads = 2
  MaxStops = 1
INVARIANTS TypeOK StopDrains
PROPERTIES ImplementsEvidence NothingIsHeldBack
CHECK_DEADLOCK FALSE
