SPECIFICATION Spec
CONSTANTS
  Workers = {w1, w2}
  Callers = {c1}
  Endpoints = {"refresh", "pause", "resume"}
  MaxJobs = 1
  Batches = 2
  MaxAttempts = 1
  Stamps = {1, 2, 3, 4, 5}
  MaxTroubles = 0
  PauseCost = 0
  SlowWorkers = TRUE
  NoWorker = NoWorker
  NoStamp = NoStamp
INVARIANT LeaseExclusive
INVARIANT SnapshotsSound
PROPERTY ImplementsLifecycle
SYMMETRY WorkerSymmetry
