SPECIFICATION FairSpec
CONSTANTS
  Workers = {w1}
  Callers = {c1}
  Endpoints = {"refresh", "pause", "resume"}
  MaxJobs = 2
  Batches = 2
  MaxAttempts = 2
  Stamps = {1, 2, 3, 4, 5}
  MaxTroubles = 3
  PauseCost = 2
  SlowWorkers = FALSE
  NoWorker = NoWorker
  NoStamp = NoStamp
INVARIANT OneActiveJob
INVARIANT RetryBudget
INVARIANT CompletedCovers
PROPERTY RefreshEnds
