SPECIFICATION Spec
CONSTANTS
  w1 = w1
  w2 = w2
  api = api
  NoJob = NoJob
  NoFile = NoFile
  Files = {1, 2}
  Bucket <- Ranks
  Unlabelled = {2}
  Rejected = {}
  Workers = {w1, w2}
  Callers = {api}
  Jobs = {1, 2, 3}
  MaxAttempts = 1
  Limit = 4
  TargetedLimit = 10
  Concurrency = 1
  MaxVersion = 1
  MaxCorrections = 1
  MaxFaults = 2
  MaxCrashes = 0
  MaxCalls = 1
  SlowWorkers = FALSE
SYMMETRY WorkerSymmetry
INVARIANT OneSubmission
