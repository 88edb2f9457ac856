SPECIFICATION FairSpec
CONSTANTS
  w1 = w1
  w2 = w2
  api = api
  NoJob = NoJob
  NoFile = NoFile
  Files = {1, 2}
  Bucket <- Ranks
  Unlabelled = {}
  Rejected = {}
  Workers = {w1}
  Callers = {}
  Jobs = {1, 2, 3}
  MaxAttempts = 2
  Limit = 4
  TargetedLimit = 10
  Concurrency = 2
  MaxVersion = 2
  MaxCorrections = 1
  MaxFaults = 2
  MaxCrashes = 1
  MaxCalls = 0
  SlowWorkers = FALSE
INVARIANT ResultsCurrent
PROPERTIES DoneStaysDone KeepsUp
