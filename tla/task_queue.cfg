SPECIFICATION FairSpec
CONSTANTS
  worker = worker
  e1 = e1
  k1 = k1
  NoTask = NoTask
  Tasks = {1, 2}
  Size <- Sizes
  Chunk = 2
  Limit = 2
  Worker = worker
  Callers = {e1}
  Cancellers = {k1}
  MaxFaults = 1
  MaxCrashes = 1
  MaxReopened = 0
  MaxDone = 1
CHECK_DEADLOCK FALSE
INVARIANTS CompletedIsDone CursorIsDone
PROPERTY EveryTaskEnds
