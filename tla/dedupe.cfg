SPECIFICATION FairSpec
CONSTANTS
  pa = pa
  pb = pb
  w = w
  e1 = e1
  NoPrint = NoPrint
  Files = {1, 2, 3, 4, 5}
  Fingerprint <- Prints5
  Internal = {2}
  Sources = {2, 3, 4, 5}
  Deleted = {3}
  Rank <- Ranks5
  Chunk = 2
  MaxGroups = 1
  Worker = w
  Callers = {e1}
  MaxJobs = 2
  MaxEvents = 2
CHECK_DEADLOCK FALSE
INVARIANTS JobCovers GroupsSound
PROPERTY TaskEnds
