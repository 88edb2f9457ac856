SPECIFICATION FairSpec
CONSTANTS
  top = top
  folder = folder
  a = a
  b = b
  c = c
  Files = {a, b}
  Folders = {top, folder}
  Root = top
  Parent <- Tree
  Versions = {1, 2}
  BatchLimit = 1
  Runs = {1, 2, 3, 4, 5, 6}
  MaxLive = 1
  MaxEdits = 2
  MaxFaults = 2
  PauseAllowed = TRUE
  Absent = Absent
  NoRun = NoRun
INVARIANT IndexAgrees
INVARIANT NothingLost
PROPERTY IndexConverges
