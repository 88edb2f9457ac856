SPECIFICATION FairSpec
CONSTANTS
  w = w
  m = m
  q1 = q1
  k = k
  n = n
  None = None
  Runners = {w, m}
  Worker = w
  Requests = {q1}
  MaxJobs = 2
  Keys = {k, n}
  KeyOf <- KeyOfJob
  NoKey = n
  Kinds = {"corrected"}
  BadKinds = {"error"}
  CorrectedKey = k
  BaseRows = 1
  FirstRows = 1
  BatchSize = 1
  Recent = 1
  Window = 2
  Threshold = 1
  MinRows = 1
  MinNew = 2
  MinSamples = 1
  MinApproval = 30
  MinAgreement = 50
  MaxDepth = 0
  Steps = 1
  MaxEvents = 2
CHECK_DEADLOCK FALSE
INVARIANTS JobsReviewed ExportedOnce ReportFollowsModel
PROPERTY Learns Settles
