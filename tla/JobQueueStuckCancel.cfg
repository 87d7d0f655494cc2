CONSTANTS
  j1 = j1  j2 = j2  j3 = j3
  Jobs = {j1}
  KeyOf <- KeyOfOne
  CopyJobs = {}
  Workers = {w1}
  NoJob = NoJob  NoOwner = NoOwner
  Backend = "plan"
  MaxAttempts = 2  MaxPending = 1  ClaimLimit = 8  CancelTries = 3
  MaxSuspends = 0  MaxLate = 0  MaxCrashes = 1
SPECIFICATION FairSpec
PROPERTY AnsweredCancelSettles
