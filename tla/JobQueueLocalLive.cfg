CONSTANTS
  j1 = j1  j2 = j2  j3 = j3
  Jobs = {j1}
  KeyOf <- KeyOfOne
  CopyJobs = {j1}
  Workers = {w1}
  NoJob = NoJob  NoOwner = NoOwner
  Backend = "local"
  MaxAttempts = 2  MaxPending = 1  ClaimLimit = 8  CancelTries = 4
  MaxSuspends = 1  MaxLate = 1  MaxCrashes = 1
SPECIFICATION FairSpec
INVARIANT IInv
PROPERTY EveryJobSettles
