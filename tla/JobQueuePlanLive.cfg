CONSTANTS
  j1 = j1  j2 = j2  j3 = j3
  Jobs = {j1, j3}
  KeyOf <- KeyOfThree
  CopyJobs = {j3}
  Workers = {w1}
  NoJob = NoJob  NoOwner = NoOwner
  Backend = "plan"
  MaxAttempts = 2  MaxPending = 1  ClaimLimit = 8  CancelTries = 2
  MaxSuspends = 0  MaxLate = 0  MaxCrashes = 1
SPECIFICATION FairSpec
INVARIANT AdmissionCap
PROPERTY UncancelledJobSettles
