CONSTANTS
  j1 = j1  j2 = j2  j3 = j3
  Jobs = {j1, j2, j3}
  KeyOf <- KeyOfThree
  CopyJobs = {j3}
  Workers = {w1}
  NoJob = NoJob  NoOwner = NoOwner
  Backend = "local"
  MaxAttempts = 1  MaxPending = 2  ClaimLimit = 8  CancelTries = 2
  MaxSuspends = 1  MaxLate = 0  MaxCrashes = 0
SPECIFICATION Spec
INVARIANTS DedupUnique AttemptsBounded RunningIsFollowed
