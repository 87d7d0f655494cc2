CONSTANTS
  j1 = j1  j2 = j2  j3 = j3
  Jobs = {j1}
  KeyOf <- KeyOfOne
  CopyJobs = {}
  Workers = {w1, w2}
  NoJob = NoJob  NoOwner = NoOwner
  Backend = "plan"
  MaxAttempts = 2  MaxPending = 1  ClaimLimit = 8  CancelTries = 4
  MaxSuspends = 0  MaxLate = 1  MaxCrashes = 1
SPECIFICATION Spec
SYMMETRY WorkerSymmetry
INVARIANTS TypeOK CancelNeverLost
PROPERTIES SuccessIsCurrentRun LiveLeaseNotStolen CancelSticks RefinesLifecycle
