SPECIFICATION Spec
CONSTANTS
    Parts = {"scan", "stage", "config", "backup", "mux", "scratch"}
    n1 = n1
    n2 = n2
    s1 = s1
    s2 = s2
    j1 = j1
    j2 = j2
    ScanNodes = {n1, n2}
    ScanPlaceOf <- SameDrive
    ScanPages = 2
    ScanIds = {1, 2}
    ScanMaxAttempts = 2
    ScanMaxFaults = 2
    ScanMaxLapses = 0
    StageAttempts = {a1, a2}
    StageReapers = {r1, r2}
    StageNobody = nobody
    StageDigests = FALSE
    StageMaxVersion = 2
    StageMaxCrashes = 2
    StageMaxFaults = 2
    CfgDbs = {da}
    CfgHome = da
    CfgCalls = {c1, c2}
    CfgPeers = {c2}
    CfgOps = {o1, o2}
    CfgImports = {i1, i2}
    CfgNobody = nobody
    CfgMaxRev = 3
    CfgMaxReloads = 1
    CfgMaxDrops = 0
    CfgMaxPurges = 1
    BakProcs = {p1, p2}
    BakMigrating = {p2}
    BakNobody = nobody
    BakObjects = {x, y}
    BakPoints = {1, 2}
    BakRetention = 1
    BakMaxCrashes = 1
    MuxOpener <- TwoStreams
    MuxBytes <- TwoUploads
    MuxWindow = 2
    MuxAggregate = 1
    MuxLive = 1
    MuxQueue = 1
    MuxPipe = 1
    MuxMaxPreempts = 0
    PoolJobs = {q1, q2, q3}
    PoolConfigs <- AllRunners
    PoolFirst <- OneWorker
    PoolMaxPools = 2
    PoolMaxFaults = 1
    PoolMaxDrops = 2
    InstProcs = {p1, p2}
    InstNobody = nobody
    InstVersions = {1, 2}
    InstMaxFaults = 2
    InstMaxCrashes = 1
    ScrNodes = {d1, d2}
    ScrBookOf <- OneBook
    ScrNobody = nobody
    ScrQuota = 1
    ScrInitial = 1
    ScrMaxAttempts = 2
    ScrPlan = TRUE
    ScrMaxFaults = 0
    ScrMaxCrashes = 1
    ScrMaxLapses = 0
INVARIANTS
    
    StageReaperSparesLive
    StageJournalled
    
    CfgOneNoticePerRevision
    CfgRetryAgrees
    BakRestorable
    MuxCreditConserved
    MuxEofAfterAll
    
PROPERTIES CfgLiveForward
CHECK_DEADLOCK FALSE
