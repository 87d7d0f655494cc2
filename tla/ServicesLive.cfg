SPECIFICATION FairSpec
CONSTANTS
    Parts = {"scan", "stage", "config", "backup", "mux", "pool", "install", "scratch"}
    n1 = n1
    n2 = n2
    s1 = s1
    s2 = s2
    j1 = j1
    j2 = j2
    ScanNodes = {n1, n2}
    ScanPlaceOf <- SameDrive
    ScanPages = 1
    ScanIds = {1, 2}
    ScanMaxAttempts = 2
    ScanMaxFaults = 0
    ScanMaxLapses = 1
    StageAttempts = {a1, a2}
    StageReapers = {r1}
    StageNobody = nobody
    StageDigests = TRUE
    StageMaxVersion = 1
    StageMaxCrashes = 1
    StageMaxFaults = 1
    CfgDbs = {da, db}
    CfgHome = da
    CfgCalls = {c1, c2}
    CfgPeers = {c2}
    CfgOps = {o1}
    CfgImports = {i1}
    CfgNobody = nobody
    CfgMaxRev = 2
    CfgMaxReloads = 1
    CfgMaxDrops = 1
    CfgMaxPurges = 0
    BakProcs = {p1, p2}
    BakMigrating = {p2}
    BakNobody = nobody
    BakObjects = {x}
    BakPoints = {1}
    BakRetention = 1
    BakMaxCrashes = 1
    MuxOpener <- OneStream
    MuxBytes <- OneUpload
    MuxWindow = 1
    MuxAggregate = 1
    MuxLive = 1
    MuxQueue = 1
    MuxPipe = 1
    MuxMaxPreempts = 1
    PoolJobs = {q1, q2, q3}
    PoolConfigs <- AllRunners
    PoolFirst <- OneWorker
    PoolMaxPools = 2
    PoolMaxFaults = 1
    PoolMaxDrops = 2
    InstProcs = {p1, p2}
    InstNobody = nobody
    InstVersions = {1, 2}
    InstMaxFaults = 2
    InstMaxCrashes = 1
    ScrNodes = {d1}
    ScrBookOf <- OneBook
    ScrNobody = nobody
    ScrQuota = 1
    ScrInitial = 1
    ScrMaxAttempts = 2
    ScrPlan = FALSE
    ScrMaxFaults = 1
    ScrMaxCrashes = 1
    ScrMaxLapses = 1
INVARIANTS
    
    PoolPermits
    InstAgree
    
    
PROPERTIES
    ScanReclaimed
    StageReaped
    CfgCatchesUp
    
CHECK_DEADLOCK FALSE
