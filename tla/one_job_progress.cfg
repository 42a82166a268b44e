SPECIFICATION FairSpec
CONSTANTS
    j1 = j1
    j2 = j2
    NoJob = NoJob
    Jobs <- OneJob
    GPUs <- OneGPU
    BackoffLimit <- RetryOnce
    HasTTL <- AllTTL
    MaxInt32 = 7
    CacheLag = FALSE
    HardValues = {0, 1}
    ArgoPhases = {"Running", "Succeeded", "Failed"}
    MaxIncarnations = 1
    Deletable <- OneJob
    MaxQuotaEdits = 0
    MaxFaults = 2
    MaxVanished = 1
PROPERTIES
    EveryJobFinishes
    DeletionCompletes
    ExpiredJobRemoved
    WaitingJobRefreshesUsage
CHECK_DEADLOCK FALSE
