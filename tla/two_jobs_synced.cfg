SPECIFICATION FairSpec
CONSTANTS
    j1 = j1
    j2 = j2
    NoJob = NoJob
    Jobs <- TwoJobs
    GPUs <- MCGPUs
    BackoffLimit <- RetryFirstOnly
    HasTTL <- NoTTL
    MaxInt32 = 3
    CacheLag = FALSE
    HardValues = {2}
    ArgoPhases <- Outcomes2
    MaxIncarnations = 1
    Deletable <- OneJob
    MaxQuotaEdits = 0
    MaxFaults = 0
    MaxVanished = 0
INVARIANTS
    QuotaRespected
    SingleLiveWorkflow
    AttemptsCountWorkflows
PROPERTIES
    StrictLifecycle
    EveryJobFinishes
CHECK_DEADLOCK FALSE
