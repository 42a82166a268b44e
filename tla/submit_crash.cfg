SPECIFICATION Spec
CONSTANTS
    j1 = j1
    j2 = j2
    NoJob = NoJob
    Jobs <- OneJob
    GPUs <- OneGPU
    BackoffLimit <- RetryOnce
    HasTTL <- NoTTL
    MaxInt32 = 7
    CacheLag = FALSE
    HardValues = {1}
    ArgoPhases <- Outcomes2
    MaxIncarnations = 1
    Deletable <- OneJob
    MaxQuotaEdits = 0
    MaxFaults = 1
    MaxVanished = 0
INVARIANT TotalAttempts
CHECK_DEADLOCK FALSE
