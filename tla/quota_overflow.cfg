SPECIFICATION Spec
CONSTANTS
    j1 = j1
    j2 = j2
    NoJob = NoJob
    Jobs <- TwoJobs
    GPUs <- HalfRange
    BackoffLimit <- NoRetry
    HasTTL <- NoTTL
    MaxInt32 = 3
    CacheLag = FALSE
    HardValues = {3}
    ArgoPhases <- Outcomes2
    MaxIncarnations = 1
    Deletable = {}
    MaxQuotaEdits = 0
    MaxFaults = 0
    MaxVanished = 0
INVARIANT QuotaRespected
CHECK_DEADLOCK FALSE
