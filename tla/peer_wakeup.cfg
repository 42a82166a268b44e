SPECIFICATION Spec
CONSTANTS
    j1 = j1
    j2 = j2
    NoJob = NoJob
    Jobs <- TwoJobs
    GPUs <- MCGPUs
    BackoffLimit <- NoRetry
    HasTTL <- NoTTL
    MaxInt32 = 7
    CacheLag = FALSE
    HardValues = {2}
    ArgoPhases <- Outcomes2
    MaxIncarnations = 1
    Deletable <- TwoJobs
    MaxQuotaEdits = 0
    MaxFaults = 0
    MaxVanished = 0
INVARIANT PeerCompletionWakes
CHECK_DEADLOCK FALSE
