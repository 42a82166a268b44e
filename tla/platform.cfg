SPECIFICATION PlatformSpec
CONSTANTS
    j1 = j1
    models = models
    NoJob = NoJob
    NoObject = NoObject
    Jobs <- OneJob
    GPUs <- OneGPU
    BackoffLimit <- RetryOnce
    HasTTL <- NoTTL
    Bucket <- OneBucket
    MaxInt32 = 7
    CacheLag = FALSE
    HardValues = {}
    ArgoPhases <- AllArgoPhases
    MaxIncarnations = 2
    Deletable <- OneJob
    MaxQuotaEdits = 0
    MaxFaults = 0
    MaxVanished = 0
    MaxStrays = 1
INVARIANTS
    PlatformTypeOK
    OnlyEvaluatedModels
    RetryLayersIsolated
    SucceededPublishesPair
PROPERTIES
    ImplementsController
    PublishedModelKept
CHECK_DEADLOCK FALSE
