SPECIFICATION Spec
CONSTANTS
    j1 = j1
    j2 = j2
    NoJob = NoJob
    Jobs <- OneJob
    GPUs <- OneGPU
    BackoffLimit <- RetryOnce
    HasTTL <- AllTTL
    MaxInt32 = 7
    CacheLag = TRUE
    HardValues = {0}
    ArgoPhases <- Outcomes2
    MaxIncarnations = 2
    Deletable <- OneJob
    MaxQuotaEdits = 1
    MaxFaults = 1
    MaxVanished = 0
INVARIANTS
    TypeOK
    RetryBudget
    NoOrphanWorkflow
    SucceededHasModel
    CreateNeverCollides
    NoStrandedJob
PROPERTIES
    TerminalStable
    TTLDeletesOnlyExpired
    LooseLifecycle
CHECK_DEADLOCK FALSE
