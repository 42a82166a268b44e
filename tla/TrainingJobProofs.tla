-------------------------- MODULE TrainingJobProofs --------------------------
(***************************************************************************)
(* Proofs about TrainingJobController for any number of jobs, any backoff  *)
(* limits and quotas, and any bounds.                                      *)
(***************************************************************************)
EXTENDS TrainingJobProperties, FiniteSetTheorems, TLAPS

-----------------------------------------------------------------------------
(* Operators on objects and statuses.                                      *)

\* The sum of spec.gpus over any set of jobs is a natural number.
LEMMA SumGPUsType ==
    ASSUME NEW S \in SUBSET Jobs
    PROVE  SumGPUs(S) \in Nat
<1>1. IsFiniteSet(S)
    BY JobsAssumption, FS_Subset
<1>2. IsFiniteSet(1 .. MaxInt32)
    BY SpecAssumption, FS_Interval
<1>3. IsFiniteSet(S \X (1 .. MaxInt32))
    BY <1>1, <1>2, FS_Product
<1>4. RequestedGPUs(S) \in SUBSET (S \X (1 .. MaxInt32))
    BY DEF RequestedGPUs
<1>5. IsFiniteSet(RequestedGPUs(S))
    BY <1>3, <1>4, FS_Subset
<1> QED
    BY <1>5, FS_CardinalityType DEF SumGPUs

\* Truncation to an int32 yields an integer.
LEMMA Int32Type ==
    ASSUME NEW n \in Int
    PROVE  Int32(n) \in Int
BY SpecAssumption DEF Int32

\* What updateQuotaStatus writes has the types of GPUQuotaStatus.
LEMMA UsageType ==
    ASSUME NEW list, NEW exclude
    PROVE  UsedGPUs(list, exclude) \in Int /\ CountQueued(list) \in Nat
<1>1. InPhase(list, "Running") \ exclude \in SUBSET Jobs
    BY DEF InPhase
<1>2. InPhase(list, "Queued") \in SUBSET Jobs
    BY DEF InPhase
<1>3. UsedGPUs(list, exclude) \in Int
    <2>1. SumGPUs(InPhase(list, "Running") \ exclude) \in Int
        BY <1>1, SumGPUsType
    <2> QED
        BY <2>1, Int32Type DEF UsedGPUs
<1>4. IsFiniteSet(InPhase(list, "Queued"))
    BY <1>2, JobsAssumption, FS_Subset
<1>5. CountQueued(list) \in Nat
    BY <1>4, FS_CardinalityType DEF CountQueued
<1> QED
    BY <1>3, <1>5

\* The versions of the quota that users write.
LEMMA QuotaType ==
    ASSUME NEW q \in GPUQuota
    PROVE  /\ NoQuota \in GPUQuota
           /\ \A h \in HardValues :
                 [q EXCEPT !.exists = TRUE, !.hardGPUs = h] \in GPUQuota
<1>1. NoQuota \in GPUQuota
    BY DEF NoQuota, GPUQuota
<1>2. ASSUME NEW h \in HardValues
      PROVE  [q EXCEPT !.exists = TRUE, !.hardGPUs = h] \in GPUQuota
    <2>1. h \in 0 .. MaxInt32
        BY <1>2, ControllerAssumption
    <2>2. MaxInt32 \in Nat
        BY SpecAssumption
    <2>3. h \in Nat
        BY <2>1, <2>2
    <2> QED
        BY <2>3 DEF GPUQuota
<1> QED
    BY <1>1, <1>2

\* A deleted or never created object is a TrainingJob version.
LEMMA NotFoundType ==
    ASSUME NEW u \in Nat
    PROVE  /\ NotFound(u) \in TrainingJob
           /\ [NotFound(u) EXCEPT !.exists = TRUE] \in TrainingJob
BY DEF NotFound, TrainingJob, EmptyStatus, TrainingJobStatus,
       TrainingJobPhase, ConditionTypes, ConditionStatus

\* Fields of a version, and the updates the reconciler makes to it.
LEMMA ObjectType ==
    ASSUME NEW o \in TrainingJob
    PROVE  /\ o.status \in TrainingJobStatus
           /\ o.uid \in Nat
           /\ o.exists \in BOOLEAN /\ o.deleting \in BOOLEAN
           /\ o.finalizer \in BOOLEAN
           /\ [o EXCEPT !.finalizer = TRUE] \in TrainingJob
           /\ [o EXCEPT !.finalizer = FALSE] \in TrainingJob
           /\ [o EXCEPT !.deleting = TRUE] \in TrainingJob
           /\ AfterDelete(o) \in TrainingJob
           /\ \A s \in TrainingJobStatus :
                 [o EXCEPT !.status = s] \in TrainingJob
<1>1. NotFound(o.uid) \in TrainingJob
    BY NotFoundType DEF TrainingJob
<1> QED
    BY <1>1 DEF TrainingJob, AfterDelete

\* Every status the reconciler builds is a TrainingJobStatus.
LEMMA StatusType ==
    ASSUME NEW s \in TrainingJobStatus
    PROVE  /\ Attempt(s) \in Nat
           /\ Park(s) \in TrainingJobStatus
           /\ Granted(s) \in TrainingJobStatus
           /\ Propagate(s) \in TrainingJobStatus
           /\ Succeed(s) \in TrainingJobStatus
           /\ Fail(s) \in TrainingJobStatus
           /\ Retry(s) \in TrainingJobStatus
           /\ Submitted(s) \in TrainingJobStatus
<1> USE DEF TrainingJobStatus, TrainingJobPhase, ConditionStatus
<1>1. Attempt(s) \in Nat
    <2>1. s.attempts \in Nat
        OBVIOUS
    <2> HIDE DEF TrainingJobStatus
    <2> QED
        BY <2>1 DEF Attempt
<1>2. ASSUME NEW t \in TrainingJobStatus, NEW c \in ConditionTypes,
             NEW v \in ConditionStatus
      PROVE  setCondition(t, c, v) \in TrainingJobStatus
    BY <1>2 DEF setCondition
<1>3. \A c \in {"QuotaGranted", "WorkflowSubmitted", "Complete"} :
          c \in ConditionTypes
    BY DEF ConditionTypes
<1>4. Park(s) \in TrainingJobStatus
    <2>1. [s EXCEPT !.phase = "Queued"] \in TrainingJobStatus
        OBVIOUS
    <2> HIDE DEF TrainingJobStatus
    <2> QED
        BY <2>1, <1>2, <1>3 DEF Park
<1>5. Granted(s) \in TrainingJobStatus
    <2> HIDE DEF TrainingJobStatus
    <2> QED
        BY <1>2, <1>3 DEF Granted
<1>6. Propagate(s) \in TrainingJobStatus
    BY <1>1 DEF Propagate
<1>7. Succeed(s) \in TrainingJobStatus
    <2>1. [s EXCEPT !.phase = "Succeeded", !.completionTime = TRUE,
                    !.modelURI = TRUE] \in TrainingJobStatus
        OBVIOUS
    <2> HIDE DEF TrainingJobStatus
    <2> QED
        BY <2>1, <1>2, <1>3 DEF Succeed
<1>8. Fail(s) \in TrainingJobStatus
    <2>1. [s EXCEPT !.phase = "Failed", !.completionTime = TRUE]
              \in TrainingJobStatus
        OBVIOUS
    <2> HIDE DEF TrainingJobStatus
    <2> QED
        BY <2>1, <1>2, <1>3 DEF Fail
<1>9. Retry(s) \in TrainingJobStatus
    BY DEF Retry
<1>10. Submitted(s) \in TrainingJobStatus
    <2> DEFINE t == [s EXCEPT !.phase = "Running",
                       !.attempts = IF Creating(s) THEN Attempt(s) ELSE @,
                       !.workflowName = Attempt(s),
                       !.startTime = TRUE]
    <2>1. t \in TrainingJobStatus
        BY <1>1
    <2>2. Submitted(s) = setCondition(t, "WorkflowSubmitted", "True")
        BY DEF Submitted
    <2> HIDE DEF TrainingJobStatus, t
    <2> QED
        BY <2>1, <2>2, <1>2, <1>3
<1> QED
    BY <1>1, <1>4, <1>5, <1>6, <1>7, <1>8, <1>9, <1>10

-----------------------------------------------------------------------------
(* Type correctness.                                                       *)

\* The initial state is well typed.
LEMMA InitType == Init => TypeOK
<1> SUFFICES ASSUME Init PROVE TypeOK
    OBVIOUS
<1>1. NotFound(0) \in TrainingJob
    BY NotFoundType
<1>2. NoQuota \in GPUQuota
    BY DEF NoQuota, GPUQuota
<1>3. \A h \in HardValues :
          [NoQuota EXCEPT !.exists = TRUE, !.hardGPUs = h] \in GPUQuota
    BY <1>2, QuotaType
<1>4. quota \in GPUQuota /\ quotaCache \in GPUQuota
    BY <1>2, <1>3 DEF Init
<1>5. watch \in Seq(JobEvent) /\ quotaWatch \in Seq(GPUQuota)
    <2>1. watch = <<>> /\ quotaWatch = <<>>
        BY DEF Init
    <2> QED
        BY <2>1
<1>6. jobs \in [Jobs -> TrainingJob] /\ cache \in [Jobs -> TrainingJob]
    BY <1>1 DEF Init
<1>7. /\ created \in [Jobs -> Nat] /\ succeeded \in [Jobs -> BOOLEAN]
      /\ timers \in [Jobs -> Timers]
    BY DEF Init, Timers
<1>8. pc \in PCs /\ pc = "idle" /\ outcome \in Outcomes
    BY DEF Init, PCs, Outcomes
<1> QED
    BY <1>1, <1>4, <1>5, <1>6, <1>7, <1>8 DEF Init, TypeOK

\* The delayed entry of a job stays one of the four kinds.
LEMMA AddAfterType ==
    ASSUME timers \in [Jobs -> Timers], NEW j \in Jobs, NEW d \in Timers,
           AddAfter(j, d)
    PROVE  timers' \in [Jobs -> Timers]
<1>1. Sooner(timers[j], d) \in Timers
    BY DEF Sooner, Timers
<1> QED
    BY <1>1 DEF AddAfter

\* Ending a reconcile leaves the worker and the timers well typed.
LEMMA ReturnType ==
    ASSUME TypeOK, req \in Jobs, NEW d \in Timers, Return(d)
    PROVE  /\ timers' \in [Jobs -> Timers]
           /\ pc' = "idle" /\ pc' \in PCs
           /\ req' \in Jobs \cup {NoJob}
           /\ job' \in TrainingJob
           /\ current' \in BOOLEAN
           /\ outcome' \in Outcomes
<1>1. timers' \in [Jobs -> Timers]
    BY AddAfterType DEF Return, TypeOK
<1>2. job' \in TrainingJob
    BY NotFoundType DEF Return, Stop
<1> QED
    BY <1>1, <1>2 DEF Return, Stop, PCs, Outcomes

\* A stored TrainingJob and its watch event are well typed.
LEMMA StoreType ==
    ASSUME TypeOK, NEW j \in Jobs, NEW o \in TrainingJob, StoreJob(j, o)
    PROVE  jobs' \in [Jobs -> TrainingJob] /\ watch' \in Seq(JobEvent)
<1>1. [job |-> j, object |-> o] \in JobEvent
    BY DEF JobEvent
<1> QED
    BY <1>1 DEF StoreJob, TypeOK

\* The reconcile steps that only read caches.
LEMMA BeginType ==
    ASSUME TypeOK, NEW j \in Jobs, BeginReconcile(j)
    PROVE  TypeOK'
<1>1. Dequeue(j)
    BY DEF BeginReconcile, ReconcileGone, ReconcileDeletion,
           ReconcileFinalizer, ReconcileTTL, ReconcileDenied, ReconcileAttempt
<1>2. cache[j] \in TrainingJob /\ cache[j].status \in TrainingJobStatus
    BY ObjectType DEF TypeOK
<1>3. ASSUME NEW label \in PCs, NEW o \in TrainingJob,
             NEW result \in Outcomes, Load(j, label, o, result)
      PROVE  TypeOK'
    BY <1>1, <1>3 DEF TypeOK, Dequeue, Load, CacheCurrent, quotaVars, wfVars,
                      faultVars
<1>4. ASSUME UNCHANGED <<workerVars, timers>>
      PROVE  TypeOK'
    BY <1>1, <1>4 DEF TypeOK, Dequeue, workerVars, quotaVars, wfVars,
                      faultVars
<1>5. CASE ReconcileGone(j)
    BY <1>4, <1>5 DEF ReconcileGone
<1>6. CASE ReconcileDeletion(j)
    BY <1>2, <1>3, <1>6 DEF ReconcileDeletion, PCs, Outcomes
<1>7. CASE ReconcileFinalizer(j)
    BY <1>2, <1>3, <1>7, ObjectType DEF ReconcileFinalizer, PCs, Outcomes
<1>8. CASE ReconcileTTL(j)
    <2>1. CASE UNCHANGED <<workerVars, timers>>
        BY <2>1, <1>4
    <2>2. CASE Load(j, "deleteExpired", cache[j], "none")
        BY <2>2, <1>2, <1>3 DEF PCs, Outcomes
    <2>3. CASE AddAfter(j, "expiry") /\ UNCHANGED workerVars
        <3>1. timers' \in [Jobs -> Timers]
            BY <2>3, AddAfterType DEF TypeOK, Timers
        <3> QED
            BY <3>1, <2>3, <1>1 DEF TypeOK, Dequeue, workerVars, quotaVars,
                                    wfVars, faultVars
    <2> QED
        BY <1>8, <2>1, <2>2, <2>3 DEF ReconcileTTL
<1>9. CASE ReconcileDenied(j)
    BY <1>2, <1>3, <1>9, ObjectType, StatusType
    DEF ReconcileDenied, PCs, Outcomes
<1>10. CASE ReconcileAttempt(j)
    BY <1>2, <1>3, <1>10, ObjectType, StatusType
    DEF ReconcileAttempt, PCs, Outcomes
<1> QED
    BY <1>5, <1>6, <1>7, <1>8, <1>9, <1>10 DEF BeginReconcile

\* The reconcile steps that call the API server.
LEMMA WorkerType ==
    ASSUME TypeOK, WorkerStep
    PROVE  TypeOK'
<1> USE DEF quotaVars, wfVars, apiVars, faultVars
<1>1. pc # "idle" /\ req \in Jobs
    BY DEF TypeOK, WorkerStep, DeleteOwnedWorkflows, RemoveFinalizer,
           AddFinalizer, DeleteExpired, GetWorkflow, CreateWorkflow,
           DeleteFailed, StatusUpdate, UpdateQuotaStatus
<1>2. /\ job \in TrainingJob /\ job.status \in TrainingJobStatus
      /\ job.uid \in Nat /\ jobs[req] \in TrainingJob
    BY <1>1, ObjectType DEF TypeOK
<1>3. /\ "none" \in Timers /\ "backoff" \in Timers
      /\ Result(outcome) \in Timers
    BY DEF Timers, Result
<1>4. CASE DeleteOwnedWorkflows
    <2>1. job' \in TrainingJob
        BY <1>2, <1>4, ObjectType DEF DeleteOwnedWorkflows, Goto
    <2>2. pc' \in PCs /\ outcome' \in Outcomes
        BY <1>4 DEF DeleteOwnedWorkflows, Goto, PCs, Outcomes
    <2>3. workflows' \subseteq Workflow /\ wfEvents' \subseteq Jobs
        BY <1>1, <1>4 DEF DeleteOwnedWorkflows, TypeOK
    <2> QED
        BY <1>1, <1>4, <2>1, <2>2, <2>3
        DEF DeleteOwnedWorkflows, Goto, TypeOK
<1>5. CASE RemoveFinalizer
    <2>1. NotFound(job.uid) \in TrainingJob
        BY <1>2, NotFoundType
    <2>2. jobs' \in [Jobs -> TrainingJob] /\ watch' \in Seq(JobEvent)
        BY <1>1, <1>5, <2>1, StoreType DEF RemoveFinalizer, TypeOK
    <2>3. \E d \in Timers : Return(d)
        BY <1>3, <1>5 DEF RemoveFinalizer
    <2> QED
        BY <1>1, <1>5, <2>2, <2>3, ReturnType DEF RemoveFinalizer, TypeOK
<1>6. CASE AddFinalizer
    <2>1. jobs' \in [Jobs -> TrainingJob] /\ watch' \in Seq(JobEvent)
        BY <1>1, <1>2, <1>6, StoreType DEF AddFinalizer, TypeOK
    <2>2. \E d \in Timers : Return(d)
        BY <1>3, <1>6 DEF AddFinalizer
    <2> QED
        BY <1>1, <1>6, <2>1, <2>2, ReturnType DEF AddFinalizer, TypeOK
<1>7. CASE DeleteExpired
    <2>1. AfterDelete(jobs[req]) \in TrainingJob
        BY <1>2, ObjectType
    <2>2. jobs' \in [Jobs -> TrainingJob] /\ watch' \in Seq(JobEvent)
        BY <1>1, <1>7, <2>1, StoreType DEF DeleteExpired, TypeOK
    <2>3. \E d \in Timers : Return(d)
        BY <1>3, <1>7 DEF DeleteExpired
    <2> QED
        BY <1>1, <1>7, <2>2, <2>3, ReturnType DEF DeleteExpired, TypeOK
<1>8. CASE GetWorkflow
    <2>1. ASSUME NEW label \in PCs, NEW o \in TrainingJob,
                 NEW r \in Outcomes, Goto(label, o, r), UNCHANGED timers
          PROVE  TypeOK'
        BY <1>1, <1>8, <2>1 DEF GetWorkflow, Goto, TypeOK
    <2>2. CASE WorkflowNotFound
        BY <2>1, <2>2, <1>2 DEF WorkflowNotFound, PCs, Outcomes
    <2>3. ASSUME NEW w \in workflows, WorkflowActive(w)
          PROVE  TypeOK'
        <3>1. CASE Return("none")
            BY <1>1, <1>3, <1>8, <3>1, ReturnType DEF GetWorkflow, TypeOK
        <3>2. [job EXCEPT !.status = Propagate(@)] \in TrainingJob
            BY <1>2, ObjectType, StatusType
        <3> QED
            BY <2>1, <2>3, <3>1, <3>2 DEF WorkflowActive, PCs, Outcomes
    <2>4. ASSUME NEW w \in workflows, WorkflowSucceeded(w)
          PROVE  TypeOK'
        <3>1. [job EXCEPT !.status = Succeed(@)] \in TrainingJob
            BY <1>2, ObjectType, StatusType
        <3> QED
            BY <2>1, <2>4, <3>1 DEF WorkflowSucceeded, PCs, Outcomes
    <2>5. ASSUME NEW w \in workflows, WorkflowFailed(w)
          PROVE  TypeOK'
        <3>1. [job EXCEPT !.status = Fail(@)] \in TrainingJob
            BY <1>2, ObjectType, StatusType
        <3> QED
            BY <2>1, <2>5, <3>1, <1>2 DEF WorkflowFailed, PCs, Outcomes
    <2> QED
        BY <1>8, <2>2, <2>3, <2>4, <2>5 DEF GetWorkflow
<1>9. CASE CreateWorkflow
    <2>1. CASE Return("backoff") /\ UNCHANGED wfVars
        BY <1>1, <1>3, <1>9, <2>1, ReturnType DEF CreateWorkflow, TypeOK
    <2>2. CASE ~(Return("backoff") /\ UNCHANGED wfVars)
        <3>1. NewWorkflow \in Workflow
            BY <1>1, <1>2, StatusType
            DEF NewWorkflow, Workflow, WorkflowPhases
        <3>2. [job EXCEPT !.status = Submitted(@)] \in TrainingJob
            BY <1>2, ObjectType, StatusType
        <3>3. /\ workflows' = workflows \cup {NewWorkflow}
              /\ wfEvents' = wfEvents \cup {req}
              /\ CountCreated
              /\ Goto("statusUpdate", [job EXCEPT !.status = Submitted(@)],
                      "submitted")
              /\ UNCHANGED <<timers, succeeded>>
            BY <1>9, <2>2 DEF CreateWorkflow
        <3>4. created' \in [Jobs -> Nat]
            BY <1>1, <3>3 DEF CountCreated, TypeOK
        <3>5. job' \in TrainingJob /\ pc' \in PCs /\ outcome' \in Outcomes
            BY <3>2, <3>3 DEF Goto, PCs, Outcomes
        <3> QED
            BY <1>1, <1>9, <3>1, <3>3, <3>4, <3>5
            DEF CreateWorkflow, Goto, TypeOK
    <2> QED
        BY <2>1, <2>2
<1>10. CASE DeleteFailed
    <2>1. job' \in TrainingJob
        BY <1>2, <1>10, ObjectType, StatusType DEF DeleteFailed, Goto
    <2>2. pc' \in PCs /\ outcome' \in Outcomes
        BY <1>10 DEF DeleteFailed, Goto, PCs, Outcomes
    <2>3. workflows' \subseteq Workflow /\ wfEvents' \subseteq Jobs
        BY <1>1, <1>10 DEF DeleteFailed, TypeOK
    <2> QED
        BY <1>1, <1>10, <2>1, <2>2, <2>3 DEF DeleteFailed, Goto, TypeOK
<1>11. CASE StatusUpdate
    <2>1. [jobs[req] EXCEPT !.status = job.status] \in TrainingJob
        BY <1>2, ObjectType
    <2>2. jobs' \in [Jobs -> TrainingJob] /\ watch' \in Seq(JobEvent)
        BY <1>1, <1>11, <2>1, StoreType DEF StatusUpdate, TypeOK
    <2>3. CASE \E d \in Timers : Return(d)
        BY <1>1, <1>11, <2>2, <2>3, ReturnType DEF StatusUpdate, TypeOK
    <2>4. CASE /\ pc' = "quotaStatus" /\ job' = NotFound(0)
               /\ current' = FALSE /\ UNCHANGED <<req, outcome, timers>>
        <3>1. job' \in TrainingJob /\ pc' \in PCs
            BY <2>4, NotFoundType DEF PCs
        <3> QED
            BY <1>1, <1>11, <2>2, <2>4, <3>1 DEF StatusUpdate, TypeOK
    <2> QED
        BY <1>3, <1>11, <2>3, <2>4 DEF StatusUpdate
<1>12. CASE UpdateQuotaStatus
    <2>1. RefreshedQuota \in GPUQuota
        BY UsageType DEF RefreshedQuota, TypeOK, GPUQuota
    <2>2. quota' \in GPUQuota /\ quotaWatch' \in Seq(GPUQuota)
        BY <1>12, <2>1 DEF UpdateQuotaStatus, WriteQuota, TypeOK
    <2>3. \E d \in Timers : Return(d)
        BY <1>3, <1>12 DEF UpdateQuotaStatus
    <2> QED
        BY <1>1, <1>12, <2>2, <2>3, ReturnType DEF UpdateQuotaStatus, TypeOK
<1> QED
    BY <1>4, <1>5, <1>6, <1>7, <1>8, <1>9, <1>10, <1>11, <1>12
    DEF WorkerStep

\* Faults, users, Argo, informers and clocks.
LEMMA EnvironmentType ==
    ASSUME TypeOK, Next,
           ~WorkerStep, \A j \in Jobs : ~BeginReconcile(j)
    PROVE  TypeOK'
<1> USE DEF quotaVars, wfVars, apiVars, faultVars, workerVars
<1>1. CASE ApiFails
    <2>1. req \in Jobs
        BY <1>1 DEF ApiFails, TypeOK
    <2>2. OnError(pc) \in Timers /\ Return(OnError(pc))
        BY <1>1 DEF ApiFails, OnError, Result, Timers
    <2>3. faults' \in Nat
        BY <1>1 DEF ApiFails, Disturb, TypeOK
    <2> QED
        BY <1>1, <2>1, <2>2, <2>3, ReturnType DEF ApiFails, TypeOK
<1>2. CASE Crash
    <2>1. job' \in TrainingJob /\ pc' = "idle" /\ pc' \in PCs
          /\ outcome' \in Outcomes
        BY <1>2, NotFoundType DEF Crash, Stop, PCs, Outcomes
    <2>2. timers' \in [Jobs -> Timers]
        BY <1>2 DEF Crash, Timers
    <2>3. watch' = <<>> /\ quotaWatch' = <<>>
        BY <1>2 DEF Crash
    <2>4. watch' \in Seq(JobEvent) /\ quotaWatch' \in Seq(GPUQuota)
        BY <2>3
    <2>5. faults' \in Nat
        BY <1>2 DEF Crash, Disturb, TypeOK
    <2>6. queue' \subseteq Jobs /\ wfEvents' \subseteq Jobs
        BY <1>2 DEF Crash
    <2> QED
        BY <1>2, <2>1, <2>2, <2>4, <2>5, <2>6 DEF Crash, Stop, TypeOK
<1>3. ASSUME NEW w \in workflows, VanishWorkflow(w)
      PROVE  TypeOK'
    <2>1. w.job \in Jobs
        BY DEF TypeOK, Workflow
    <2> QED
        BY <1>3, <2>1 DEF VanishWorkflow, TypeOK
<1>4. ASSUME NEW j \in Jobs, CreateJob(j)
      PROVE  TypeOK'
    <2>1. [NotFound(jobs[j].uid + 1) EXCEPT !.exists = TRUE] \in TrainingJob
        <3>1. jobs[j].uid \in Nat
            BY ObjectType DEF TypeOK
        <3>2. jobs[j].uid + 1 \in Nat
            BY <3>1
        <3> QED
            BY <3>2, NotFoundType
    <2>2. jobs' \in [Jobs -> TrainingJob] /\ watch' \in Seq(JobEvent)
        BY <1>4, <2>1, StoreType DEF CreateJob, UserWritesJob
    <2> QED
        BY <1>4, <2>2 DEF CreateJob, UserWritesJob, TypeOK
<1>5. ASSUME NEW j \in Jobs, DeleteJob(j)
      PROVE  TypeOK'
    <2>1. AfterDelete(jobs[j]) \in TrainingJob
        BY ObjectType DEF TypeOK
    <2>2. jobs' \in [Jobs -> TrainingJob] /\ watch' \in Seq(JobEvent)
        BY <1>5, <2>1, StoreType DEF DeleteJob, UserWritesJob
    <2> QED
        BY <1>5, <2>2 DEF DeleteJob, UserWritesJob, TypeOK
<1>6. CASE EditQuota
    <2>1. \E q \in GPUQuota : WriteQuota(q)
        BY <1>6, QuotaType DEF EditQuota, TypeOK
    <2>2. quota' \in GPUQuota /\ quotaWatch' \in Seq(GPUQuota)
        BY <2>1 DEF WriteQuota, TypeOK
    <2>3. quotaEdits \in Nat /\ quotaEdits' = quotaEdits + 1
        BY <1>6 DEF EditQuota, TypeOK
    <2>4. quotaEdits' \in Nat
        BY <2>3
    <2> QED
        BY <1>6, <2>2, <2>4 DEF EditQuota, TypeOK
<1>7. ASSUME NEW w \in workflows, ArgoStarts(w) \/ ArgoEnds(w)
      PROVE  TypeOK'
    <2>1. PICK p \in WorkflowPhases : SetWorkflowPhase(w, p)
        BY <1>7, ControllerAssumption DEF ArgoStarts, ArgoEnds
    <2>2. w.job \in Jobs /\ [w EXCEPT !.phase = p] \in Workflow
        BY DEF TypeOK, Workflow
    <2>3. succeeded' \in [Jobs -> BOOLEAN]
        BY <2>1, <2>2 DEF SetWorkflowPhase, TypeOK
    <2> QED
        BY <2>1, <2>2, <2>3 DEF SetWorkflowPhase, TypeOK
<1>8. CASE DeliverJob
    <2>1. Head(watch) \in JobEvent /\ Tail(watch) \in Seq(JobEvent)
        BY <1>8 DEF DeliverJob, TypeOK
    <2>2. Head(watch).job \in Jobs /\ Head(watch).object \in TrainingJob
        BY <2>1 DEF JobEvent
    <2> QED
        BY <1>8, <2>1, <2>2 DEF DeliverJob, TypeOK
<1>9. ASSUME NEW j \in Jobs, DeliverWorkflowEvent(j)
      PROVE  TypeOK'
    BY <1>9 DEF DeliverWorkflowEvent, TypeOK
<1>10. CASE DeliverQuota
    <2>1. Head(quotaWatch) \in GPUQuota /\ Tail(quotaWatch) \in Seq(GPUQuota)
        BY <1>10 DEF DeliverQuota, TypeOK
    <2> QED
        BY <1>10, <2>1 DEF DeliverQuota, TypeOK
<1>11. ASSUME NEW j \in Jobs, ElapseTTL(j)
       PROVE  TypeOK'
    <2>1. jobs[j].uid \in Nat
        BY ObjectType DEF TypeOK
    <2> QED
        BY <1>11, <2>1 DEF ElapseTTL, TypeOK
<1>12. ASSUME NEW j \in Jobs, TimerFires(j)
       PROVE  TypeOK'
    BY <1>12 DEF TimerFires, TypeOK, Timers
<1> QED
    BY <1>1, <1>2, <1>3, <1>4, <1>5, <1>6, <1>7, <1>8, <1>9, <1>10, <1>11,
       <1>12 DEF Next, OperatorNext

\* Every variable keeps its type in every behaviour.
THEOREM TypeCorrect == Spec => []TypeOK
<1>1. Init => TypeOK
    BY InitType
<1>2. TypeOK /\ [Next]_vars => TypeOK'
    <2> SUFFICES ASSUME TypeOK, [Next]_vars PROVE TypeOK'
        OBVIOUS
    <2>1. CASE WorkerStep
        BY <2>1, WorkerType
    <2>2. ASSUME NEW j \in Jobs, BeginReconcile(j) PROVE TypeOK'
        BY <2>2, BeginType
    <2>3. CASE UNCHANGED vars
        BY <2>3 DEF vars, TypeOK
    <2> QED
        BY <2>1, <2>2, <2>3, EnvironmentType
<1> QED
    BY <1>1, <1>2, PTL DEF Spec
=============================================================================
