----------------------- MODULE TrainingJobSafetyProofs -----------------------
(***************************************************************************)
(* RetryBudget and TerminalStable for any number of jobs, whatever the     *)
(* caches lag behind and whatever fails.                                   *)
(***************************************************************************)
EXTENDS TrainingJobProofs

-----------------------------------------------------------------------------
(* The retry budget.                                                       *)

\* Phase and attempts of every status the reconciler builds.
LEMMA StatusFields ==
    ASSUME NEW s \in TrainingJobStatus
    PROVE  /\ Park(s).phase = "Queued" /\ Park(s).attempts = s.attempts
           /\ Granted(s).phase = s.phase /\ Granted(s).attempts = s.attempts
           /\ Propagate(s).phase = "Running"
           /\ Propagate(s).attempts = s.attempts
           /\ Succeed(s).phase = "Succeeded"
           /\ Succeed(s).attempts = s.attempts
           /\ Fail(s).phase = "Failed" /\ Fail(s).attempts = s.attempts
           /\ Retry(s).phase = "Pending" /\ Retry(s).attempts = s.attempts
           /\ Submitted(s).phase = "Running"
           /\ Submitted(s).attempts =
                 IF Creating(s) THEN Attempt(s) ELSE s.attempts
<1> USE DEF TrainingJobStatus
<1>1. Park(s).phase = "Queued" /\ Park(s).attempts = s.attempts
    BY DEF Park, setCondition
<1>2. Granted(s).phase = s.phase /\ Granted(s).attempts = s.attempts
    BY DEF Granted, setCondition
<1>3. Propagate(s).phase = "Running" /\ Propagate(s).attempts = s.attempts
    BY DEF Propagate
<1>4. Succeed(s).phase = "Succeeded" /\ Succeed(s).attempts = s.attempts
    BY DEF Succeed, setCondition
<1>5. Fail(s).phase = "Failed" /\ Fail(s).attempts = s.attempts
    BY DEF Fail, setCondition
<1>6. Retry(s).phase = "Pending" /\ Retry(s).attempts = s.attempts
    BY DEF Retry
<1>7. /\ Submitted(s).phase = "Running"
      /\ Submitted(s).attempts = IF Creating(s) THEN Attempt(s) ELSE s.attempts
    BY DEF Submitted, setCondition
<1> QED
    BY <1>1, <1>2, <1>3, <1>4, <1>5, <1>6, <1>7

\* Each of them is within the budget where the reconciler builds it.
LEMMA StatusBudget ==
    ASSUME NEW j \in Jobs, NEW s \in TrainingJobStatus, WithinBudget(j, s)
    PROVE  /\ NeedsQuota(s) => WithinBudget(j, Park(s))
           /\ WithinBudget(j, Granted(s))
           /\ ~IsTerminal(s) => ~IsTerminal(Granted(s))
           /\ WithinBudget(j, Propagate(s))
           /\ WithinBudget(j, Succeed(s))
           /\ ~MayRetry(j, s) => WithinBudget(j, Fail(s))
           /\ MayRetry(j, s) => WithinBudget(j, Retry(s))
           /\ ~IsTerminal(s) => WithinBudget(j, Submitted(s))
<1>1. s.attempts \in Nat /\ s.phase \in TrainingJobPhase
    BY DEF TrainingJobStatus
<1>2. BackoffLimit[j] \in Nat
    BY SpecAssumption
<1>3. NeedsQuota(s) => WithinBudget(j, Park(s))
    BY <1>1, <1>2, StatusFields DEF WithinBudget, NeedsQuota
<1>4. WithinBudget(j, Granted(s))
    BY <1>1, <1>2, StatusFields DEF WithinBudget, NeedsQuota
<1>5. ~IsTerminal(s) => ~IsTerminal(Granted(s))
    BY StatusFields DEF IsTerminal
<1>6. WithinBudget(j, Propagate(s)) /\ WithinBudget(j, Succeed(s))
    BY <1>1, <1>2, StatusFields DEF WithinBudget, NeedsQuota
<1>7. ~MayRetry(j, s) => WithinBudget(j, Fail(s))
    <2>1. ~MayRetry(j, s) => s.attempts = BackoffLimit[j] + 1
        BY <1>1, <1>2 DEF MayRetry, WithinBudget
    <2>2. Fail(s).phase = "Failed" /\ Fail(s).attempts = s.attempts
        BY StatusFields
    <2> QED
        BY <1>1, <1>2, <2>1, <2>2 DEF WithinBudget, NeedsQuota
<1>8. MayRetry(j, s) => WithinBudget(j, Retry(s))
    BY <1>1, <1>2, StatusFields DEF WithinBudget, NeedsQuota, MayRetry
<1>9. ~IsTerminal(s) => WithinBudget(j, Submitted(s))
    <2> SUFFICES ASSUME ~IsTerminal(s) PROVE WithinBudget(j, Submitted(s))
        OBVIOUS
    <2>1. /\ Submitted(s).phase = "Running"
          /\ Submitted(s).attempts =
                IF Creating(s) THEN Attempt(s) ELSE s.attempts
        BY StatusFields
    <2>2. (IF Creating(s) THEN Attempt(s) ELSE s.attempts)
              <= BackoffLimit[j] + 1
        <3>1. CASE ~Creating(s)
            BY <3>1 DEF WithinBudget
        <3>2. CASE Creating(s) /\ s.phase = "Running"
            BY <1>1, <1>2, <3>2 DEF Creating, Attempt
        <3>3. CASE s.phase # "Running"
            <4>1. s.attempts <= BackoffLimit[j]
                BY <1>1, <3>3
                DEF IsTerminal, TrainingJobPhase, NeedsQuota, WithinBudget
            <4>2. Creating(s) /\ Attempt(s) = s.attempts + 1
                BY <3>3 DEF Creating, Attempt
            <4>3. s.attempts + 1 <= BackoffLimit[j] + 1
                BY <1>1, <1>2, <4>1
            <4> QED
                BY <4>2, <4>3
        <3> QED
            BY <3>1, <3>2, <3>3
    <2> QED
        BY <2>1, <2>2 DEF WithinBudget, NeedsQuota
<1> QED
    BY <1>3, <1>4, <1>5, <1>6, <1>7, <1>8, <1>9

\* What the worker holds is within the budget, and fit for its next call.
WorkerBudget ==
    /\ pc # "idle" => WithinBudget(req, job.status)
    /\ pc \in {"getWorkflow", "createWorkflow", "deleteFailed"} =>
          ~IsTerminal(job.status)
    /\ pc = "deleteFailed" => MayRetry(req, job.status)

\* A version without a status has used no attempt.
LEMMA EmptyBudget ==
    ASSUME NEW j \in Jobs, NEW u
    PROVE  WithinBudget(j, NotFound(u).status)
<1>1. BackoffLimit[j] \in Nat
    BY SpecAssumption
<1>2. /\ NotFound(u).status.attempts = 0
      /\ NotFound(u).status.phase = ""
    BY DEF NotFound, EmptyStatus
<1>3. 0 <= BackoffLimit[j] /\ 0 <= BackoffLimit[j] + 1
    BY <1>1
<1> QED
    BY <1>2, <1>3 DEF WithinBudget

\* A write within the budget leaves the stored and the travelling versions
\* within it.
LEMMA StoreBudget ==
    ASSUME TypeOK, BudgetInv, NEW j \in Jobs, NEW o \in TrainingJob,
           WithinBudget(j, o.status), StoreJob(j, o)
    PROVE  /\ \A k \in Jobs : WithinBudget(k, jobs'[k].status)
           /\ \A i \in DOMAIN watch' :
                 WithinBudget(watch'[i].job, watch'[i].object.status)
<1>1. ASSUME NEW k \in Jobs PROVE WithinBudget(k, jobs'[k].status)
    <2>1. CASE k = j
        BY <2>1 DEF StoreJob, TypeOK
    <2>2. CASE k # j
        BY <2>2, <1>1 DEF StoreJob, TypeOK, BudgetInv
    <2> QED
        BY <2>1, <2>2
<1>2. ASSUME NEW i \in DOMAIN watch'
      PROVE  WithinBudget(watch'[i].job, watch'[i].object.status)
    <2> DEFINE e == [job |-> j, object |-> o]
    <2>1. watch \in Seq(JobEvent) /\ e \in JobEvent /\ watch' = Append(watch, e)
        BY DEF TypeOK, StoreJob, JobEvent
    <2>2. i \in 1 .. Len(watch) + 1
        BY <1>2, <2>1
    <2>3. CASE i = Len(watch) + 1
        <3>1. watch'[i] = e
            BY <2>1, <2>3
        <3> QED
            BY <3>1
    <2>4. CASE i # Len(watch) + 1
        <3>1. i \in DOMAIN watch /\ watch'[i] = watch[i]
            BY <2>1, <2>2, <2>4
        <3> QED
            BY <3>1 DEF BudgetInv
    <2> QED
        BY <2>3, <2>4
<1> QED
    BY <1>1, <1>2

\* The reconcile steps that only read caches.
LEMMA BeginBudget ==
    ASSUME TypeOK, BudgetInv, NEW j \in Jobs, BeginReconcile(j)
    PROVE  BudgetInv'
<1>1. UNCHANGED <<jobs, watch, cache>>
    BY DEF BeginReconcile, ReconcileGone, ReconcileDeletion,
           ReconcileFinalizer, ReconcileTTL, ReconcileDenied,
           ReconcileAttempt, Dequeue
<1>2. /\ cache[j] \in TrainingJob /\ cache[j].status \in TrainingJobStatus
      /\ WithinBudget(j, cache[j].status)
    BY ObjectType DEF TypeOK, BudgetInv
<1> SUFFICES WorkerBudget'
    BY <1>1 DEF BudgetInv, WorkerBudget
<1>3. CASE UNCHANGED workerVars
    BY <1>3 DEF BudgetInv, WorkerBudget, workerVars
<1>4. CASE ReconcileDeletion(j)
    BY <1>2, <1>4 DEF ReconcileDeletion, Load, WorkerBudget
<1>5. CASE ReconcileFinalizer(j)
    <2>1. job'.status = cache[j].status
        BY <1>2, <1>5 DEF ReconcileFinalizer, Load, TrainingJob
    <2> QED
        BY <1>2, <1>5, <2>1 DEF ReconcileFinalizer, Load, WorkerBudget
<1>6. CASE ReconcileTTL(j)
    BY <1>2, <1>3, <1>6 DEF ReconcileTTL, Load, WorkerBudget
<1>7. CASE ReconcileDenied(j)
    <2>1. job'.status = Park(cache[j].status)
        BY <1>2, <1>7 DEF ReconcileDenied, Load, TrainingJob
    <2>2. WithinBudget(j, Park(cache[j].status))
        BY <1>2, <1>7, StatusBudget DEF ReconcileDenied
    <2> QED
        BY <1>7, <2>1, <2>2 DEF ReconcileDenied, Load, WorkerBudget
<1>8. CASE ReconcileAttempt(j)
    <2>1. job'.status = Granted(cache[j].status)
        BY <1>2, <1>8 DEF ReconcileAttempt, Load, TrainingJob
    <2>2. /\ WithinBudget(j, Granted(cache[j].status))
          /\ ~IsTerminal(Granted(cache[j].status))
        BY <1>2, <1>8, StatusBudget DEF ReconcileAttempt
    <2> QED
        BY <1>8, <2>1, <2>2 DEF ReconcileAttempt, Load, WorkerBudget
<1> QED
    BY <1>3, <1>4, <1>5, <1>6, <1>7, <1>8
    DEF BeginReconcile, ReconcileGone, workerVars

\* The reconcile steps that call the API server.
LEMMA WorkerStepBudget ==
    ASSUME TypeOK, BudgetInv, WorkerStep
    PROVE  BudgetInv'
<1> USE DEF apiVars
<1>1. pc # "idle" /\ req \in Jobs
    BY DEF TypeOK, WorkerStep, DeleteOwnedWorkflows, RemoveFinalizer,
           AddFinalizer, DeleteExpired, GetWorkflow, CreateWorkflow,
           DeleteFailed, StatusUpdate, UpdateQuotaStatus
<1>2. /\ job \in TrainingJob /\ job.status \in TrainingJobStatus
      /\ jobs[req] \in TrainingJob /\ WithinBudget(req, jobs[req].status)
      /\ WithinBudget(req, job.status)
    BY <1>1, ObjectType DEF TypeOK, BudgetInv
<1>3. ASSUME UNCHANGED <<jobs, watch, cache>>, WorkerBudget'
      PROVE  BudgetInv'
    BY <1>3 DEF BudgetInv, WorkerBudget
<1>4. ASSUME NEW o \in TrainingJob, WithinBudget(req, o.status),
             StoreJob(req, o), UNCHANGED cache, WorkerBudget'
      PROVE  BudgetInv'
    <2>1. /\ \A k \in Jobs : WithinBudget(k, jobs'[k].status)
          /\ \A i \in DOMAIN watch' :
                WithinBudget(watch'[i].job, watch'[i].object.status)
        BY <1>1, <1>4, StoreBudget
    <2> QED
        BY <1>4, <2>1 DEF BudgetInv, WorkerBudget
<1>5. ASSUME NEW d, Return(d)
      PROVE  WorkerBudget'
    BY <1>5 DEF Return, Stop, WorkerBudget
<1>6. CASE DeleteOwnedWorkflows
    <2>1. job'.status = job.status
        BY <1>2, <1>6 DEF DeleteOwnedWorkflows, Goto, TrainingJob
    <2>2. WorkerBudget'
        BY <1>2, <1>6, <2>1 DEF DeleteOwnedWorkflows, Goto, WorkerBudget
    <2> QED
        BY <1>3, <1>6, <2>2 DEF DeleteOwnedWorkflows
<1>7. CASE RemoveFinalizer
    <2>1. WorkerBudget'
        BY <1>5, <1>7 DEF RemoveFinalizer
    <2>2. /\ NotFound(job.uid) \in TrainingJob
          /\ WithinBudget(req, NotFound(job.uid).status)
        BY <1>1, <1>2, EmptyBudget, ObjectType, NotFoundType
    <2> QED
        BY <1>3, <1>4, <1>7, <2>1, <2>2 DEF RemoveFinalizer
<1>8. CASE AddFinalizer
    <2>1. WorkerBudget'
        BY <1>5, <1>8 DEF AddFinalizer
    <2> QED
        BY <1>2, <1>3, <1>4, <1>8, <2>1 DEF AddFinalizer
<1>9. CASE DeleteExpired
    <2>1. WorkerBudget'
        BY <1>5, <1>9 DEF DeleteExpired
    <2>2. /\ AfterDelete(jobs[req]) \in TrainingJob
          /\ WithinBudget(req, AfterDelete(jobs[req]).status)
        BY <1>1, <1>2, EmptyBudget, ObjectType DEF AfterDelete, TrainingJob
    <2> QED
        BY <1>3, <1>4, <1>9, <2>1, <2>2 DEF DeleteExpired
<1>10. CASE GetWorkflow
    <2>1. ~IsTerminal(job.status)
        BY <1>10 DEF GetWorkflow, BudgetInv
    <2>2. WorkerBudget'
        <3>1. CASE WorkflowNotFound
            BY <1>2, <2>1, <3>1 DEF WorkflowNotFound, Goto, WorkerBudget
        <3>2. ASSUME NEW w \in workflows, WorkflowActive(w)
              PROVE  WorkerBudget'
            <4>1. [job EXCEPT !.status = Propagate(@)].status
                      = Propagate(job.status)
                BY <1>2 DEF TrainingJob
            <4>2. WithinBudget(req, Propagate(job.status))
                BY <1>1, <1>2, StatusBudget
            <4> QED
                BY <3>2, <1>5, <4>1, <4>2
                DEF WorkflowActive, Goto, WorkerBudget
        <3>3. ASSUME NEW w \in workflows, WorkflowSucceeded(w)
              PROVE  WorkerBudget'
            <4>1. [job EXCEPT !.status = Succeed(@)].status
                      = Succeed(job.status)
                BY <1>2 DEF TrainingJob
            <4>2. WithinBudget(req, Succeed(job.status))
                BY <1>1, <1>2, StatusBudget
            <4> QED
                BY <3>3, <4>1, <4>2
                DEF WorkflowSucceeded, Goto, WorkerBudget
        <3>4. ASSUME NEW w \in workflows, WorkflowFailed(w)
              PROVE  WorkerBudget'
            <4>1. [job EXCEPT !.status = Fail(@)].status = Fail(job.status)
                BY <1>2 DEF TrainingJob
            <4>2. ~MayRetry(req, job.status)
                      => WithinBudget(req, Fail(job.status))
                BY <1>1, <1>2, StatusBudget
            <4> QED
                BY <1>2, <2>1, <3>4, <4>1, <4>2
                DEF WorkflowFailed, Goto, WorkerBudget
        <3> QED
            BY <1>10, <3>1, <3>2, <3>3, <3>4 DEF GetWorkflow
    <2> QED
        BY <1>3, <1>10, <2>2 DEF GetWorkflow
<1>11. CASE CreateWorkflow
    <2>1. ~IsTerminal(job.status)
        BY <1>11 DEF CreateWorkflow, BudgetInv
    <2>2. [job EXCEPT !.status = Submitted(@)].status = Submitted(job.status)
        BY <1>2 DEF TrainingJob
    <2>3. WithinBudget(req, Submitted(job.status))
        BY <1>1, <1>2, <2>1, StatusBudget
    <2>4. WorkerBudget'
        BY <1>5, <1>11, <2>2, <2>3 DEF CreateWorkflow, Goto, WorkerBudget
    <2> QED
        BY <1>3, <1>11, <2>4 DEF CreateWorkflow
<1>12. CASE DeleteFailed
    <2>1. [job EXCEPT !.status = Retry(@)].status = Retry(job.status)
        BY <1>2 DEF TrainingJob
    <2>2. MayRetry(req, job.status)
        BY <1>12 DEF DeleteFailed, BudgetInv
    <2>3. WithinBudget(req, Retry(job.status))
        BY <1>1, <1>2, <2>2, StatusBudget
    <2>4. WorkerBudget'
        BY <1>12, <2>1, <2>3 DEF DeleteFailed, Goto, WorkerBudget
    <2> QED
        BY <1>3, <1>12, <2>4 DEF DeleteFailed
<1>13. CASE StatusUpdate
    <2>1. WorkerBudget'
        <3>1. WithinBudget(req, NotFound(0).status)
            BY <1>1, EmptyBudget
        <3> QED
            BY <1>5, <1>13, <3>1 DEF StatusUpdate, WorkerBudget
    <2>2. /\ [jobs[req] EXCEPT !.status = job.status] \in TrainingJob
          /\ [jobs[req] EXCEPT !.status = job.status].status = job.status
        BY <1>2, ObjectType DEF TrainingJob
    <2> QED
        BY <1>2, <1>3, <1>4, <1>13, <2>1, <2>2 DEF StatusUpdate
<1>14. CASE UpdateQuotaStatus
    BY <1>3, <1>5, <1>14 DEF UpdateQuotaStatus
<1> QED
    BY <1>6, <1>7, <1>8, <1>9, <1>10, <1>11, <1>12, <1>13, <1>14
    DEF WorkerStep

\* Faults, users, Argo, informers and clocks.
LEMMA EnvironmentBudget ==
    ASSUME TypeOK, BudgetInv, Next,
           ~WorkerStep, \A j \in Jobs : ~BeginReconcile(j)
    PROVE  BudgetInv'
<1> USE DEF apiVars
<1>1. ASSUME UNCHANGED <<jobs, watch, cache, pc, req, job>>
      PROVE  BudgetInv'
    BY <1>1 DEF BudgetInv
<1>2. ASSUME NEW j \in Jobs, NEW o \in TrainingJob,
             WithinBudget(j, o.status), StoreJob(j, o),
             UNCHANGED <<cache, pc, req, job>>
      PROVE  BudgetInv'
    <2>1. /\ \A k \in Jobs : WithinBudget(k, jobs'[k].status)
          /\ \A i \in DOMAIN watch' :
                WithinBudget(watch'[i].job, watch'[i].object.status)
        BY <1>2, StoreBudget
    <2> QED
        BY <1>2, <2>1 DEF BudgetInv
<1>3. CASE ApiFails
    BY <1>3 DEF ApiFails, Return, Stop, BudgetInv
<1>4. CASE Crash
    <2>1. watch' = <<>>
        BY <1>4 DEF Crash
    <2>2. DOMAIN watch' = {}
        BY <2>1
    <2> QED
        BY <1>4, <2>2 DEF Crash, Stop, BudgetInv
<1>5. ASSUME NEW w \in workflows, VanishWorkflow(w)
      PROVE  BudgetInv'
    BY <1>1, <1>5 DEF VanishWorkflow, workerVars
<1>6. ASSUME NEW j \in Jobs, CreateJob(j)
      PROVE  BudgetInv'
    <2> DEFINE o == [NotFound(jobs[j].uid + 1) EXCEPT !.exists = TRUE]
    <2>1. o \in TrainingJob
        <3>1. jobs[j].uid \in Nat
            BY ObjectType DEF TypeOK
        <3>2. jobs[j].uid + 1 \in Nat
            BY <3>1
        <3> QED
            BY <3>2, NotFoundType
    <2>2. o.status = NotFound(jobs[j].uid + 1).status
        BY DEF NotFound
    <2>3. WithinBudget(j, o.status)
        BY <2>2, EmptyBudget
    <2> HIDE DEF o
    <2>4. StoreJob(j, o) /\ UNCHANGED <<cache, pc, req, job>>
        BY <1>6 DEF CreateJob, UserWritesJob, o
    <2> QED
        BY <1>2, <2>1, <2>3, <2>4
<1>7. ASSUME NEW j \in Jobs, DeleteJob(j)
      PROVE  BudgetInv'
    <2>1. jobs[j] \in TrainingJob /\ WithinBudget(j, jobs[j].status)
        BY DEF TypeOK, BudgetInv
    <2>2. /\ AfterDelete(jobs[j]) \in TrainingJob
          /\ WithinBudget(j, AfterDelete(jobs[j]).status)
        BY <2>1, EmptyBudget, ObjectType DEF AfterDelete, TrainingJob
    <2> QED
        BY <1>2, <1>7, <2>2 DEF DeleteJob, UserWritesJob
<1>8. CASE EditQuota
    BY <1>1, <1>8 DEF EditQuota, workerVars
<1>9. ASSUME NEW w \in workflows, ArgoStarts(w) \/ ArgoEnds(w)
      PROVE  BudgetInv'
    BY <1>1, <1>9 DEF ArgoStarts, ArgoEnds, SetWorkflowPhase, workerVars
<1>10. CASE DeliverJob
    <2>1. watch \in Seq(JobEvent) /\ watch # <<>>
        BY <1>10 DEF DeliverJob, TypeOK
    <2>2. 1 \in DOMAIN watch /\ Head(watch) = watch[1]
        BY <2>1
    <2>3. /\ Head(watch).job \in Jobs
          /\ WithinBudget(Head(watch).job, Head(watch).object.status)
        <3>1. WithinBudget(watch[1].job, watch[1].object.status)
            BY <2>2 DEF BudgetInv
        <3>2. watch[1] \in JobEvent
            BY <2>1
        <3>3. Head(watch).job \in Jobs
            BY <2>2, <3>2 DEF JobEvent
        <3> QED
            BY <2>2, <3>1, <3>3
    <2>4. ASSUME NEW k \in Jobs PROVE WithinBudget(k, cache'[k].status)
        <3>1. CASE k = Head(watch).job
            BY <1>10, <2>3, <3>1 DEF DeliverJob, TypeOK
        <3>2. CASE k # Head(watch).job
            BY <1>10, <2>4, <3>2 DEF DeliverJob, TypeOK, BudgetInv
        <3> QED
            BY <3>1, <3>2
    <2>5. ASSUME NEW i \in DOMAIN watch'
          PROVE  WithinBudget(watch'[i].job, watch'[i].object.status)
        <3>1. i + 1 \in DOMAIN watch /\ watch'[i] = watch[i + 1]
            BY <1>10, <2>1, <2>5 DEF DeliverJob
        <3> QED
            BY <3>1 DEF BudgetInv
    <2> QED
        BY <1>10, <2>4, <2>5 DEF DeliverJob, workerVars, BudgetInv
<1>11. ASSUME NEW j \in Jobs, DeliverWorkflowEvent(j)
       PROVE  BudgetInv'
    BY <1>1, <1>11 DEF DeliverWorkflowEvent, workerVars
<1>12. CASE DeliverQuota
    BY <1>1, <1>12 DEF DeliverQuota, workerVars
<1>13. ASSUME NEW j \in Jobs, ElapseTTL(j) \/ TimerFires(j)
       PROVE  BudgetInv'
    BY <1>1, <1>13 DEF ElapseTTL, TimerFires, workerVars
<1> QED
    BY <1>3, <1>4, <1>5, <1>6, <1>7, <1>8, <1>9, <1>10, <1>11, <1>12, <1>13
    DEF Next, OperatorNext

\* Every copy of a status stays within the budget.
THEOREM BudgetInvariant == Spec => []BudgetInv
<1>1. Init => BudgetInv
    <2> SUFFICES ASSUME Init PROVE BudgetInv
        OBVIOUS
    <2>1. \A j \in Jobs : WithinBudget(j, NotFound(0).status)
        BY EmptyBudget
    <2>2. watch = <<>>
        BY DEF Init
    <2>3. DOMAIN watch = {}
        BY <2>2
    <2> QED
        BY <2>1, <2>3 DEF Init, BudgetInv
<1>2. TypeOK /\ BudgetInv /\ [Next]_vars => BudgetInv'
    <2> SUFFICES ASSUME TypeOK, BudgetInv, [Next]_vars PROVE BudgetInv'
        OBVIOUS
    <2>1. CASE WorkerStep
        BY <2>1, WorkerStepBudget
    <2>2. ASSUME NEW j \in Jobs, BeginReconcile(j) PROVE BudgetInv'
        BY <2>2, BeginBudget
    <2>3. CASE UNCHANGED vars
        BY <2>3 DEF vars, BudgetInv
    <2> QED
        BY <2>1, <2>2, <2>3, EnvironmentBudget
<1> QED
    BY <1>1, <1>2, TypeCorrect, PTL DEF Spec

\* The operator never counts more than backoffLimit + 1 attempts, and gives a
\* job up only when all of them are used, whatever copies it worked from.
THEOREM RetryBudgetHolds == Spec => []RetryBudget
<1>1. BudgetInv => RetryBudget
    BY DEF BudgetInv, RetryBudget, WithinBudget
<1> QED
    BY <1>1, BudgetInvariant, PTL

-----------------------------------------------------------------------------
(* The watch stream.                                                       *)

\* A write keeps the stream in step with the store.
LEMMA StoreStream ==
    ASSUME TypeOK, StreamInv, NEW j \in Jobs, NEW o \in TrainingJob,
           StoreJob(j, o), UNCHANGED cache
    PROVE  StreamInv'
<1> DEFINE e == [job |-> j, object |-> o]
<1>1. watch \in Seq(JobEvent) /\ e \in JobEvent /\ watch' = Append(watch, e)
    BY DEF TypeOK, StoreJob, JobEvent
<1>2. jobs'[j] = o /\ \A k \in Jobs : k # j => jobs'[k] = jobs[k]
    BY DEF StoreJob, TypeOK
<1>3. /\ DOMAIN watch = 1 .. Len(watch)
      /\ DOMAIN watch' = 1 .. Len(watch) + 1
      /\ Len(watch) \in Nat
      /\ watch'[Len(watch) + 1] = e
      /\ \A i \in DOMAIN watch : watch'[i] = watch[i]
    BY <1>1
<1>4. e.job = j /\ e.object = o
    OBVIOUS
<1> HIDE DEF e
<1>5. ASSUME NEW k \in Jobs, \A i \in DOMAIN watch' : watch'[i].job # k
      PROVE  cache'[k] = jobs'[k]
    <2>1. k # j
        BY <1>3, <1>4, <1>5
    <2>2. \A i \in DOMAIN watch : watch[i].job # k
        <3> TAKE i \in DOMAIN watch
        <3>1. i \in DOMAIN watch' /\ watch'[i] = watch[i]
            BY <1>3
        <3> QED
            BY <1>5, <3>1
    <2> QED
        BY <1>2, <2>1, <2>2 DEF StreamInv, CacheCurrent
<1>6. ASSUME NEW i \in DOMAIN watch',
             \A k \in DOMAIN watch' : k > i => watch'[k].job # watch'[i].job
      PROVE  watch'[i].object = jobs'[watch'[i].job]
    <2>1. CASE i = Len(watch) + 1
        BY <1>2, <1>3, <1>4, <2>1
    <2>2. CASE i # Len(watch) + 1
        <3>1. i \in DOMAIN watch /\ watch'[i] = watch[i]
            BY <1>3, <2>2
        <3>2. Len(watch) + 1 \in DOMAIN watch' /\ Len(watch) + 1 > i
            BY <1>3, <3>1
        <3>3. watch[i].job # j
            BY <1>3, <1>4, <1>6, <3>1, <3>2
        <3>4. \A k \in DOMAIN watch : k > i => watch[k].job # watch[i].job
            <4> TAKE k \in DOMAIN watch
            <4>1. k \in DOMAIN watch' /\ watch'[k] = watch[k]
                BY <1>3
            <4> QED
                BY <1>6, <3>1, <4>1
        <3>5. watch[i].object = jobs[watch[i].job]
            BY <3>1, <3>4 DEF StreamInv
        <3>6. watch[i] \in JobEvent
            BY <1>1, <3>1
        <3>7. watch[i].job \in Jobs
            BY <3>6 DEF JobEvent
        <3> QED
            BY <1>2, <3>1, <3>3, <3>5, <3>7
    <2> QED
        BY <2>1, <2>2
<1> QED
    BY <1>5, <1>6 DEF StreamInv, CacheCurrent

\* The informer's step keeps it, too.
LEMMA DeliverStream ==
    ASSUME TypeOK, StreamInv, DeliverJob
    PROVE  StreamInv'
<1>1. watch \in Seq(JobEvent) /\ watch # <<>> /\ watch' = Tail(watch)
    BY DEF TypeOK, DeliverJob
<1>2. /\ Len(watch) \in Nat /\ 1 <= Len(watch)
      /\ DOMAIN watch = 1 .. Len(watch)
      /\ DOMAIN watch' = 1 .. Len(watch) - 1
      /\ Head(watch) = watch[1]
      /\ \A i \in DOMAIN watch' : watch'[i] = watch[i + 1]
    BY <1>1
<1>3. ASSUME NEW i \in DOMAIN watch
      PROVE  watch[i].job \in Jobs
    <2>1. watch[i] \in JobEvent
        BY <1>1, <1>3
    <2> QED
        BY <2>1 DEF JobEvent
<1>4. UNCHANGED jobs
    BY DEF DeliverJob
<1>5. ASSUME NEW i \in DOMAIN watch, i > 1
      PROVE  i - 1 \in DOMAIN watch' /\ watch'[i - 1] = watch[i]
    <2>1. i \in Int /\ i - 1 \in 1 .. Len(watch) - 1 /\ (i - 1) + 1 = i
        BY <1>2, <1>5
    <2> QED
        BY <1>2, <2>1
<1>6. ASSUME NEW k \in Jobs, \A i \in DOMAIN watch' : watch'[i].job # k
      PROVE  cache'[k] = jobs'[k]
    <2>1. \A i \in DOMAIN watch : i > 1 => watch[i].job # k
        <3> TAKE i \in DOMAIN watch
        <3> HAVE i > 1
        <3> QED
            BY <1>5, <1>6
    <2>2. 1 \in DOMAIN watch
        BY <1>2
    <2>3. CASE watch[1].job = k
        <3>1. watch[1].object = jobs[k]
            BY <2>1, <2>2, <2>3 DEF StreamInv
        <3>2. cache'[k] = watch[1].object
            BY <1>2, <2>3 DEF DeliverJob, TypeOK
        <3> QED
            BY <1>4, <3>1, <3>2
    <2>4. CASE watch[1].job # k
        <3>1. \A i \in DOMAIN watch : watch[i].job # k
            <4> TAKE i \in DOMAIN watch
            <4>1. i = 1 \/ i > 1
                BY <1>2
            <4> QED
                BY <2>1, <2>4, <4>1
        <3>2. cache'[k] = cache[k]
            BY <1>2, <1>6, <2>4 DEF DeliverJob, TypeOK
        <3> QED
            BY <1>4, <3>1, <3>2 DEF StreamInv, CacheCurrent
    <2> QED
        BY <2>3, <2>4
<1>7. ASSUME NEW i \in DOMAIN watch',
             \A k \in DOMAIN watch' : k > i => watch'[k].job # watch'[i].job
      PROVE  watch'[i].object = jobs'[watch'[i].job]
    <2>1. i + 1 \in DOMAIN watch /\ watch'[i] = watch[i + 1] /\ i \in Nat /\ i >= 1
        BY <1>2
    <2>2. \A k \in DOMAIN watch : k > i + 1 => watch[k].job # watch[i + 1].job
        <3> TAKE k \in DOMAIN watch
        <3> HAVE k > i + 1
        <3>1. k > 1 /\ k - 1 > i
            BY <1>2, <2>1
        <3>2. k - 1 \in DOMAIN watch' /\ watch'[k - 1] = watch[k]
            BY <1>5, <3>1
        <3> QED
            BY <1>7, <2>1, <3>1, <3>2
    <2>3. watch[i + 1].object = jobs[watch[i + 1].job]
        BY <2>1, <2>2 DEF StreamInv
    <2> QED
        BY <1>4, <2>1, <2>3
<1> QED
    BY <1>6, <1>7 DEF StreamInv, CacheCurrent

-----------------------------------------------------------------------------
(* Finished jobs.                                                          *)

StableInv == StreamInv /\ CopyInv /\ GoneInv

\* The step leaves j as it finished, if it had.
StaysFinished(j) ==
    IsTerminal(jobs[j].status) =>
        \/ jobs'[j].status = jobs[j].status
        \/ ~jobs'[j].exists

\* A version of a free name is not finished.
LEMMA NotFoundFinished ==
    ASSUME NEW u
    PROVE  /\ ~NotFound(u).exists
           /\ ~IsTerminal(NotFound(u).status)
           /\ [NotFound(u) EXCEPT !.exists = TRUE].status = NotFound(u).status
           /\ [NotFound(u) EXCEPT !.exists = TRUE].exists
BY DEF NotFound, EmptyStatus, IsTerminal

\* A write that respects the finished version of its own job.
LEMMA StoreFinished ==
    ASSUME TypeOK, StreamInv, GoneInv, NEW j \in Jobs, NEW o \in TrainingJob,
           StoreJob(j, o), UNCHANGED cache,
           ~o.exists => ~IsTerminal(o.status),
           IsTerminal(jobs[j].status) =>
               o.status = jobs[j].status \/ ~o.exists
    PROVE  /\ StreamInv' /\ GoneInv'
           /\ \A k \in Jobs : StaysFinished(k)
<1>1. StreamInv'
    BY StoreStream
<1>2. jobs'[j] = o /\ \A k \in Jobs : k # j => jobs'[k] = jobs[k]
    BY DEF StoreJob, TypeOK
<1>3. GoneInv'
    BY <1>2 DEF GoneInv
<1>4. \A k \in Jobs : StaysFinished(k)
    BY <1>2 DEF StaysFinished
<1> QED
    BY <1>1, <1>3, <1>4

\* A step that writes no TrainingJob and delivers none.
LEMMA NoWriteFinished ==
    ASSUME StreamInv, GoneInv, UNCHANGED <<jobs, watch, cache>>
    PROVE  /\ StreamInv' /\ GoneInv'
           /\ \A k \in Jobs : StaysFinished(k)
<1>1. StreamInv' /\ GoneInv'
    BY DEF StreamInv, CacheCurrent, GoneInv
<1> QED
    BY <1>1 DEF StaysFinished

\* The reconcile steps that only read caches.
LEMMA BeginStable ==
    ASSUME TypeOK, StableInv, NEW j \in Jobs, BeginReconcile(j)
    PROVE  StableInv' /\ \A k \in Jobs : StaysFinished(k)
<1>1. UNCHANGED <<jobs, watch, cache>>
    BY DEF BeginReconcile, ReconcileGone, ReconcileDeletion,
           ReconcileFinalizer, ReconcileTTL, ReconcileDenied,
           ReconcileAttempt, Dequeue
<1>2. cache[j] \in TrainingJob /\ (CacheCurrent(j) => cache[j] = jobs[j])
    BY DEF TypeOK, StableInv, StreamInv
<1> SUFFICES CopyInv'
    BY <1>1, NoWriteFinished DEF StableInv
<1>3. CASE UNCHANGED workerVars
    BY <1>1, <1>3 DEF StableInv, CopyInv, workerVars
<1>4. CASE ReconcileDeletion(j)
    BY <1>1, <1>2, <1>4 DEF ReconcileDeletion, Load, CopyInv
<1>5. CASE ReconcileFinalizer(j)
    <2>1. job'.status = cache[j].status /\ job'.exists = cache[j].exists
        BY <1>2, <1>5 DEF ReconcileFinalizer, Load, TrainingJob
    <2> QED
        BY <1>1, <1>2, <1>5, <2>1 DEF ReconcileFinalizer, Load, CopyInv
<1>6. CASE ReconcileTTL(j)
    BY <1>1, <1>2, <1>3, <1>6 DEF ReconcileTTL, IsActive, Load, CopyInv
<1>7. CASE ReconcileDenied(j)
    <2>1. ~IsTerminal(cache[j].status)
        BY <1>7 DEF ReconcileDenied, NeedsQuota, IsTerminal
    <2> QED
        BY <1>1, <1>2, <1>7, <2>1 DEF ReconcileDenied, IsActive, Load, CopyInv
<1>8. CASE ReconcileAttempt(j)
    BY <1>1, <1>2, <1>8 DEF ReconcileAttempt, IsActive, Load, CopyInv
<1> QED
    BY <1>3, <1>4, <1>5, <1>6, <1>7, <1>8
    DEF BeginReconcile, ReconcileGone, workerVars

\* The reconcile steps that call the API server.
LEMMA WorkerStable ==
    ASSUME TypeOK, StableInv, WorkerStep
    PROVE  StableInv' /\ \A k \in Jobs : StaysFinished(k)
<1> USE DEF apiVars
<1>1. pc # "idle" /\ req \in Jobs
    BY DEF TypeOK, WorkerStep, DeleteOwnedWorkflows, RemoveFinalizer,
           AddFinalizer, DeleteExpired, GetWorkflow, CreateWorkflow,
           DeleteFailed, StatusUpdate, UpdateQuotaStatus
<1>2. /\ job \in TrainingJob /\ job.status \in TrainingJobStatus
      /\ jobs[req] \in TrainingJob /\ job.uid \in Nat
    BY <1>1, ObjectType DEF TypeOK
<1>3. ASSUME UNCHANGED <<jobs, watch, cache>>, CopyInv'
      PROVE  StableInv' /\ \A k \in Jobs : StaysFinished(k)
    BY <1>3, NoWriteFinished DEF StableInv
<1>4. ASSUME NEW o \in TrainingJob, StoreJob(req, o), UNCHANGED cache,
             ~o.exists => ~IsTerminal(o.status),
             IsTerminal(jobs[req].status) =>
                 o.status = jobs[req].status \/ ~o.exists,
             CopyInv'
      PROVE  StableInv' /\ \A k \in Jobs : StaysFinished(k)
    BY <1>1, <1>4, StoreFinished DEF StableInv
<1>5. ASSUME NEW d, Return(d)
      PROVE  CopyInv'
    BY <1>5 DEF Return, Stop, CopyInv
<1>6. CASE DeleteOwnedWorkflows
    <2>1. CopyInv'
        BY <1>1, <1>6 DEF DeleteOwnedWorkflows, Goto, StableInv, CopyInv
    <2> QED
        BY <1>3, <1>6, <2>1 DEF DeleteOwnedWorkflows
<1>7. CASE RemoveFinalizer
    <2>1. CopyInv'
        BY <1>5, <1>7 DEF RemoveFinalizer
    <2>2. /\ NotFound(job.uid) \in TrainingJob
          /\ ~NotFound(job.uid).exists
          /\ ~IsTerminal(NotFound(job.uid).status)
        BY <1>2, NotFoundType, NotFoundFinished
    <2> QED
        BY <1>3, <1>4, <1>7, <2>1, <2>2 DEF RemoveFinalizer
<1>8. CASE AddFinalizer
    <2>1. CopyInv'
        BY <1>5, <1>8 DEF AddFinalizer
    <2>2. current => job.exists /\ job.status = jobs[req].status
        BY <1>8 DEF AddFinalizer, StableInv, CopyInv
    <2> QED
        BY <1>2, <1>3, <1>4, <1>8, <2>1, <2>2 DEF AddFinalizer
<1>9. CASE DeleteExpired
    <2>1. CopyInv'
        BY <1>5, <1>9 DEF DeleteExpired
    <2> DEFINE o == AfterDelete(jobs[req])
    <2>2. o \in TrainingJob
        BY <1>2, ObjectType
    <2>3. CASE ~(jobs[req].exists /\ ~jobs[req].deleting)
        BY <1>3, <1>9, <2>1, <2>3 DEF DeleteExpired
    <2>4. CASE jobs[req].exists /\ ~jobs[req].deleting
        <3>1. \/ o.exists /\ o.status = jobs[req].status
              \/ ~o.exists /\ ~IsTerminal(o.status)
            BY <1>2, <2>4, NotFoundFinished DEF AfterDelete, TrainingJob
        <3> HIDE DEF o
        <3>2. StoreJob(req, o) /\ UNCHANGED cache
            BY <1>9, <2>4 DEF DeleteExpired, o
        <3> QED
            BY <1>4, <2>1, <2>2, <3>1, <3>2
    <2> QED
        BY <2>3, <2>4
<1>10. CASE GetWorkflow
    <2>1. CopyInv'
        <3>1. ASSUME NEW label \in {"createWorkflow", "deleteFailed",
                                    "statusUpdate"},
                     NEW o, NEW r, Goto(label, o, r)
              PROVE  CopyInv'
            BY <1>1, <1>10, <3>1 DEF GetWorkflow, Goto, StableInv, CopyInv
        <3> QED
            BY <1>5, <1>10, <3>1
            DEF GetWorkflow, WorkflowNotFound, WorkflowActive,
                WorkflowSucceeded, WorkflowFailed
    <2> QED
        BY <1>3, <1>10, <2>1 DEF GetWorkflow
<1>11. CASE CreateWorkflow
    <2>1. CASE \E d : Return(d)
        BY <1>3, <1>5, <1>11, <2>1 DEF CreateWorkflow
    <2>2. CASE \E o, r : Goto("statusUpdate", o, r)
        <3>1. CopyInv'
            BY <1>1, <1>11, <2>2 DEF CreateWorkflow, Goto, StableInv, CopyInv
        <3> QED
            BY <1>3, <1>11, <3>1 DEF CreateWorkflow
    <2> QED
        BY <1>11, <2>1, <2>2 DEF CreateWorkflow
<1>12. CASE DeleteFailed
    <2>1. CopyInv'
        BY <1>1, <1>12 DEF DeleteFailed, Goto, StableInv, CopyInv
    <2> QED
        BY <1>3, <1>12, <2>1 DEF DeleteFailed
<1>13. CASE StatusUpdate
    <2>1. CopyInv'
        BY <1>5, <1>13 DEF StatusUpdate, CopyInv
    <2>2. current => jobs[req].exists /\ ~IsTerminal(jobs[req].status)
        BY <1>1, <1>13 DEF StatusUpdate, StableInv, CopyInv
    <2> DEFINE o == [jobs[req] EXCEPT !.status = job.status]
    <2>3. o \in TrainingJob /\ o.exists = jobs[req].exists
        BY <1>2, ObjectType DEF TrainingJob
    <2> HIDE DEF o
    <2>4. \/ UNCHANGED <<jobs, watch, cache>>
          \/ current /\ StoreJob(req, o) /\ UNCHANGED cache
        BY <1>13 DEF StatusUpdate, o
    <2> QED
        BY <1>3, <1>4, <2>1, <2>2, <2>3, <2>4
<1>14. CASE UpdateQuotaStatus
    BY <1>3, <1>5, <1>14 DEF UpdateQuotaStatus
<1> QED
    BY <1>6, <1>7, <1>8, <1>9, <1>10, <1>11, <1>12, <1>13, <1>14
    DEF WorkerStep

\* Faults, users, Argo, informers and clocks.
LEMMA EnvironmentStable ==
    ASSUME TypeOK, StableInv, Next,
           ~WorkerStep, \A j \in Jobs : ~BeginReconcile(j)
    PROVE  StableInv' /\ \A k \in Jobs : StaysFinished(k)
<1> USE DEF apiVars
<1>1. ASSUME UNCHANGED <<jobs, watch, cache, workerVars>>
      PROVE  StableInv' /\ \A k \in Jobs : StaysFinished(k)
    <2>1. CopyInv'
        BY <1>1 DEF StableInv, CopyInv, workerVars
    <2> QED
        BY <1>1, <2>1, NoWriteFinished DEF StableInv
<1>2. ASSUME NEW j \in Jobs, NEW o \in TrainingJob, UserWritesJob(j, o),
             UNCHANGED <<cache, pc, req, job>>,
             ~o.exists => ~IsTerminal(o.status),
             IsTerminal(jobs[j].status) =>
                 o.status = jobs[j].status \/ ~o.exists
      PROVE  StableInv' /\ \A k \in Jobs : StaysFinished(k)
    <2>1. StreamInv' /\ GoneInv' /\ \A k \in Jobs : StaysFinished(k)
        BY <1>2, StoreFinished DEF UserWritesJob, StableInv
    <2>2. (current' /\ pc # "idle") => current /\ jobs'[req] = jobs[req]
        BY <1>2 DEF UserWritesJob, StoreJob, TypeOK
    <2>3. CopyInv'
        BY <1>2, <2>2 DEF StableInv, CopyInv
    <2> QED
        BY <2>1, <2>3 DEF StableInv
<1>3. CASE ApiFails
    <2>1. CopyInv'
        BY <1>3 DEF ApiFails, Return, Stop, CopyInv
    <2> QED
        BY <1>3, <2>1, NoWriteFinished DEF ApiFails, StableInv
<1>4. CASE Crash
    <2>1. UNCHANGED jobs /\ cache' = jobs /\ watch' = <<>>
        BY <1>4 DEF Crash
    <2>2. DOMAIN watch' = {}
        BY <2>1
    <2>3. StreamInv'
        BY <2>1, <2>2 DEF StreamInv
    <2>4. CopyInv' /\ GoneInv'
        BY <1>4, <2>1 DEF Crash, Stop, StableInv, CopyInv, GoneInv
    <2> QED
        BY <2>1, <2>3, <2>4 DEF StableInv, StaysFinished
<1>5. ASSUME NEW w \in workflows, VanishWorkflow(w)
      PROVE  StableInv' /\ \A k \in Jobs : StaysFinished(k)
    BY <1>1, <1>5 DEF VanishWorkflow
<1>6. ASSUME NEW j \in Jobs, CreateJob(j)
      PROVE  StableInv' /\ \A k \in Jobs : StaysFinished(k)
    <2> DEFINE o == [NotFound(jobs[j].uid + 1) EXCEPT !.exists = TRUE]
    <2>1. o \in TrainingJob
        <3>1. jobs[j].uid \in Nat
            BY ObjectType DEF TypeOK
        <3>2. jobs[j].uid + 1 \in Nat
            BY <3>1
        <3> QED
            BY <3>2, NotFoundType
    <2>2. o.exists
        BY NotFoundFinished
    <2> HIDE DEF o
    <2>3. ~IsTerminal(jobs[j].status)
        BY <1>6 DEF CreateJob, StableInv, GoneInv
    <2>4. UserWritesJob(j, o) /\ UNCHANGED <<cache, pc, req, job>>
        BY <1>6 DEF CreateJob, o
    <2> QED
        BY <1>2, <1>6, <2>1, <2>2, <2>3, <2>4
<1>7. ASSUME NEW j \in Jobs, DeleteJob(j)
      PROVE  StableInv' /\ \A k \in Jobs : StaysFinished(k)
    <2> DEFINE o == AfterDelete(jobs[j])
    <2>1. o \in TrainingJob /\ jobs[j] \in TrainingJob
        BY ObjectType DEF TypeOK
    <2>2. \/ o.exists /\ o.status = jobs[j].status
          \/ ~o.exists /\ ~IsTerminal(o.status)
        BY <1>7, <2>1, NotFoundFinished DEF DeleteJob, AfterDelete, TrainingJob
    <2> HIDE DEF o
    <2>3. UserWritesJob(j, o) /\ UNCHANGED <<cache, pc, req, job>>
        BY <1>7 DEF DeleteJob, o
    <2> QED
        BY <1>2, <1>7, <2>1, <2>2, <2>3
<1>8. CASE EditQuota
    BY <1>1, <1>8 DEF EditQuota
<1>9. ASSUME NEW w \in workflows, ArgoStarts(w) \/ ArgoEnds(w)
      PROVE  StableInv' /\ \A k \in Jobs : StaysFinished(k)
    BY <1>1, <1>9 DEF ArgoStarts, ArgoEnds, SetWorkflowPhase
<1>10. CASE DeliverJob
    <2>1. StreamInv'
        BY <1>10, DeliverStream DEF StableInv
    <2>2. UNCHANGED <<jobs, workerVars>>
        BY <1>10 DEF DeliverJob
    <2>3. CopyInv' /\ GoneInv'
        BY <2>2 DEF StableInv, CopyInv, GoneInv, workerVars
    <2> QED
        BY <2>1, <2>2, <2>3 DEF StableInv, StaysFinished
<1>11. ASSUME NEW j \in Jobs, DeliverWorkflowEvent(j)
       PROVE  StableInv' /\ \A k \in Jobs : StaysFinished(k)
    BY <1>1, <1>11 DEF DeliverWorkflowEvent
<1>12. CASE DeliverQuota
    BY <1>1, <1>12 DEF DeliverQuota
<1>13. ASSUME NEW j \in Jobs, ElapseTTL(j) \/ TimerFires(j)
       PROVE  StableInv' /\ \A k \in Jobs : StaysFinished(k)
    BY <1>1, <1>13 DEF ElapseTTL, TimerFires
<1> QED
    BY <1>3, <1>4, <1>5, <1>6, <1>7, <1>8, <1>9, <1>10, <1>11, <1>12, <1>13
    DEF Next, OperatorNext

\* One step, whoever takes it.
LEMMA StepStable ==
    ASSUME TypeOK, StableInv, [Next]_vars
    PROVE  StableInv' /\ \A j \in Jobs : StaysFinished(j)
<1>1. CASE WorkerStep
    BY <1>1, WorkerStable
<1>2. ASSUME NEW j \in Jobs, BeginReconcile(j)
      PROVE  StableInv' /\ \A k \in Jobs : StaysFinished(k)
    BY <1>2, BeginStable
<1>3. CASE UNCHANGED vars
    BY <1>3 DEF vars, StableInv, StreamInv, CacheCurrent, CopyInv, GoneInv,
                StaysFinished
<1> QED
    BY <1>1, <1>2, <1>3, EnvironmentStable

\* Nothing stored is newer than the last event on its way, and a copy that
\* passes the resourceVersion check was not read from a finished job.
THEOREM StableInvariant == Spec => []StableInv
<1>1. Init => StableInv
    <2> SUFFICES ASSUME Init PROVE StableInv
        OBVIOUS
    <2>1. watch = <<>> /\ cache = jobs
        BY DEF Init
    <2>2. DOMAIN watch = {}
        BY <2>1
    <2>3. \A j \in Jobs : ~IsTerminal(jobs[j].status)
        BY NotFoundFinished DEF Init
    <2> QED
        BY <2>1, <2>2, <2>3 DEF Init, StableInv, StreamInv, CopyInv, GoneInv
<1>2. TypeOK /\ StableInv /\ [Next]_vars => StableInv'
    BY StepStable
<1> QED
    BY <1>1, <1>2, TypeCorrect, PTL DEF Spec

\* A finished job stays as it finished until it is gone, however stale the
\* caches and whatever is retried: the precondition of Status().Update
\* suffices.
THEOREM TerminalStableHolds == Spec => TerminalStable
<1>1. TypeOK /\ StableInv /\ [Next]_vars =>
          [\A j \in Jobs :
              IsTerminal(jobs[j].status) =>
                  \/ jobs'[j].status = jobs[j].status
                  \/ ~jobs'[j].exists]_vars
    BY StepStable DEF StaysFinished
<1> QED
    BY <1>1, TypeCorrect, StableInvariant, PTL DEF Spec, TerminalStable
=============================================================================
