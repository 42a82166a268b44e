----------------------- MODULE TrainingJobGuardProofs -----------------------
(***************************************************************************)
(* What the finalizer and the version check together guarantee, for any    *)
(* number of jobs, whatever the caches lag behind and whatever fails: no   *)
(* orphaned and no colliding Workflow, no wrong TTL delete, no model that  *)
(* is not there, no lost wakeup, and the lifecycle of a job.               *)
(***************************************************************************)
EXTENDS TrainingJobSafetyProofs

-----------------------------------------------------------------------------
(* Copies that are still current.                                          *)

\* What the statuses that the reconciler builds say beside phase and
\* attempts.
LEMMA StatusRest ==
    ASSUME NEW s \in TrainingJobStatus
    PROVE  /\ Granted(s).workflowName = s.workflowName
           /\ Propagate(s).workflowName = Attempt(s)
           /\ Succeed(s).completionTime /\ Succeed(s).modelURI
           /\ Fail(s).completionTime
<1> USE DEF TrainingJobStatus
<1>1. Granted(s).workflowName = s.workflowName
    BY DEF Granted, setCondition
<1>2. Propagate(s).workflowName = Attempt(s)
    BY DEF Propagate
<1>3. Succeed(s).completionTime /\ Succeed(s).modelURI
    BY DEF Succeed, setCondition
<1>4. Fail(s).completionTime
    BY DEF Fail, setCondition
<1> QED
    BY <1>1, <1>2, <1>3, <1>4

\* A write to j puts an event of j, and of no other job, on its way.
LEMMA StoreEvents ==
    ASSUME TypeOK, NEW j \in Jobs, NEW o \in TrainingJob, StoreJob(j, o)
    PROVE  /\ jobs'[j] = o
           /\ \A k \in Jobs : k # j => jobs'[k] = jobs[k]
           /\ \A k \in Jobs : CacheCurrent(k)' <=> (CacheCurrent(k) /\ k # j)
<1> DEFINE e == [job |-> j, object |-> o]
<1>1. watch \in Seq(JobEvent) /\ e \in JobEvent /\ watch' = Append(watch, e)
    BY DEF TypeOK, StoreJob, JobEvent
<1>2. /\ DOMAIN watch' = 1 .. Len(watch) + 1 /\ DOMAIN watch = 1 .. Len(watch)
      /\ watch'[Len(watch) + 1] = e
      /\ \A i \in DOMAIN watch : i \in DOMAIN watch' /\ watch'[i] = watch[i]
      /\ \A i \in DOMAIN watch' : i \in DOMAIN watch \/ i = Len(watch) + 1
      /\ Len(watch) + 1 \in DOMAIN watch'
    BY <1>1
<1>3. \A k \in Jobs : CacheCurrent(k)' <=> (CacheCurrent(k) /\ k # j)
    BY <1>2 DEF CacheCurrent
<1> QED
    BY <1>3 DEF StoreJob, TypeOK

\* A delivery takes events off the stream and adds none.
LEMMA DeliverEvents ==
    ASSUME TypeOK, DeliverJob
    PROVE  /\ Head(watch) \in JobEvent
           /\ \A k \in Jobs : CacheCurrent(k) => CacheCurrent(k)'
           /\ \A k \in Jobs :
                 CacheCurrent(k)' => CacheCurrent(k) \/ k \in queue'
<1>1. watch \in Seq(JobEvent) /\ watch # <<>> /\ watch' = Tail(watch)
    BY DEF TypeOK, DeliverJob
<1>2. /\ DOMAIN watch = 1 .. Len(watch) /\ Len(watch) \in Nat
      /\ DOMAIN watch' = 1 .. Len(watch) - 1
      /\ Head(watch) = watch[1]
      /\ 1 \in DOMAIN watch
      /\ \A i \in DOMAIN watch' :
            i + 1 \in DOMAIN watch /\ watch'[i] = watch[i + 1]
    BY <1>1
<1>3. Head(watch) \in JobEvent
    BY <1>1
<1>4. \A k \in Jobs : CacheCurrent(k) => CacheCurrent(k)'
    BY <1>2 DEF CacheCurrent
<1>5. ASSUME NEW k \in Jobs, CacheCurrent(k)', ~CacheCurrent(k)
      PROVE  k \in queue'
    <2>1. PICK i \in DOMAIN watch : watch[i].job = k
        BY <1>5 DEF CacheCurrent
    <2>2. i = 1
        <3> SUFFICES ASSUME i # 1 PROVE FALSE
            OBVIOUS
        <3>1. i - 1 \in DOMAIN watch' /\ (i - 1) + 1 = i
            BY <1>2, <2>1
        <3>2. watch'[i - 1] = watch[i]
            BY <1>2, <3>1
        <3> QED
            BY <1>5, <2>1, <3>1, <3>2 DEF CacheCurrent
    <2> QED
        BY <1>2, <2>1, <2>2 DEF DeliverJob
<1> QED
    BY <1>3, <1>4, <1>5

\* The reconcile steps that only read caches.
LEMMA BeginFresh ==
    ASSUME TypeOK, StreamInv, FreshInv, NEW j \in Jobs, BeginReconcile(j)
    PROVE  FreshInv'
<1>1. UNCHANGED <<jobs, watch, cache>>
    BY DEF BeginReconcile, ReconcileGone, ReconcileDeletion,
           ReconcileFinalizer, ReconcileTTL, ReconcileDenied,
           ReconcileAttempt, Dequeue
<1>2. \A k : CacheCurrent(k)' = CacheCurrent(k)
    BY <1>1 DEF CacheCurrent
<1>3. /\ cache[j] \in TrainingJob /\ cache[j].status \in TrainingJobStatus
      /\ CacheCurrent(j) => cache[j] = jobs[j]
    BY ObjectType DEF TypeOK, StreamInv
<1>4. CASE UNCHANGED workerVars
    BY <1>1, <1>2, <1>4 DEF FreshInv, workerVars
<1>5. CASE ReconcileDeletion(j)
    BY <1>1, <1>2, <1>3, <1>5 DEF ReconcileDeletion, Load, FreshInv
<1>6. CASE ReconcileFinalizer(j)
    BY <1>1, <1>2, <1>3, <1>6 DEF ReconcileFinalizer, Load, FreshInv
<1>7. CASE ReconcileTTL(j)
    BY <1>1, <1>2, <1>3, <1>4, <1>7 DEF ReconcileTTL, Load, FreshInv
<1>8. CASE ReconcileDenied(j)
    <2>1. job'.status = Park(cache[j].status)
        BY <1>3, <1>8 DEF ReconcileDenied, Load, TrainingJob
    <2>2. /\ Park(cache[j].status).phase = "Queued"
          /\ Park(cache[j].status).attempts = cache[j].status.attempts
        BY <1>3, StatusFields
    <2>3. ~IsTerminal(cache[j].status) /\ NeedsQuota(cache[j].status)
        BY <1>8 DEF ReconcileDenied, NeedsQuota, IsTerminal
    <2>4. StatusStep(j, cache[j].status, job'.status, "queued")
        BY <2>1, <2>2, <2>3 DEF StatusStep, Outcomes
    <2> QED
        BY <1>1, <1>2, <1>3, <1>8, <2>4 DEF ReconcileDenied, Load, FreshInv
<1>9. CASE ReconcileAttempt(j)
    <2>1. job'.status = Granted(cache[j].status)
        BY <1>3, <1>9 DEF ReconcileAttempt, Load, TrainingJob
    <2>2. /\ job'.status.phase = cache[j].status.phase
          /\ job'.status.attempts = cache[j].status.attempts
          /\ job'.status.workflowName = cache[j].status.workflowName
        BY <1>3, <2>1, StatusFields, StatusRest
    <2> QED
        BY <1>1, <1>2, <1>3, <1>9, <2>2 DEF ReconcileAttempt, Load, FreshInv
<1> QED
    BY <1>4, <1>5, <1>6, <1>7, <1>8, <1>9
    DEF BeginReconcile, ReconcileGone, workerVars

\* The statuses built from an unfinished one that is stored are steps of it.
LEMMA StatusSteps ==
    ASSUME NEW j \in Jobs, NEW r \in TrainingJobStatus, NEW s, ~IsTerminal(s),
           r.phase = s.phase, r.attempts = s.attempts,
           r.workflowName = s.workflowName
    PROVE  /\ (r.phase # "Running" \/ r.workflowName # Attempt(r)) =>
                 StatusStep(j, s, Propagate(r), "propagated")
           /\ StatusStep(j, s, Succeed(r), "finished")
           /\ ~MayRetry(j, r) => StatusStep(j, s, Fail(r), "finished")
           /\ MayRetry(j, r) => StatusStep(j, s, Retry(r), "retrying")
           /\ StatusStep(j, s, Submitted(r), "submitted")
<1> USE DEF StatusStep, Outcomes
<1>1. /\ Attempt(r) = Attempt(s) /\ Creating(r) = Creating(s)
      /\ MayRetry(j, r) <=> MayRetry(j, s)
    BY DEF Attempt, Creating, MayRetry
<1>2. ASSUME r.phase # "Running" \/ r.workflowName # Attempt(r)
      PROVE  StatusStep(j, s, Propagate(r), "propagated")
    <2>1. /\ Propagate(r).phase = "Running"
          /\ Propagate(r).attempts = r.attempts
          /\ Propagate(r).workflowName = Attempt(r)
        BY StatusFields, StatusRest
    <2>2. Propagate(r) # s
        BY <1>2, <2>1
    <2> QED
        BY <2>1, <2>2
<1>3. StatusStep(j, s, Succeed(r), "finished")
    BY StatusFields, StatusRest
<1>4. ~MayRetry(j, r) => StatusStep(j, s, Fail(r), "finished")
    BY <1>1, StatusFields, StatusRest
<1>5. MayRetry(j, r) => StatusStep(j, s, Retry(r), "retrying")
    BY <1>1, StatusFields
<1>6. StatusStep(j, s, Submitted(r), "submitted")
    <2>1. /\ Submitted(r).phase = "Running"
          /\ Submitted(r).attempts =
                IF Creating(r) THEN Attempt(r) ELSE r.attempts
        BY StatusFields
    <2>2. Submitted(r).attempts = Attempt(s)
        BY <1>1, <2>1 DEF Attempt
    <2> QED
        BY <2>1, <2>2
<1> QED
    BY <1>2, <1>3, <1>4, <1>5, <1>6

\* The reconcile steps that call the API server.
LEMMA WorkerFresh ==
    ASSUME TypeOK, FreshInv, WorkerStep
    PROVE  FreshInv'
<1> USE DEF apiVars
<1>1. pc # "idle" /\ req \in Jobs
    BY DEF TypeOK, WorkerStep, DeleteOwnedWorkflows, RemoveFinalizer,
           AddFinalizer, DeleteExpired, GetWorkflow, CreateWorkflow,
           DeleteFailed, StatusUpdate, UpdateQuotaStatus
<1>2. job \in TrainingJob /\ job.status \in TrainingJobStatus
    BY ObjectType DEF TypeOK
<1>3. ASSUME NEW d, Return(d) PROVE FreshInv'
    BY <1>3 DEF Return, Stop, FreshInv
<1>4. ASSUME UNCHANGED watch PROVE \A k : CacheCurrent(k)' = CacheCurrent(k)
    BY <1>4 DEF CacheCurrent
\* A step on, with another status to be written.
<1>5. ASSUME NEW s, NEW path, UNCHANGED <<jobs, watch>>,
             Goto("statusUpdate", [job EXCEPT !.status = s], path),
             current => /\ CacheCurrent(req) /\ IsActive(jobs[req])
                        /\ StatusStep(req, jobs[req].status, s, path)
      PROVE  FreshInv'
    <2>1. [job EXCEPT !.status = s].status = s
        BY <1>2 DEF TrainingJob
    <2>2. /\ pc' = "statusUpdate" /\ req' = req /\ current' = current
          /\ job'.status = s /\ outcome' = path
        BY <1>5, <2>1 DEF Goto
    <2> QED
        BY <1>4, <1>5, <2>2 DEF FreshInv
<1>6. CASE DeleteOwnedWorkflows
    <2>1. [job EXCEPT !.finalizer = FALSE].uid = job.uid
        BY <1>2 DEF TrainingJob
    <2>2. /\ pc = "deleteOwned" /\ pc' = "removeFinalizer" /\ req' = req
          /\ current' = current /\ job'.uid = job.uid
          /\ UNCHANGED <<jobs, watch>>
        BY <1>6, <2>1 DEF DeleteOwnedWorkflows, Goto
    <2> QED
        BY <1>4, <2>2 DEF FreshInv
<1>7. CASE RemoveFinalizer \/ AddFinalizer \/ DeleteExpired
             \/ UpdateQuotaStatus
    BY <1>3, <1>7
    DEF RemoveFinalizer, AddFinalizer, DeleteExpired, UpdateQuotaStatus
<1>8. CASE pc \in {"getWorkflow", "createWorkflow", "deleteFailed"}
    <2>1. current =>
              /\ CacheCurrent(req) /\ IsActive(jobs[req])
              /\ ~IsTerminal(jobs[req].status)
              /\ job.status.phase = jobs[req].status.phase
              /\ job.status.attempts = jobs[req].status.attempts
              /\ job.status.workflowName = jobs[req].status.workflowName
        BY <1>8 DEF FreshInv
    <2>2. CASE GetWorkflow
        <3>1. UNCHANGED <<jobs, watch>> /\ pc = "getWorkflow"
            BY <2>2 DEF GetWorkflow
        <3>2. CASE WorkflowNotFound
            BY <1>4, <2>1, <3>1, <3>2 DEF WorkflowNotFound, Goto, FreshInv
        <3>3. ASSUME NEW w \in workflows, WorkflowActive(w)
              PROVE  FreshInv'
            <4>1. CASE Return("none")
                BY <1>3, <4>1
            <4>2. CASE ~Return("none")
                <5>1. /\ \/ job.status.phase # "Running"
                         \/ job.status.workflowName # Attempt(job.status)
                      /\ Goto("statusUpdate",
                              [job EXCEPT !.status = Propagate(job.status)],
                              "propagated")
                    BY <3>3, <4>2 DEF WorkflowActive
                <5> QED
                    BY <1>1, <1>2, <1>5, <2>1, <3>1, <5>1, StatusSteps
            <4> QED
                BY <4>1, <4>2
        <3>4. ASSUME NEW w \in workflows, WorkflowSucceeded(w)
              PROVE  FreshInv'
            <4>1. Goto("statusUpdate",
                       [job EXCEPT !.status = Succeed(job.status)], "finished")
                BY <3>4 DEF WorkflowSucceeded
            <4> QED
                BY <1>1, <1>2, <1>5, <2>1, <3>1, <4>1, StatusSteps
        <3>5. ASSUME NEW w \in workflows, WorkflowFailed(w)
              PROVE  FreshInv'
            <4>1. CASE MayRetry(req, job.status)
                <5>1. Goto("deleteFailed", job, "none")
                    BY <3>5, <4>1 DEF WorkflowFailed
                <5> QED
                    BY <1>4, <2>1, <3>1, <4>1, <5>1 DEF Goto, FreshInv, MayRetry
            <4>2. CASE ~MayRetry(req, job.status)
                <5>1. Goto("statusUpdate",
                           [job EXCEPT !.status = Fail(job.status)], "finished")
                    BY <3>5, <4>2 DEF WorkflowFailed
                <5> QED
                    BY <1>1, <1>2, <1>5, <2>1, <3>1, <4>2, <5>1, StatusSteps
            <4> QED
                BY <4>1, <4>2
        <3> QED
            BY <2>2, <3>2, <3>3, <3>4, <3>5 DEF GetWorkflow
    <2>3. CASE CreateWorkflow
        <3>1. UNCHANGED <<jobs, watch>>
            BY <2>3 DEF CreateWorkflow
        <3>2. \/ Return("backoff")
              \/ Goto("statusUpdate",
                      [job EXCEPT !.status = Submitted(job.status)],
                      "submitted")
            BY <2>3 DEF CreateWorkflow
        <3> QED
            BY <1>1, <1>2, <1>3, <1>5, <2>1, <3>1, <3>2, StatusSteps
    <2>4. CASE DeleteFailed
        <3>1. /\ UNCHANGED <<jobs, watch>>
              /\ Goto("statusUpdate",
                      [job EXCEPT !.status = Retry(job.status)], "retrying")
              /\ current => MayRetry(req, job.status)
            BY <1>1, <2>4 DEF DeleteFailed, FreshInv
        <3> QED
            BY <1>1, <1>2, <1>5, <2>1, <3>1, StatusSteps
    <2> QED
        BY <1>8, <2>2, <2>3, <2>4
        DEF WorkerStep, DeleteOwnedWorkflows, RemoveFinalizer, AddFinalizer,
            DeleteExpired, StatusUpdate, UpdateQuotaStatus
<1>9. CASE StatusUpdate
    BY <1>3, <1>9 DEF StatusUpdate, FreshInv
<1> QED
    BY <1>6, <1>7, <1>8, <1>9
    DEF WorkerStep, GetWorkflow, CreateWorkflow, DeleteFailed

\* Faults, users, Argo, informers and clocks, as far as TrainingJobs and the
\* worker are concerned: nothing, a user's write, a delivery, or the end of
\* what the worker was at.
LEMMA EnvironmentKinds ==
    ASSUME TypeOK, Next, ~WorkerStep, \A j \in Jobs : ~BeginReconcile(j)
    PROVE  \/ UNCHANGED <<jobs, watch, cache, workerVars>>
           \/ \E j \in Jobs : CreateJob(j) \/ DeleteJob(j)
           \/ DeliverJob
           \/ ApiFails
           \/ Crash
<1> USE DEF apiVars
<1>1. ASSUME NEW w \in workflows,
             VanishWorkflow(w) \/ ArgoStarts(w) \/ ArgoEnds(w)
      PROVE  UNCHANGED <<jobs, watch, cache, workerVars>>
    BY <1>1 DEF VanishWorkflow, ArgoStarts, ArgoEnds, SetWorkflowPhase
<1>2. ASSUME EditQuota \/ DeliverQuota
      PROVE  UNCHANGED <<jobs, watch, cache, workerVars>>
    BY <1>2 DEF EditQuota, DeliverQuota
<1>3. ASSUME NEW j \in Jobs,
             DeliverWorkflowEvent(j) \/ ElapseTTL(j) \/ TimerFires(j)
      PROVE  UNCHANGED <<jobs, watch, cache, workerVars>>
    BY <1>3 DEF DeliverWorkflowEvent, ElapseTTL, TimerFires
<1> QED
    BY <1>1, <1>2, <1>3 DEF Next, OperatorNext

\* The versions that users store.
LEMMA UserWrites ==
    ASSUME TypeOK, NEW j \in Jobs, CreateJob(j) \/ DeleteJob(j)
    PROVE  \E o \in TrainingJob :
              /\ UserWritesJob(j, o)
              /\ UNCHANGED <<cache, pc, req, job, outcome>>
              /\ \/ o = [NotFound(jobs[j].uid + 1) EXCEPT !.exists = TRUE]
                    /\ ~jobs[j].exists
                 \/ o = AfterDelete(jobs[j])
                    /\ jobs[j].exists /\ ~jobs[j].deleting
<1>1. jobs[j] \in TrainingJob /\ jobs[j].uid \in Nat
    BY ObjectType DEF TypeOK
<1>2. jobs[j].uid + 1 \in Nat
    BY <1>1
<1>3. /\ [NotFound(jobs[j].uid + 1) EXCEPT !.exists = TRUE] \in TrainingJob
      /\ AfterDelete(jobs[j]) \in TrainingJob
    BY <1>1, <1>2, NotFoundType, ObjectType
<1>4. CASE CreateJob(j)
    BY <1>3, <1>4 DEF CreateJob
<1>5. CASE DeleteJob(j)
    BY <1>3, <1>5 DEF DeleteJob
<1> QED
    BY <1>4, <1>5

LEMMA EnvironmentFresh ==
    ASSUME TypeOK, FreshInv, Next,
           ~WorkerStep, \A j \in Jobs : ~BeginReconcile(j)
    PROVE  FreshInv'
<1>1. CASE UNCHANGED <<jobs, watch, cache, workerVars>>
    BY <1>1 DEF FreshInv, CacheCurrent, workerVars
<1>2. ASSUME NEW j \in Jobs, CreateJob(j) \/ DeleteJob(j)
      PROVE  FreshInv'
    <2>1. PICK o \in TrainingJob :
              UserWritesJob(j, o) /\ UNCHANGED <<cache, pc, req, job, outcome>>
        BY <1>2, UserWrites
    <2>2. StoreJob(j, o) /\ current' = (current /\ req # j)
        BY <2>1 DEF UserWritesJob
    <2>3. (current' /\ pc # "idle") =>
              /\ current /\ jobs'[req] = jobs[req]
              /\ CacheCurrent(req)' <=> CacheCurrent(req)
        BY <2>1, <2>2, StoreEvents DEF TypeOK
    <2> QED
        BY <2>1, <2>3 DEF FreshInv
<1>3. CASE DeliverJob
    <2>1. UNCHANGED <<jobs, workerVars>>
        BY <1>3 DEF DeliverJob
    <2>2. pc # "idle" => (CacheCurrent(req) => CacheCurrent(req)')
        BY <1>3, <2>1, DeliverEvents DEF TypeOK, workerVars
    <2> QED
        BY <2>1, <2>2 DEF FreshInv, workerVars
<1>4. CASE ApiFails \/ Crash
    BY <1>4 DEF ApiFails, Crash, Return, Stop, FreshInv
<1> QED
    BY <1>1, <1>2, <1>3, <1>4, EnvironmentKinds

\* A copy that passes the version check differs from what is stored only by
\* what the worker is about to write.
THEOREM FreshInvariant == Spec => []FreshInv
<1>1. Init => FreshInv
    BY DEF Init, FreshInv
<1>2. TypeOK /\ StableInv /\ FreshInv /\ [Next]_vars => FreshInv'
    <2> SUFFICES ASSUME TypeOK, StableInv, FreshInv, [Next]_vars
                 PROVE  FreshInv'
        OBVIOUS
    <2>1. CASE WorkerStep
        BY <2>1, WorkerFresh
    <2>2. ASSUME NEW j \in Jobs, BeginReconcile(j) PROVE FreshInv'
        BY <2>2, BeginFresh DEF StableInv
    <2>3. CASE UNCHANGED vars
        BY <2>3 DEF vars, FreshInv, CacheCurrent
    <2> QED
        BY <2>1, <2>2, <2>3, EnvironmentFresh
<1> QED
    BY <1>1, <1>2, TypeCorrect, StableInvariant, PTL DEF Spec

-----------------------------------------------------------------------------
(* The writes to TrainingJobs.                                             *)

Creates(j, o) ==
    /\ ~jobs[j].exists
    /\ o = [NotFound(jobs[j].uid + 1) EXCEPT !.exists = TRUE]

Deletes(j, o) ==
    /\ jobs[j].exists /\ ~jobs[j].deleting
    /\ o = AfterDelete(jobs[j])

Releases(j, o) ==
    /\ RemoveFinalizer /\ current /\ req = j
    /\ jobs[j].exists /\ jobs[j].deleting
    /\ o = NotFound(jobs[j].uid)

Protects(j, o) ==
    /\ jobs[j].exists /\ ~jobs[j].deleting /\ ~jobs[j].finalizer
    /\ o = [jobs[j] EXCEPT !.finalizer = TRUE]

Reports(j, o) ==
    /\ StatusUpdate /\ current /\ req = j
    /\ IsActive(jobs[j])
    /\ StatusStep(j, jobs[j].status, job.status, outcome)
    /\ o = [jobs[j] EXCEPT !.status = job.status]

\* Every version that is ever stored is one of five kinds.
Writes(j, o) ==
    /\ StoreJob(j, o) /\ UNCHANGED cache
    /\ \/ Creates(j, o) \/ Deletes(j, o) \/ Releases(j, o)
       \/ Protects(j, o) \/ Reports(j, o)

\* What a step makes of the store and the cache: nothing, one such write, a
\* delivery, or a fresh list.
LEMMA StoreSteps ==
    ASSUME TypeOK, FreshInv, [Next]_vars
    PROVE  \/ UNCHANGED <<jobs, watch, cache>>
           \/ \E j \in Jobs, o \in TrainingJob : Writes(j, o)
           \/ DeliverJob
           \/ Crash
<1> USE DEF apiVars
<1>1. CASE UNCHANGED vars
    BY <1>1 DEF vars
<1>2. ASSUME NEW j \in Jobs, BeginReconcile(j)
      PROVE  UNCHANGED <<jobs, watch, cache>>
    BY <1>2 DEF BeginReconcile, ReconcileGone, ReconcileDeletion,
           ReconcileFinalizer, ReconcileTTL, ReconcileDenied,
           ReconcileAttempt, Dequeue
<1>3. CASE WorkerStep
    <2>1. pc # "idle" /\ req \in Jobs
        BY <1>3 DEF TypeOK, WorkerStep, DeleteOwnedWorkflows, RemoveFinalizer,
               AddFinalizer, DeleteExpired, GetWorkflow, CreateWorkflow,
               DeleteFailed, StatusUpdate, UpdateQuotaStatus
    <2>2. /\ job \in TrainingJob /\ job.status \in TrainingJobStatus
          /\ jobs[req] \in TrainingJob /\ jobs[req].uid \in Nat
        BY <2>1, ObjectType DEF TypeOK
    <2>3. CASE DeleteOwnedWorkflows \/ GetWorkflow \/ CreateWorkflow
                 \/ DeleteFailed \/ UpdateQuotaStatus
        BY <2>3 DEF DeleteOwnedWorkflows, GetWorkflow, CreateWorkflow,
                    DeleteFailed, UpdateQuotaStatus
    <2>4. CASE RemoveFinalizer
        <3>1. CASE ~current
            BY <2>4, <3>1 DEF RemoveFinalizer
        <3>2. CASE current
            <4> DEFINE o == NotFound(job.uid)
            <4>1. job.uid = jobs[req].uid /\ jobs[req].exists /\ jobs[req].deleting
                BY <2>1, <2>4, <3>2 DEF RemoveFinalizer, FreshInv
            <4>2. o \in TrainingJob /\ StoreJob(req, o) /\ UNCHANGED cache
                BY <2>2, <2>4, <3>2, <4>1, NotFoundType DEF RemoveFinalizer
            <4> QED
                BY <2>1, <2>4, <3>2, <4>1, <4>2 DEF Writes, Releases
        <3> QED
            BY <3>1, <3>2
    <2>5. CASE AddFinalizer
        <3>1. CASE ~current
            BY <2>5, <3>1 DEF AddFinalizer
        <3>2. CASE current
            <4>1. StoreJob(req, job) /\ UNCHANGED cache /\ Protects(req, job)
                BY <2>1, <2>5, <3>2 DEF AddFinalizer, FreshInv, Protects
            <4> QED
                BY <2>1, <2>2, <4>1 DEF Writes
        <3> QED
            BY <3>1, <3>2
    <2>6. CASE DeleteExpired
        <3>1. CASE ~(jobs[req].exists /\ ~jobs[req].deleting)
            BY <2>6, <3>1 DEF DeleteExpired
        <3>2. CASE jobs[req].exists /\ ~jobs[req].deleting
            <4> DEFINE o == AfterDelete(jobs[req])
            <4>1. o \in TrainingJob /\ StoreJob(req, o) /\ UNCHANGED cache
                BY <2>2, <2>6, <3>2, ObjectType DEF DeleteExpired
            <4> QED
                BY <2>1, <3>2, <4>1 DEF Writes, Deletes
        <3> QED
            BY <3>1, <3>2
    <2>7. CASE StatusUpdate
        <3>1. CASE ~current \/ job.status = jobs[req].status
            BY <2>7, <3>1 DEF StatusUpdate
        <3>2. CASE current /\ job.status # jobs[req].status
            <4> DEFINE o == [jobs[req] EXCEPT !.status = job.status]
            <4>1. o \in TrainingJob /\ StoreJob(req, o) /\ UNCHANGED cache
                BY <2>2, <2>7, <3>2, ObjectType DEF StatusUpdate
            <4>2. /\ IsActive(jobs[req])
                  /\ StatusStep(req, jobs[req].status, job.status, outcome)
                BY <2>7, <3>2 DEF StatusUpdate, FreshInv
            <4> QED
                BY <2>1, <2>7, <3>2, <4>1, <4>2 DEF Writes, Reports
        <3> QED
            BY <3>1, <3>2
    <2> QED
        BY <1>3, <2>3, <2>4, <2>5, <2>6, <2>7 DEF WorkerStep
<1>4. ASSUME NEW j \in Jobs, CreateJob(j) \/ DeleteJob(j)
      PROVE  \E o \in TrainingJob : Writes(j, o)
    <2>1. PICK o \in TrainingJob :
              /\ UserWritesJob(j, o) /\ UNCHANGED cache
              /\ Creates(j, o) \/ Deletes(j, o)
        BY <1>4, UserWrites DEF Creates, Deletes
    <2> QED
        BY <2>1 DEF Writes, UserWritesJob
<1>5. CASE ApiFails
    BY <1>5 DEF ApiFails
<1> QED
    BY <1>1, <1>2, <1>3, <1>4, <1>5, EnvironmentKinds

\* The kinds of write, and what they say of the version they replace.
LEMMA WriteFields ==
    ASSUME TypeOK, NEW j \in Jobs, NEW o \in TrainingJob
    PROVE  /\ Creates(j, o) => /\ o.exists /\ ~o.finalizer /\ ~o.deleting
                               /\ o.status = EmptyStatus
                               /\ o.uid = jobs[j].uid + 1
           /\ Deletes(j, o) =>
                 /\ o.uid = jobs[j].uid
                 /\ \/ /\ jobs[j].finalizer
                       /\ o.exists /\ o.finalizer /\ o.deleting
                       /\ o.status = jobs[j].status
                    \/ ~jobs[j].finalizer /\ o = NotFound(jobs[j].uid)
           /\ Releases(j, o) => ~o.exists /\ o = NotFound(jobs[j].uid)
           /\ Protects(j, o) => /\ o.exists /\ o.finalizer /\ ~o.deleting
                                /\ o.status = jobs[j].status
                                /\ o.uid = jobs[j].uid
           /\ Reports(j, o) => /\ o.exists /\ o.finalizer /\ ~o.deleting
                               /\ o.status = job.status
                               /\ o.uid = jobs[j].uid
<1>1. jobs[j] \in TrainingJob
    BY DEF TypeOK
<1>2. Creates(j, o) => /\ o.exists /\ ~o.finalizer /\ ~o.deleting
                       /\ o.status = EmptyStatus /\ o.uid = jobs[j].uid + 1
    BY DEF Creates, NotFound
<1>3. Deletes(j, o) =>
          /\ o.uid = jobs[j].uid
          /\ \/ /\ jobs[j].finalizer
                /\ o.exists /\ o.finalizer /\ o.deleting
                /\ o.status = jobs[j].status
             \/ ~jobs[j].finalizer /\ o = NotFound(jobs[j].uid)
    BY <1>1 DEF Deletes, AfterDelete, TrainingJob, NotFound
<1>4. Releases(j, o) => ~o.exists /\ o = NotFound(jobs[j].uid)
    BY DEF Releases, NotFound
<1>5. Protects(j, o) => /\ o.exists /\ o.finalizer /\ ~o.deleting
                        /\ o.status = jobs[j].status /\ o.uid = jobs[j].uid
    BY <1>1 DEF Protects, TrainingJob
<1>6. Reports(j, o) => /\ o.exists /\ o.finalizer /\ ~o.deleting
                       /\ o.status = job.status /\ o.uid = jobs[j].uid
    BY <1>1 DEF Reports, TrainingJob, IsActive
<1> QED
    BY <1>2, <1>3, <1>4, <1>5, <1>6

-----------------------------------------------------------------------------
(* The finalizer as a guard.                                               *)

\* Whatever is written, a guarded version stays guarded, unless the finalizer
\* is taken off.
LEMMA GuardKept ==
    ASSUME TypeOK, FreshInv, [Next]_vars, ~RemoveFinalizer,
           NEW j \in Jobs, NEW v, Guards(jobs[j], v)
    PROVE  Guards(jobs'[j], v)
<1>1. CASE UNCHANGED jobs
    BY <1>1
<1>2. ASSUME NEW k \in Jobs, NEW o \in TrainingJob, Writes(k, o)
      PROVE  Guards(jobs'[j], v)
    <2>1. jobs'[k] = o /\ (k # j => jobs'[j] = jobs[j])
        BY <1>2, StoreEvents DEF Writes
    <2>2. CASE k # j
        BY <2>1, <2>2
    <2>3. CASE k = j
        <3> SUFFICES ASSUME IsActive(v) PROVE Guards(o, v)
            BY <2>1, <2>3 DEF Guards
        <3>1. /\ jobs[j].exists /\ jobs[j].finalizer
              /\ jobs[j].uid = v.uid
              /\ IsTerminal(v.status) => IsTerminal(jobs[j].status)
            BY DEF Guards
        <3>2. ~Creates(j, o) /\ ~Releases(j, o) /\ ~Protects(j, o)
            BY <3>1 DEF Creates, Releases, Protects
        <3>3. CASE Deletes(j, o)
            BY <3>1, <3>3, WriteFields DEF Guards
        <3>4. CASE Reports(j, o)
            <4>1. ~IsTerminal(jobs[j].status)
                BY <3>4 DEF Reports, StatusStep
            <4> QED
                BY <3>1, <3>4, <4>1, WriteFields DEF Guards
        <3> QED
            BY <1>2, <2>3, <3>2, <3>3, <3>4 DEF Writes
    <2> QED
        BY <2>2, <2>3
<1> QED
    BY <1>1, <1>2, StoreSteps DEF DeliverJob, Crash

\* The versions in the store's stream and in the cache.
VersionsAbout ==
    /\ \A j \in Jobs : Guards(jobs[j], cache[j])
    /\ \A i \in DOMAIN watch : Guards(jobs[watch[i].job], watch[i].object)

LEMMA AboutKept ==
    ASSUME TypeOK, StableInv, FreshInv, VersionsAbout, [Next]_vars
    PROVE  VersionsAbout'
<1>1. watch \in Seq(JobEvent)
    BY DEF TypeOK
<1>2. ASSUME NEW i \in DOMAIN watch PROVE watch[i].job \in Jobs
    <2>1. watch[i] \in JobEvent
        BY <1>1, <1>2
    <2> QED
        BY <2>1 DEF JobEvent
<1>3. CASE RemoveFinalizer
    <2>1. CASE UNCHANGED <<jobs, watch, cache>>
        BY <2>1 DEF VersionsAbout
    <2>2. CASE ~UNCHANGED <<jobs, watch, cache>>
        <3>1. /\ current /\ pc = "removeFinalizer" /\ req \in Jobs
              /\ StoreJob(req, NotFound(job.uid)) /\ UNCHANGED cache
            BY <1>3, <2>2 DEF RemoveFinalizer, apiVars, TypeOK
        <3> DEFINE e == [job |-> req, object |-> NotFound(job.uid)]
        <3>2. /\ e \in JobEvent /\ watch' = Append(watch, e)
              /\ NotFound(job.uid) \in TrainingJob
            BY <3>1, ObjectType, NotFoundType DEF TypeOK, StoreJob, JobEvent
        <3>3. /\ DOMAIN watch = 1 .. Len(watch) /\ Len(watch) \in Nat
              /\ DOMAIN watch' = 1 .. Len(watch) + 1
              /\ watch'[Len(watch) + 1] = e
              /\ \A i \in DOMAIN watch : watch'[i] = watch[i]
            BY <1>1, <3>2
        <3>4. /\ CacheCurrent(req) /\ jobs[req].deleting
            BY <3>1 DEF FreshInv
        <3>5. cache[req] = jobs[req]
            BY <3>1, <3>4 DEF StableInv, StreamInv
        <3>6. ~IsActive(cache[req]) /\ ~IsActive(NotFound(job.uid))
            BY <3>4, <3>5 DEF IsActive, NotFound
        <3>7. \A k \in Jobs : k # req => jobs'[k] = jobs[k]
            BY <3>1, <3>2, StoreEvents
        <3>8. \A k \in Jobs : Guards(jobs'[k], cache'[k])
            BY <3>1, <3>6, <3>7 DEF VersionsAbout, Guards
        <3>9. ASSUME NEW i \in DOMAIN watch'
              PROVE  Guards(jobs'[watch'[i].job], watch'[i].object)
            <4>1. CASE i = Len(watch) + 1
                BY <3>3, <3>6, <4>1 DEF Guards
            <4>2. CASE i # Len(watch) + 1
                <5>1. i \in DOMAIN watch /\ watch'[i] = watch[i]
                    BY <3>3, <3>9, <4>2
                <5>2. watch[i].job \in Jobs /\ watch[i].job # req
                    BY <1>2, <3>4, <5>1 DEF CacheCurrent
                <5> QED
                    BY <3>7, <5>1, <5>2 DEF VersionsAbout
            <4> QED
                BY <4>1, <4>2
        <3> QED
            BY <3>8, <3>9 DEF VersionsAbout
    <2> QED
        BY <2>1, <2>2
<1>4. CASE ~RemoveFinalizer
    <2>1. /\ \A k \in Jobs : Guards(jobs'[k], cache[k])
          /\ \A i \in DOMAIN watch :
                Guards(jobs'[watch[i].job], watch[i].object)
        BY <1>2, <1>4, GuardKept DEF VersionsAbout
    <2>2. CASE UNCHANGED <<jobs, watch, cache>>
        BY <2>2 DEF VersionsAbout
    <2>3. ASSUME NEW k \in Jobs, NEW o \in TrainingJob, Writes(k, o)
          PROVE  VersionsAbout'
        <3> DEFINE e == [job |-> k, object |-> o]
        <3>1. e \in JobEvent /\ watch' = Append(watch, e) /\ cache' = cache
            BY <2>3 DEF Writes, StoreJob, JobEvent
        <3>2. /\ DOMAIN watch = 1 .. Len(watch) /\ Len(watch) \in Nat
              /\ DOMAIN watch' = 1 .. Len(watch) + 1
              /\ watch'[Len(watch) + 1] = e
              /\ \A i \in DOMAIN watch : watch'[i] = watch[i]
            BY <1>1, <3>1
        <3>3. jobs'[k] = o
            BY <2>3, StoreEvents DEF Writes
        <3>4. ASSUME NEW i \in DOMAIN watch'
              PROVE  Guards(jobs'[watch'[i].job], watch'[i].object)
            <4>1. CASE i = Len(watch) + 1
                BY <3>2, <3>3, <4>1 DEF Guards, IsActive
            <4>2. CASE i # Len(watch) + 1
                <5>1. i \in DOMAIN watch /\ watch'[i] = watch[i]
                    BY <3>2, <3>4, <4>2
                <5> QED
                    BY <2>1, <5>1
            <4> QED
                BY <4>1, <4>2
        <3> QED
            BY <2>1, <3>1, <3>4 DEF VersionsAbout
    <2>4. CASE DeliverJob
        <3>1. /\ watch # <<>> /\ watch' = Tail(watch)
              /\ cache' = [cache EXCEPT ![Head(watch).job] = Head(watch).object]
            BY <2>4 DEF DeliverJob
        <3>2. /\ 1 \in DOMAIN watch /\ Head(watch) = watch[1]
              /\ \A i \in DOMAIN watch' :
                    i + 1 \in DOMAIN watch /\ watch'[i] = watch[i + 1]
            BY <1>1, <3>1
        <3>3. \A k \in Jobs : Guards(jobs'[k], cache'[k])
            BY <1>2, <2>1, <3>1, <3>2 DEF TypeOK
        <3>4. ASSUME NEW i \in DOMAIN watch'
              PROVE  Guards(jobs'[watch'[i].job], watch'[i].object)
            BY <2>1, <3>2, <3>4
        <3> QED
            BY <3>3, <3>4 DEF VersionsAbout
    <2>5. CASE Crash
        <3>1. watch' = <<>> /\ cache' = jobs /\ jobs' = jobs
            BY <2>5 DEF Crash
        <3>2. DOMAIN watch' = {}
            BY <3>1
        <3> QED
            BY <3>1, <3>2 DEF VersionsAbout, Guards, IsActive
    <2> QED
        BY <2>2, <2>3, <2>4, <2>5, StoreSteps
<1> QED
    BY <1>3, <1>4

\* What a step makes of the worker: it starts a reconcile, makes a call, or
\* is left alone but for a user's write that outdates its copy, or stopped.
LEMMA WorkerSteps ==
    ASSUME TypeOK, [Next]_vars
    PROVE  \/ \E j \in Jobs : BeginReconcile(j)
           \/ WorkerStep
           \/ /\ UNCHANGED <<pc, req, job, outcome>>
              /\ current' => current
              /\ ~WorkerStep
           \/ pc' = "idle" /\ req' = NoJob /\ (ApiFails \/ Crash)
<1>1. CASE UNCHANGED vars
    BY <1>1 DEF vars
<1>2. ASSUME NEW j \in Jobs, CreateJob(j) \/ DeleteJob(j)
      PROVE  UNCHANGED <<pc, req, job, outcome>> /\ (current' => current)
    BY <1>2 DEF CreateJob, DeleteJob, UserWritesJob
<1>3. CASE DeliverJob
    BY <1>3 DEF DeliverJob, workerVars
<1>4. CASE ApiFails \/ Crash
    BY <1>4 DEF ApiFails, Crash, Return, Stop
<1> QED
    BY <1>1, <1>2, <1>3, <1>4, EnvironmentKinds DEF workerVars

\* Where a call leaves the worker.
LEMMA CallSteps ==
    ASSUME WorkerStep
    PROVE  \/ pc' \in {"idle", "deleteFailed", "statusUpdate", "quotaStatus"}
           \/ DeleteOwnedWorkflows
           \/ GetWorkflow /\ WorkflowNotFound
<1>1. CASE GetWorkflow
    BY <1>1 DEF GetWorkflow, WorkflowNotFound, WorkflowActive,
                WorkflowSucceeded, WorkflowFailed, Goto, Return, Stop
<1>2. CASE RemoveFinalizer \/ AddFinalizer \/ DeleteExpired
             \/ CreateWorkflow \/ DeleteFailed \/ StatusUpdate
             \/ UpdateQuotaStatus
    BY <1>2 DEF RemoveFinalizer, AddFinalizer, DeleteExpired, CreateWorkflow,
                DeleteFailed, StatusUpdate, UpdateQuotaStatus, Goto, Return,
                Stop
<1> QED
    BY <1>1, <1>2 DEF WorkerStep

\* A TTL that has elapsed stays elapsed.
LEMMA ExpiredStays ==
    ASSUME [Next]_vars
    PROVE  expired \subseteq expired'
<1>1. CASE WorkerStep
    BY <1>1 DEF WorkerStep, DeleteOwnedWorkflows, RemoveFinalizer,
           AddFinalizer, DeleteExpired, GetWorkflow, CreateWorkflow,
           DeleteFailed, StatusUpdate, UpdateQuotaStatus
<1>2. ASSUME NEW j \in Jobs, BeginReconcile(j) PROVE UNCHANGED expired
    BY <1>2 DEF BeginReconcile, ReconcileGone, ReconcileDeletion,
           ReconcileFinalizer, ReconcileTTL, ReconcileDenied,
           ReconcileAttempt, Dequeue
<1>3. ASSUME NEW w \in workflows,
             VanishWorkflow(w) \/ ArgoStarts(w) \/ ArgoEnds(w)
      PROVE  UNCHANGED expired
    BY <1>3 DEF VanishWorkflow, ArgoStarts, ArgoEnds, SetWorkflowPhase
<1>4. ASSUME NEW j \in Jobs,
             \/ CreateJob(j) \/ DeleteJob(j) \/ DeliverWorkflowEvent(j)
             \/ ElapseTTL(j) \/ TimerFires(j)
      PROVE  expired \subseteq expired'
    BY <1>4 DEF CreateJob, DeleteJob, DeliverWorkflowEvent, ElapseTTL,
                TimerFires
<1>5. CASE ApiFails \/ Crash \/ EditQuota \/ DeliverJob \/ DeliverQuota
    BY <1>5 DEF ApiFails, Crash, EditQuota, DeliverJob, DeliverQuota
<1>6. CASE UNCHANGED vars
    BY <1>6 DEF vars
<1> QED
    BY <1>1, <1>2, <1>3, <1>4, <1>5, <1>6 DEF Next, OperatorNext

\* What a reconcile holds that it started from the cache.
LEMMA BeginHeld ==
    ASSUME TypeOK, VersionsGuarded, NEW j \in Jobs, BeginReconcile(j),
           UNCHANGED <<jobs, expired>>
    PROVE  /\ pc' \in {"deleteExpired", "getWorkflow", "createWorkflow"} =>
                 IsActive(job') /\ Guards(jobs'[req'], job')
           /\ pc' = "deleteExpired" =>
                 IsTerminal(job'.status) /\ <<req', job'.uid>> \in expired'
<1>1. /\ cache[j] \in TrainingJob /\ cache[j].status \in TrainingJobStatus
      /\ Guards(jobs[j], cache[j])
    BY ObjectType DEF TypeOK, VersionsGuarded
<1>2. CASE UNCHANGED workerVars
    BY <1>2 DEF VersionsGuarded, workerVars
<1>3. CASE ReconcileDeletion(j) \/ ReconcileFinalizer(j) \/ ReconcileDenied(j)
    BY <1>3 DEF ReconcileDeletion, ReconcileFinalizer, ReconcileDenied, Load
<1>4. CASE ReconcileTTL(j)
    BY <1>1, <1>2, <1>4 DEF ReconcileTTL, Load, TTLExpired
<1>5. CASE ReconcileAttempt(j)
    <2>1. /\ req' = j /\ pc' = "getWorkflow" /\ IsActive(cache[j])
          /\ job' = [cache[j] EXCEPT !.status = Granted(cache[j].status)]
        BY <1>5 DEF ReconcileAttempt, Load
    <2>2. /\ job'.exists = cache[j].exists /\ job'.deleting = cache[j].deleting
          /\ job'.finalizer = cache[j].finalizer /\ job'.uid = cache[j].uid
          /\ job'.status = Granted(cache[j].status)
        BY <1>1, <2>1 DEF TrainingJob
    <2>3. IsTerminal(job'.status) => IsTerminal(cache[j].status)
        BY <1>1, <2>2, StatusFields DEF IsTerminal
    <2> QED
        BY <1>1, <2>1, <2>2, <2>3 DEF IsActive, Guards
<1> QED
    BY <1>2, <1>3, <1>4, <1>5
    DEF BeginReconcile, ReconcileGone, workerVars

LEMMA VersionsKept ==
    ASSUME TypeOK, StableInv, FreshInv, VersionsGuarded, [Next]_vars
    PROVE  VersionsGuarded'
<1>1. VersionsAbout'
    BY AboutKept DEF VersionsGuarded, VersionsAbout
<1> SUFFICES /\ pc' \in {"deleteExpired", "getWorkflow", "createWorkflow"} =>
                   IsActive(job') /\ Guards(jobs'[req'], job')
             /\ pc' = "deleteExpired" =>
                   IsTerminal(job'.status) /\ <<req', job'.uid>> \in expired'
    BY <1>1 DEF VersionsGuarded, VersionsAbout
<1>2. ASSUME NEW j \in Jobs, BeginReconcile(j)
      PROVE  UNCHANGED <<jobs, expired>>
    BY <1>2 DEF BeginReconcile, ReconcileGone, ReconcileDeletion,
           ReconcileFinalizer, ReconcileTTL, ReconcileDenied,
           ReconcileAttempt, Dequeue
<1>3. CASE WorkerStep
    <2>1. CASE DeleteOwnedWorkflows
        BY <2>1 DEF DeleteOwnedWorkflows, Goto
    <2>2. CASE GetWorkflow /\ WorkflowNotFound
        BY <2>2 DEF GetWorkflow, WorkflowNotFound, Goto, apiVars,
                    VersionsGuarded
    <2> QED
        BY <1>3, <2>1, <2>2, CallSteps
<1>4. CASE UNCHANGED <<pc, req, job, outcome>> /\ ~WorkerStep
    <2>1. pc # "idle" => req \in Jobs
        BY DEF TypeOK
    <2>2. expired \subseteq expired'
        BY ExpiredStays
    <2>3. (pc # "idle" /\ Guards(jobs[req], job)) => Guards(jobs'[req], job)
        BY <1>4, <2>1, GuardKept DEF WorkerStep
    <2> QED
        BY <1>4, <2>2, <2>3 DEF VersionsGuarded
<1> QED
    BY <1>2, <1>3, <1>4, WorkerSteps, BeginHeld

-----------------------------------------------------------------------------
(* Workflows under that guard.                                             *)

\* A Workflow of the next state was there before, but for its phase, or is
\* the one that the worker creates.
LEMMA WorkflowSteps ==
    ASSUME TypeOK, [Next]_vars, NEW w \in workflows'
    PROVE  \/ /\ CreateWorkflow /\ w = NewWorkflow
              /\ \A v \in workflows :
                    ~IsWorkflowOf(v, req, Attempt(job.status))
           \/ w \in workflows /\ ~DeleteOwnedWorkflows
           \/ w \in workflows /\ w.job # req /\ DeleteOwnedWorkflows
           \/ \E v \in workflows, p \in ArgoPhases :
                 /\ v.phase \notin CompletedPhases
                 /\ SetWorkflowPhase(v, p)
                 /\ w = [v EXCEPT !.phase = p]
<1> USE DEF wfVars
<1>1. CASE UNCHANGED workflows
    BY <1>1 DEF DeleteOwnedWorkflows, OwnedWorkflows
<1>2. CASE DeleteOwnedWorkflows
    BY <1>2 DEF DeleteOwnedWorkflows, OwnedWorkflows
<1>3. CASE CreateWorkflow
    <2>1. ~DeleteOwnedWorkflows
        BY <1>3 DEF CreateWorkflow, DeleteOwnedWorkflows
    <2> QED
        BY <1>3, <2>1 DEF CreateWorkflow
<1>4. CASE DeleteFailed
    BY <1>4 DEF DeleteFailed, DeleteOwnedWorkflows
<1>5. ASSUME NEW v \in workflows, VanishWorkflow(v)
      PROVE  w \in workflows
    BY <1>5 DEF VanishWorkflow
<1>6. ASSUME NEW v \in workflows, ArgoStarts(v) \/ ArgoEnds(v)
      PROVE  \E p \in ArgoPhases :
                /\ v.phase \notin CompletedPhases
                /\ SetWorkflowPhase(v, p)
                /\ w \in workflows \/ w = [v EXCEPT !.phase = p]
    BY <1>6 DEF ArgoStarts, ArgoEnds, SetWorkflowPhase, CompletedPhases
<1>7. ASSUME NEW v \in workflows,
             VanishWorkflow(v) \/ \E p \in ArgoPhases : SetWorkflowPhase(v, p)
      PROVE  ~DeleteOwnedWorkflows \/ UNCHANGED workflows
    BY <1>7 DEF VanishWorkflow, SetWorkflowPhase, workerVars,
                DeleteOwnedWorkflows, Goto
<1>8. ASSUME NEW j \in Jobs, BeginReconcile(j) PROVE UNCHANGED workflows
    BY <1>8 DEF BeginReconcile, ReconcileGone, ReconcileDeletion,
           ReconcileFinalizer, ReconcileTTL, ReconcileDenied,
           ReconcileAttempt, Dequeue
<1>9. ASSUME RemoveFinalizer \/ AddFinalizer \/ DeleteExpired \/ GetWorkflow
               \/ StatusUpdate \/ UpdateQuotaStatus
      PROVE  UNCHANGED workflows
    BY <1>9 DEF RemoveFinalizer, AddFinalizer, DeleteExpired, GetWorkflow,
                StatusUpdate, UpdateQuotaStatus
<1>10. ASSUME NEW j \in Jobs,
              \/ CreateJob(j) \/ DeleteJob(j) \/ DeliverWorkflowEvent(j)
              \/ ElapseTTL(j) \/ TimerFires(j)
       PROVE  UNCHANGED workflows
    BY <1>10 DEF CreateJob, DeleteJob, DeliverWorkflowEvent, ElapseTTL,
                 TimerFires
<1>11. ASSUME ApiFails \/ Crash \/ EditQuota \/ DeliverJob \/ DeliverQuota
       PROVE  UNCHANGED workflows
    BY <1>11 DEF ApiFails, Crash, EditQuota, DeliverJob, DeliverQuota
<1>12. CASE UNCHANGED vars
    BY <1>1, <1>12 DEF vars
<1> QED
    BY <1>1, <1>2, <1>3, <1>4, <1>5, <1>6, <1>7, <1>8, <1>9, <1>10, <1>11,
       <1>12
    DEF Next, OperatorNext, WorkerStep

\* The same for the names alone.
LEMMA NamesKept ==
    ASSUME TypeOK, [Next]_vars, NEW w \in workflows'
    PROVE  \/ /\ CreateWorkflow /\ w = NewWorkflow
              /\ w.job = req /\ w.uid = job.uid
              /\ w.attempt = Attempt(job.status)
           \/ \E v \in workflows :
                 /\ v.job = w.job /\ v.uid = w.uid /\ v.attempt = w.attempt
                 /\ DeleteOwnedWorkflows => w.job # req
<1>1. CASE CreateWorkflow /\ w = NewWorkflow
    BY <1>1 DEF NewWorkflow
<1>2. ASSUME NEW v \in workflows, NEW p \in ArgoPhases,
             SetWorkflowPhase(v, p), w = [v EXCEPT !.phase = p]
      PROVE  /\ v.job = w.job /\ v.uid = w.uid /\ v.attempt = w.attempt
             /\ ~DeleteOwnedWorkflows
    <2>1. v \in Workflow
        BY DEF TypeOK
    <2>2. v.job = w.job /\ v.uid = w.uid /\ v.attempt = w.attempt
        BY <1>2, <2>1 DEF Workflow
    <2>3. ~DeleteOwnedWorkflows
        BY <1>2 DEF SetWorkflowPhase, workerVars, DeleteOwnedWorkflows, Goto
    <2> QED
        BY <2>2, <2>3
<1> QED
    BY <1>1, <1>2, WorkflowSteps

\* A job that the finalizer holds stays held until the finalizer goes.
LEMMA HoldKept ==
    ASSUME TypeOK, FreshInv, [Next]_vars, ~RemoveFinalizer,
           NEW j \in Jobs, jobs[j].exists, jobs[j].finalizer
    PROVE  jobs'[j].exists /\ jobs'[j].finalizer /\ jobs'[j].uid = jobs[j].uid
<1> DEFINE v == [exists |-> TRUE, deleting |-> FALSE, finalizer |-> TRUE,
                 uid |-> jobs[j].uid, status |-> EmptyStatus]
<1>1. IsActive(v) /\ v.uid = jobs[j].uid /\ ~IsTerminal(v.status)
    BY DEF IsActive, IsTerminal, EmptyStatus
<1> HIDE DEF v
<1>2. Guards(jobs[j], v)
    BY <1>1 DEF Guards
<1>3. Guards(jobs'[j], v)
    BY <1>2, GuardKept
<1> QED
    BY <1>1, <1>3 DEF Guards

LEMMA WorkflowsKept ==
    ASSUME TypeOK, StableInv, FreshInv, VersionsGuarded, WorkflowsGuarded,
           [Next]_vars
    PROVE  WorkflowsGuarded'
<1>1. ASSUME NEW w \in workflows PROVE w.job \in Jobs
    <2>1. w \in Workflow
        BY <1>1 DEF TypeOK
    <2> QED
        BY <2>1 DEF Workflow
<1>2. ASSUME NEW w \in workflows'
      PROVE  /\ jobs'[w.job].exists /\ jobs'[w.job].finalizer
             /\ jobs'[w.job].uid = w.uid
    <2>1. CASE CreateWorkflow /\ w.job = req /\ w.uid = job.uid
        <3>1. pc = "createWorkflow" /\ UNCHANGED jobs
            BY <2>1 DEF CreateWorkflow, apiVars
        <3> QED
            BY <2>1, <3>1 DEF VersionsGuarded, Guards
    <2>2. ASSUME NEW v \in workflows, v.job = w.job, v.uid = w.uid
          PROVE  /\ jobs'[w.job].exists /\ jobs'[w.job].finalizer
                 /\ jobs'[w.job].uid = w.uid
        <3>1. /\ w.job \in Jobs /\ jobs[w.job].exists /\ jobs[w.job].finalizer
              /\ jobs[w.job].uid = w.uid
            BY <1>1, <2>2 DEF WorkflowsGuarded, NoOrphanWorkflow
        <3>2. CASE ~RemoveFinalizer
            BY <3>1, <3>2, HoldKept
        <3>3. CASE RemoveFinalizer
            <4>1. w.job # req /\ req \in Jobs
                BY <2>2, <3>3 DEF RemoveFinalizer, WorkflowsGuarded, TypeOK
            <4>2. jobs'[w.job] = jobs[w.job]
                BY <3>1, <3>3, <4>1
                DEF RemoveFinalizer, StoreJob, apiVars, TypeOK
            <4> QED
                BY <3>1, <4>2
        <3> QED
            BY <3>2, <3>3
    <2> QED
        BY <2>1, <2>2, NamesKept
<1>3. NoOrphanWorkflow'
    BY <1>2 DEF NoOrphanWorkflow
<1>4. ASSUME pc' = "createWorkflow", NEW w \in workflows'
      PROVE  ~(w.job = req' /\ w.attempt = Attempt(job'.status))
    <2>1. CASE GetWorkflow /\ WorkflowNotFound
        BY <1>4, <2>1
        DEF GetWorkflow, WorkflowNotFound, Goto, wfVars, IsWorkflowOf
    <2>2. CASE UNCHANGED <<pc, req, job>> /\ ~WorkerStep
        <3>1. pc = "createWorkflow" /\ ~CreateWorkflow
            BY <1>4, <2>2 DEF WorkerStep
        <3>2. \A v \in workflows :
                  ~(v.job = req /\ v.attempt = Attempt(job.status))
            BY <3>1 DEF WorkflowsGuarded, CreateNeverCollides, IsWorkflowOf
        <3> QED
            BY <1>4, <2>2, <3>1, <3>2, NamesKept
    <2>3. ASSUME NEW j \in Jobs, BeginReconcile(j) PROVE FALSE
        BY <1>4, <2>3
        DEF BeginReconcile, ReconcileGone, ReconcileDeletion,
            ReconcileFinalizer, ReconcileTTL, ReconcileDenied,
            ReconcileAttempt, Dequeue, Load, workerVars
    <2>4. CASE WorkerStep
        BY <1>4, <2>1, <2>4, CallSteps DEF DeleteOwnedWorkflows, Goto
    <2> QED
        BY <1>4, <2>2, <2>3, <2>4, WorkerSteps
<1>5. CreateNeverCollides'
    BY <1>4 DEF CreateNeverCollides, IsWorkflowOf
<1>6. ASSUME pc' = "removeFinalizer", NEW w \in workflows'
      PROVE  w.job # req'
    <2>1. CASE DeleteOwnedWorkflows
        BY <2>1 DEF DeleteOwnedWorkflows, OwnedWorkflows, Goto
    <2>2. CASE UNCHANGED <<pc, req, job>> /\ ~WorkerStep
        <3>1. pc = "removeFinalizer" /\ ~CreateWorkflow
            BY <1>6, <2>2 DEF WorkerStep
        <3> QED
            BY <1>6, <2>2, <3>1, NamesKept DEF WorkflowsGuarded
    <2>3. ASSUME NEW j \in Jobs, BeginReconcile(j) PROVE FALSE
        BY <1>6, <2>3
        DEF BeginReconcile, ReconcileGone, ReconcileDeletion,
            ReconcileFinalizer, ReconcileTTL, ReconcileDenied,
            ReconcileAttempt, Dequeue, Load, workerVars
    <2>4. CASE WorkerStep
        BY <1>6, <2>1, <2>4, CallSteps
        DEF GetWorkflow, WorkflowNotFound, Goto
    <2> QED
        BY <1>6, <2>2, <2>3, <2>4, WorkerSteps
<1> QED
    BY <1>3, <1>5, <1>6 DEF WorkflowsGuarded

\* The guard and what it guards, as long as the system runs.
THEOREM GuardInvariant == Spec => [](VersionsGuarded /\ WorkflowsGuarded)
<1>1. Init => VersionsGuarded /\ WorkflowsGuarded
    <2> SUFFICES ASSUME Init PROVE VersionsGuarded /\ WorkflowsGuarded
        OBVIOUS
    <2>1. watch = <<>> /\ cache = jobs /\ workflows = {} /\ pc = "idle"
        BY DEF Init
    <2>2. DOMAIN watch = {}
        BY <2>1
    <2> QED
        BY <2>1, <2>2
        DEF VersionsGuarded, Guards, IsActive, WorkflowsGuarded,
            NoOrphanWorkflow, CreateNeverCollides
<1>2. TypeOK /\ StableInv /\ FreshInv
        /\ (VersionsGuarded /\ WorkflowsGuarded) /\ [Next]_vars
          => (VersionsGuarded /\ WorkflowsGuarded)'
    BY VersionsKept, WorkflowsKept
<1> QED
    BY <1>1, <1>2, TypeCorrect, StableInvariant, FreshInvariant, PTL DEF Spec

\* While a Workflow exists, the incarnation of the TrainingJob that owns it
\* exists and the finalizer holds it: DeleteAllOf by label misses none, and
\* no later job of the name inherits one.
THEOREM NoOrphanWorkflowHolds == Spec => []NoOrphanWorkflow
<1>1. WorkflowsGuarded => NoOrphanWorkflow
    BY DEF WorkflowsGuarded
<1> QED
    BY <1>1, GuardInvariant, PTL

\* r.Create never meets AlreadyExists, although the names it uses are
\* numbered from a status that may be stale.
THEOREM CreateNeverCollidesHolds == Spec => []CreateNeverCollides
<1>1. WorkflowsGuarded => CreateNeverCollides
    BY DEF WorkflowsGuarded
<1> QED
    BY <1>1, GuardInvariant, PTL

\* The unconditional delete by name of an expired job only ever hits the
\* finished incarnation whose TTL elapsed.
THEOREM TTLDeletesOnlyExpiredHolds == Spec => TTLDeletesOnlyExpired
<1>1. TypeOK /\ VersionsGuarded /\ [Next]_vars =>
          [pc = "deleteExpired" /\ jobs' # jobs =>
              /\ IsTerminal(jobs[req].status)
              /\ <<req, jobs[req].uid>> \in expired]_vars
    <2>1. VersionsGuarded /\ pc = "deleteExpired" =>
              IsTerminal(jobs[req].status) /\ <<req, jobs[req].uid>> \in expired
        BY DEF VersionsGuarded, Guards
    <2> QED
        BY <2>1
<1> QED
    BY <1>1, TypeCorrect, GuardInvariant, PTL DEF Spec, TTLDeletesOnlyExpired

-----------------------------------------------------------------------------
(* The model behind a Succeeded job.                                       *)

\* A version without a status.
LEMMA EmptyFields ==
    /\ EmptyStatus.phase = "" /\ EmptyStatus.attempts = 0
    /\ \A u : /\ NotFound(u).status = EmptyStatus
             /\ [NotFound(u) EXCEPT !.exists = TRUE].status = EmptyStatus
             /\ NotFound(u).status.phase = ""
<1>1. EmptyStatus.phase = "" /\ EmptyStatus.attempts = 0
    BY DEF EmptyStatus
<1> QED
    BY <1>1 DEF NotFound

\* The observation that a Workflow succeeded lasts as long as its job.
LEMMA SucceededStays ==
    ASSUME TypeOK, [Next]_vars, NEW j \in Jobs, succeeded[j], ~CreateJob(j)
    PROVE  succeeded'[j]
<1> USE DEF wfVars
<1>1. CASE UNCHANGED succeeded
    BY <1>1
<1>2. ASSUME NEW k \in Jobs, CreateJob(k) PROVE succeeded'[j]
    <2>1. k # j /\ succeeded' = [succeeded EXCEPT ![k] = FALSE]
        BY <1>2 DEF CreateJob
    <2> QED
        BY <2>1 DEF TypeOK
<1>3. ASSUME NEW w \in workflows, ArgoStarts(w) \/ ArgoEnds(w)
      PROVE  succeeded'[j]
    <2>1. PICK p \in ArgoPhases : SetWorkflowPhase(w, p)
        BY <1>3 DEF ArgoStarts, ArgoEnds
    <2>2. w \in Workflow /\ w.job \in Jobs
        BY DEF TypeOK, Workflow
    <2> QED
        BY <2>1, <2>2 DEF SetWorkflowPhase, TypeOK
<1>4. ASSUME NEW k \in Jobs,
             \/ BeginReconcile(k) \/ DeleteJob(k) \/ DeliverWorkflowEvent(k)
             \/ ElapseTTL(k) \/ TimerFires(k)
      PROVE  UNCHANGED succeeded
    BY <1>4 DEF BeginReconcile, ReconcileGone, ReconcileDeletion,
           ReconcileFinalizer, ReconcileTTL, ReconcileDenied,
           ReconcileAttempt, Dequeue, DeleteJob, DeliverWorkflowEvent,
           ElapseTTL, TimerFires
<1>5. ASSUME WorkerStep PROVE UNCHANGED succeeded
    BY <1>5 DEF WorkerStep, DeleteOwnedWorkflows, RemoveFinalizer,
           AddFinalizer, DeleteExpired, GetWorkflow, CreateWorkflow,
           DeleteFailed, StatusUpdate, UpdateQuotaStatus
<1>6. ASSUME \/ ApiFails \/ Crash \/ EditQuota \/ DeliverJob \/ DeliverQuota
             \/ \E w \in workflows : VanishWorkflow(w)
      PROVE  UNCHANGED succeeded
    BY <1>6 DEF ApiFails, Crash, EditQuota, DeliverJob, DeliverQuota,
                VanishWorkflow
<1>7. CASE UNCHANGED vars
    BY <1>1, <1>7 DEF vars
<1> QED
    BY <1>1, <1>2, <1>3, <1>4, <1>5, <1>6, <1>7 DEF Next, OperatorNext

\* A success is reported by the call that has read it off the Workflow.
LEMMA SuccessReported ==
    ASSUME TypeOK, pc' = "statusUpdate", job'.status.phase = "Succeeded",
           WorkerStep \/ \E j \in Jobs : BeginReconcile(j)
    PROVE  /\ GetWorkflow
           /\ \E w \in workflows :
                 /\ w.job = req /\ w.phase = "Succeeded"
                 /\ WorkflowSucceeded(w)
<1>1. /\ job \in TrainingJob /\ job.status \in TrainingJobStatus
      /\ \A s : [job EXCEPT !.status = s].status = s
    BY ObjectType DEF TypeOK, TrainingJob
<1>2. ASSUME NEW s, NEW path,
             Goto("statusUpdate", [job EXCEPT !.status = s], path)
      PROVE  s.phase = "Succeeded"
    BY <1>1, <1>2 DEF Goto
<1>3. ~\E j \in Jobs : BeginReconcile(j)
    <2> SUFFICES ASSUME NEW j \in Jobs, BeginReconcile(j) PROVE FALSE
        OBVIOUS
    <2>1. ReconcileDenied(j)
        BY DEF BeginReconcile, ReconcileGone, ReconcileDeletion,
               ReconcileFinalizer, ReconcileTTL, ReconcileAttempt, Dequeue,
               Load, workerVars
    <2>2. cache[j] \in TrainingJob /\ cache[j].status \in TrainingJobStatus
        BY ObjectType DEF TypeOK
    <2>3. job' = [cache[j] EXCEPT !.status = Park(cache[j].status)]
        BY <2>1 DEF ReconcileDenied, Load
    <2>4. job'.status = Park(cache[j].status)
        BY <2>2, <2>3 DEF TrainingJob
    <2> QED
        BY <2>2, <2>4, StatusFields
<1>4. CASE GetWorkflow
    <2>1. ASSUME NEW w \in workflows, IsWorkflowOf(w, req, Attempt(job.status)),
                 WorkflowSucceeded(w)
          PROVE  w.phase = "Succeeded" /\ w.job = req
        BY <2>1 DEF WorkflowSucceeded, MapWorkflowPhase, IsWorkflowOf
    <2>2. \A w \in workflows : ~WorkflowActive(w)
        <3> SUFFICES ASSUME NEW w \in workflows, WorkflowActive(w) PROVE FALSE
            OBVIOUS
        <3>1. Goto("statusUpdate", [job EXCEPT !.status = Propagate(job.status)],
                   "propagated")
            BY DEF WorkflowActive, Return, Stop
        <3> QED
            BY <1>1, <1>2, <3>1, StatusFields
    <2>3. \A w \in workflows : ~WorkflowFailed(w)
        <3> SUFFICES ASSUME NEW w \in workflows, WorkflowFailed(w) PROVE FALSE
            OBVIOUS
        <3>1. Goto("statusUpdate", [job EXCEPT !.status = Fail(job.status)],
                   "finished")
            BY DEF WorkflowFailed, Goto
        <3> QED
            BY <1>1, <1>2, <3>1, StatusFields
    <2>4. ~WorkflowNotFound
        BY DEF WorkflowNotFound, Goto
    <2> QED
        BY <1>4, <2>1, <2>2, <2>3, <2>4 DEF GetWorkflow
<1>5. ~CreateWorkflow
    <2> SUFFICES ASSUME CreateWorkflow PROVE FALSE
        OBVIOUS
    <2>1. Goto("statusUpdate", [job EXCEPT !.status = Submitted(job.status)],
               "submitted")
        BY DEF CreateWorkflow, Return, Stop
    <2> QED
        BY <1>1, <1>2, <2>1, StatusFields
<1>6. ~DeleteFailed
    <2> SUFFICES ASSUME DeleteFailed PROVE FALSE
        OBVIOUS
    <2>1. Goto("statusUpdate", [job EXCEPT !.status = Retry(job.status)],
               "retrying")
        BY DEF DeleteFailed
    <2> QED
        BY <1>1, <1>2, <2>1, StatusFields
<1>7. ASSUME \/ DeleteOwnedWorkflows \/ RemoveFinalizer \/ AddFinalizer
             \/ DeleteExpired \/ StatusUpdate \/ UpdateQuotaStatus
      PROVE  FALSE
    BY <1>7 DEF DeleteOwnedWorkflows, RemoveFinalizer, AddFinalizer,
                DeleteExpired, StatusUpdate, UpdateQuotaStatus, Goto, Return,
                Stop
<1> QED
    BY <1>3, <1>4, <1>5, <1>6, <1>7 DEF WorkerStep

\* The status on its way to the store.
ReportInv ==
    (pc = "statusUpdate" /\ current /\ job.status.phase = "Succeeded") =>
        succeeded[req] /\ job.status.modelURI

LEMMA ReportBuilt ==
    ASSUME TypeOK, ModelInv, pc' = "statusUpdate",
           WorkerStep \/ \E j \in Jobs : BeginReconcile(j)
    PROVE  ReportInv'
<1> SUFFICES ASSUME job'.status.phase = "Succeeded"
             PROVE  succeeded'[req'] /\ job'.status.modelURI
    BY DEF ReportInv
<1>1. PICK w \in workflows :
          w.job = req /\ w.phase = "Succeeded" /\ WorkflowSucceeded(w)
    BY SuccessReported
<1>2. succeeded[req] /\ UNCHANGED <<succeeded, req>>
    BY <1>1, SuccessReported
    DEF ModelInv, GetWorkflow, WorkflowSucceeded, Goto, wfVars
<1>3. job \in TrainingJob /\ job.status \in TrainingJobStatus
    BY ObjectType DEF TypeOK
<1>4. job'.status = Succeed(job.status)
    BY <1>1, <1>3 DEF WorkflowSucceeded, Goto, TrainingJob
<1> QED
    BY <1>2, <1>3, <1>4, StatusRest

LEMMA ModelKept ==
    ASSUME TypeOK, FreshInv, WorkflowsGuarded, ModelInv, [Next]_vars
    PROVE  ModelInv'
<1>1. ASSUME NEW j \in Jobs, jobs'[j].status.phase = "Succeeded"
      PROVE  succeeded'[j] /\ jobs'[j].status.modelURI
    <2>1. ~CreateJob(j)
        <3> SUFFICES ASSUME CreateJob(j) PROVE FALSE
            OBVIOUS
        <3>1. jobs'[j] = [NotFound(jobs[j].uid + 1) EXCEPT !.exists = TRUE]
            BY DEF CreateJob, UserWritesJob, StoreJob, TypeOK
        <3> QED
            BY <1>1, <3>1, EmptyFields
    <2>2. CASE jobs'[j].status = jobs[j].status
        BY <1>1, <2>1, <2>2, SucceededStays DEF ModelInv, SucceededHasModel
    <2>3. ASSUME NEW k \in Jobs, NEW o \in TrainingJob, Writes(k, o)
          PROVE  succeeded'[j] /\ jobs'[j].status.modelURI
        <3>1. jobs'[k] = o /\ (k # j => jobs'[j] = jobs[j])
            BY <2>3, StoreEvents DEF Writes
        <3>2. CASE k = j /\ Reports(j, o)
            <4>1. /\ pc = "statusUpdate" /\ current /\ req = j
                  /\ o.status = job.status
                BY <3>2, WriteFields DEF Reports, StatusUpdate
            <4>2. succeeded[j] /\ job.status.modelURI
                BY <1>1, <3>1, <3>2, <4>1 DEF ModelInv
            <4> QED
                BY <2>1, <3>1, <3>2, <4>1, <4>2, SucceededStays
        <3>3. CASE k = j /\ ~Reports(j, o)
            <4>1. o.status = jobs[j].status \/ o.status = EmptyStatus
                BY <2>3, <3>3, WriteFields DEF Writes, NotFound
            <4>2. o.status # EmptyStatus
                BY <1>1, <3>1, <3>3, EmptyFields
            <4> QED
                BY <2>2, <3>1, <3>3, <4>1, <4>2
        <3> QED
            BY <2>2, <3>1, <3>2, <3>3
    <2> QED
        BY <2>2, <2>3, StoreSteps DEF DeliverJob, Crash
<1>2. ASSUME NEW w \in workflows', w.phase = "Succeeded"
      PROVE  succeeded'[w.job]
    <2>1. ASSUME NEW v \in workflows PROVE v.job \in Jobs /\ ~CreateJob(v.job)
        <3>1. v \in Workflow /\ jobs[v.job].exists
            BY DEF TypeOK, WorkflowsGuarded, NoOrphanWorkflow
        <3> QED
            BY <3>1 DEF Workflow, CreateJob
    <2>2. CASE w = NewWorkflow
        BY <1>2, <2>2 DEF NewWorkflow
    <2>3. CASE w \in workflows
        BY <1>2, <2>1, <2>3, SucceededStays DEF ModelInv
    <2>4. ASSUME NEW v \in workflows, NEW p \in ArgoPhases,
                 SetWorkflowPhase(v, p), w = [v EXCEPT !.phase = p]
          PROVE  succeeded'[w.job]
        <3>1. v \in Workflow /\ v.uid = jobs[v.job].uid
            BY DEF TypeOK, WorkflowsGuarded, NoOrphanWorkflow
        <3>2. w.job = v.job /\ w.phase = p /\ v.job \in Jobs
            BY <2>4, <3>1 DEF Workflow
        <3> QED
            BY <1>2, <2>4, <3>1, <3>2 DEF SetWorkflowPhase, TypeOK
    <2> QED
        BY <2>2, <2>3, <2>4, WorkflowSteps
<1>3. ReportInv'
    <2>1. CASE WorkerStep \/ \E j \in Jobs : BeginReconcile(j)
        BY <2>1, ReportBuilt DEF ReportInv
    <2>2. CASE UNCHANGED <<pc, req, job>> /\ (current' => current)
        <3> SUFFICES ASSUME pc = "statusUpdate", current',
                            job.status.phase = "Succeeded"
                     PROVE  succeeded'[req] /\ job.status.modelURI
            BY <2>2 DEF ReportInv
        <3>1. req \in Jobs /\ succeeded[req] /\ job.status.modelURI
            BY <2>2 DEF TypeOK, ModelInv
        <3>2. ~CreateJob(req)
            BY DEF CreateJob, UserWritesJob
        <3> QED
            BY <3>1, <3>2, SucceededStays
    <2>3. CASE pc' = "idle"
        BY <2>3 DEF ReportInv
    <2> QED
        BY <2>1, <2>2, <2>3, WorkerSteps
<1> QED
    BY <1>1, <1>2, <1>3 DEF ModelInv, SucceededHasModel, ReportInv

\* A job is called Succeeded only if a Workflow of that very incarnation
\* succeeded, and then it names its model.
THEOREM SucceededHasModelHolds == Spec => []SucceededHasModel
<1>1. Init => ModelInv
    BY EmptyFields DEF Init, ModelInv, SucceededHasModel
<1>2. TypeOK /\ FreshInv /\ WorkflowsGuarded /\ ModelInv /\ [Next]_vars
          => ModelInv'
    BY ModelKept
<1>3. ModelInv => SucceededHasModel
    BY DEF ModelInv
<1> QED
    BY <1>1, <1>2, <1>3, TypeCorrect, FreshInvariant, GuardInvariant, PTL
    DEF Spec

-----------------------------------------------------------------------------
(* The lifecycle that TrainingJobLifecycle specifies.                      *)

\* What its owner sees of one version.
Seen(o) == [exists   |-> o.exists,
            phase    |-> o.status.phase,
            attempts |-> o.status.attempts]

\* A status write is a step of the lifecycle of its job, or shows its owner
\* nothing new.
LEMMA ReportStep ==
    ASSUME TypeOK, BudgetInv, NEW j \in Jobs, NEW t, NEW path,
           jobs[j].exists, StatusStep(j, jobs[j].status, t, path),
           View' = [View EXCEPT ![j] = [exists   |-> TRUE, phase |-> t.phase,
                                        attempts |-> t.attempts]]
    PROVE  Loose!LifecycleStep(j) \/ View' = View
<1> DEFINE s == jobs[j].status
<1>1. /\ s \in TrainingJobStatus /\ s.phase \in TrainingJobPhase
      /\ s.attempts \in Nat /\ BackoffLimit[j] \in Nat
    BY ObjectType, SpecAssumption DEF TypeOK, TrainingJobStatus
<1>2. /\ WithinBudget(j, s) /\ jobs[j].exists
      /\ View[j] = [exists |-> TRUE, phase |-> s.phase,
                    attempts |-> s.attempts]
      /\ View[j].exists /\ View[j].phase = s.phase
      /\ View[j].attempts = s.attempts
      /\ View = [k \in Jobs |-> View[k]]
    <2>1. jobs[j].exists = TRUE
        BY ObjectType DEF TypeOK
    <2>2. View[j] = [exists |-> TRUE, phase |-> s.phase,
                     attempts |-> s.attempts]
        BY <2>1 DEF View
    <2>3. View = [k \in Jobs |-> View[k]]
        BY DEF View
    <2> QED
        BY <2>2, <2>3 DEF BudgetInv
<1>3. s.phase \in {"", "Pending", "Queued"} \/ s.phase = "Running"
    BY <1>1 DEF StatusStep, IsTerminal, TrainingJobPhase
<1>4. s.phase \in {"", "Pending", "Queued"} => s.attempts <= BackoffLimit[j]
    BY <1>2 DEF WithinBudget, NeedsQuota
<1>5. ASSUME t.phase = s.phase, t.attempts = s.attempts
      PROVE  View' = View
    BY <1>2, <1>5
<1>6. StatusStep(j, s, t, path)
    OBVIOUS
<1> HIDE DEF s
<1> USE DEF Loose!LifecycleStep, Loose!In, Loose!To, Loose!Waiting
<1>7. CASE path = "queued"
    <2>1. NeedsQuota(s) /\ t.phase = "Queued" /\ t.attempts = s.attempts
        BY <1>7, <1>6 DEF StatusStep
    <2>2. CASE s.phase = "Queued"
        BY <1>5, <2>1, <2>2
    <2>3. CASE s.phase \in {"", "Pending"}
        BY <1>2, <2>1, <2>3 DEF Loose!Queue
    <2> QED
        BY <2>1, <2>2, <2>3 DEF NeedsQuota
<1>8. CASE path = "submitted"
    <2>1. t.phase = "Running" /\ t.attempts = Attempt(s)
        BY <1>8, <1>6 DEF StatusStep
    <2>2. CASE s.phase \in {"", "Pending", "Queued"}
        <3>1. t.attempts = s.attempts + 1
            BY <2>1, <2>2 DEF Attempt, Creating
        <3> QED
            BY <1>2, <1>4, <2>1, <2>2, <3>1 DEF Loose!Start
    <2>3. CASE s.phase = "Running" /\ s.attempts = 0
        <3>1. t.attempts = 1
            BY <2>1, <2>3 DEF Attempt, Creating
        <3> QED
            BY <1>2, <2>1, <2>3, <3>1 DEF Loose!Restart
    <2>4. CASE s.phase = "Running" /\ s.attempts # 0
        <3>1. t.attempts = s.attempts
            BY <2>1, <2>4 DEF Attempt, Creating
        <3> QED
            BY <1>5, <2>1, <2>4, <3>1
    <2> QED
        BY <1>3, <2>2, <2>3, <2>4
<1>9. CASE path = "propagated"
    <2>1. t.phase = "Running" /\ t.attempts = s.attempts
        BY <1>9, <1>6 DEF StatusStep
    <2>2. CASE s.phase = "Running"
        BY <1>5, <2>1, <2>2
    <2>3. CASE s.phase \in {"", "Pending", "Queued"}
        BY <1>2, <1>4, <2>1, <2>3 DEF Loose!Adopt
    <2> QED
        BY <1>3, <2>2, <2>3
<1>10. CASE path = "retrying"
    <2>1. /\ t.phase = "Pending" /\ t.attempts = s.attempts
          /\ s.attempts <= BackoffLimit[j]
        BY <1>10, <1>6 DEF StatusStep, MayRetry
    <2>2. CASE s.phase = "Running"
        BY <1>2, <2>1, <2>2 DEF Loose!Resubmit
    <2>3. CASE s.phase \in {"", "Pending", "Queued"}
        BY <1>2, <2>1, <2>3 DEF Loose!Adopt
    <2> QED
        BY <1>3, <2>2, <2>3
<1>11. CASE path = "finished"
    <2>1. /\ t.attempts = s.attempts
          /\ \/ t.phase = "Succeeded"
             \/ t.phase = "Failed" /\ ~(s.attempts <= BackoffLimit[j])
        BY <1>11, <1>6 DEF StatusStep, MayRetry
    <2>2. CASE t.phase = "Succeeded" /\ s.phase = "Running"
        BY <1>2, <2>1, <2>2 DEF Loose!Complete
    <2>3. CASE t.phase = "Succeeded" /\ s.phase \in {"", "Pending", "Queued"}
        BY <1>2, <1>4, <2>1, <2>3 DEF Loose!Adopt
    <2>4. CASE t.phase = "Failed"
        <3>1. ~(s.attempts <= BackoffLimit[j])
            BY <2>1, <2>4
        <3>2. s.phase = "Running"
            BY <1>3, <1>4, <3>1
        <3>3. s.attempts <= BackoffLimit[j] + 1
            BY <1>2 DEF WithinBudget
        <3>4. s.attempts = BackoffLimit[j] + 1
            BY <1>1, <3>1, <3>3
        <3> QED
            BY <1>2, <2>1, <2>4, <3>2, <3>4 DEF Loose!GiveUp
    <2> QED
        BY <1>3, <2>1, <2>2, <2>3, <2>4
<1> QED
    BY <1>7, <1>8, <1>9, <1>10, <1>11 DEF StatusStep, Outcomes

\* The write of j's status that the worker is at, as its owner sees it.
ShowsReport(j) ==
    /\ jobs[j].exists /\ pc = "statusUpdate" /\ current /\ req = j
    /\ StatusStep(j, jobs[j].status, job.status, outcome)
    /\ View' = [View EXCEPT ![j] = [exists   |-> TRUE,
                                    phase    |-> job.status.phase,
                                    attempts |-> job.status.attempts]]

\* Owners see jobs come and go, and status writes.
LEMMA ViewSteps ==
    ASSUME TypeOK, FreshInv, [Next]_vars
    PROVE  \/ View' = View
           \/ \E j \in Jobs :
                 Loose!Submit(j) \/ Loose!Remove(j) \/ ShowsReport(j)
<1>1. CASE UNCHANGED jobs
    BY <1>1 DEF View
<1>2. ASSUME NEW j \in Jobs, NEW o \in TrainingJob, Writes(j, o)
      PROVE  \/ View' = View
             \/ Loose!Submit(j) \/ Loose!Remove(j) \/ ShowsReport(j)
    <2>1. /\ jobs'[j] = o /\ \A k \in Jobs : k # j => jobs'[k] = jobs[k]
        BY <1>2, StoreEvents DEF Writes
    <2>2. View' = [View EXCEPT ![j] = Seen(o)]
        BY <2>1 DEF View, Seen
    <2>3. View[j] = Seen(jobs[j]) /\ View = [k \in Jobs |-> View[k]]
        BY DEF View, Seen
    <2>4. ASSUME Seen(o) = Seen(jobs[j]) PROVE View' = View
        BY <2>2, <2>3, <2>4
    <2>5. /\ View[j].exists = jobs[j].exists
          /\ \A u : Seen(NotFound(u)) = Loose!Absent
        <3>1. \A u : NotFound(u).exists = FALSE
            BY DEF NotFound
        <3>2. \A u : Seen(NotFound(u)) = Loose!Absent
            BY <3>1, EmptyFields DEF Seen, Loose!Absent
        <3>3. View[j].exists = jobs[j].exists
            BY DEF View
        <3> QED
            BY <3>2, <3>3
    <2>6. ASSUME jobs[j].exists, NEW u, o = NotFound(u)
          PROVE  Loose!Remove(j)
        BY <2>2, <2>5, <2>6 DEF Loose!Remove
    <2>7. CASE Creates(j, o)
        <3>1. Seen(o) = [exists |-> TRUE, phase |-> "", attempts |-> 0]
            BY <2>7, WriteFields, EmptyFields DEF Seen
        <3> QED
            BY <2>2, <2>5, <2>7, <3>1 DEF Creates, Loose!Submit, Loose!To
    <2>8. CASE Deletes(j, o)
        <3>1. CASE jobs[j].finalizer
            <4>1. o.status = jobs[j].status /\ o.exists /\ jobs[j].exists
                BY <2>8, <3>1, WriteFields DEF Deletes
            <4> QED
                BY <2>4, <4>1 DEF Seen
        <3>2. CASE ~jobs[j].finalizer
            <4>1. o = NotFound(jobs[j].uid) /\ jobs[j].exists
                BY <2>8, <3>2, WriteFields DEF Deletes
            <4> QED
                BY <2>6, <4>1
        <3> QED
            BY <3>1, <3>2
    <2>9. CASE Releases(j, o)
        BY <2>6, <2>9 DEF Releases
    <2>10. CASE Protects(j, o)
        <3>1. o.status = jobs[j].status /\ o.exists /\ jobs[j].exists
            BY <2>10, WriteFields DEF Protects
        <3> QED
            BY <2>4, <3>1 DEF Seen
    <2>11. CASE Reports(j, o)
        <3>1. /\ o.exists /\ o.status = job.status /\ jobs[j].exists
              /\ StatusStep(j, jobs[j].status, job.status, outcome)
              /\ pc = "statusUpdate" /\ current /\ req = j
            BY <2>11, WriteFields DEF Reports, IsActive, StatusUpdate
        <3>2. Seen(o) = [exists |-> TRUE, phase |-> job.status.phase,
                         attempts |-> job.status.attempts]
            BY <3>1 DEF Seen
        <3>3. View' = [View EXCEPT ![j] =
                          [exists |-> TRUE, phase |-> job.status.phase,
                           attempts |-> job.status.attempts]]
            BY <2>2, <3>2
        <3> QED
            BY <3>1, <3>3 DEF ShowsReport
    <2> QED
        BY <1>2, <2>7, <2>8, <2>9, <2>10, <2>11 DEF Writes
<1> QED
    BY <1>1, <1>2, StoreSteps DEF DeliverJob, Crash

LEMMA LifecycleKept ==
    ASSUME TypeOK, FreshInv, BudgetInv, [Next]_vars
    PROVE  Loose!LifecycleNext \/ View' = View
<1>1. ASSUME NEW j \in Jobs, ShowsReport(j)
      PROVE  Loose!LifecycleStep(j) \/ View' = View
    BY <1>1, ReportStep DEF ShowsReport
<1> QED
    BY <1>1, ViewSteps DEF Loose!LifecycleNext, Loose!LifecycleStep

\* Whatever caches lag behind and whatever fails, every status write is a
\* transition of the abstract state machine or takes on a Workflow whose
\* creation was not recorded: the reconciler implements the lifecycle.
THEOREM LooseLifecycleHolds == Spec => LooseLifecycle
<1>1. Init => Loose!LifecycleInit
    <2> SUFFICES ASSUME Init PROVE View = [j \in Jobs |-> Loose!Absent]
        BY DEF Loose!LifecycleInit
    <2>1. \A j \in Jobs : /\ ~jobs[j].exists
                          /\ jobs[j].status.phase = ""
                          /\ jobs[j].status.attempts = 0
        BY EmptyFields DEF Init, NotFound
    <2>2. \A j \in Jobs : jobs[j].exists = FALSE
        <3>1. \A j \in Jobs : jobs[j] = NotFound(0)
            BY DEF Init
        <3> QED
            BY <3>1 DEF NotFound
    <2> QED
        BY <2>1, <2>2 DEF View, Loose!Absent
<1>2. TypeOK /\ FreshInv /\ BudgetInv /\ [Next]_vars
          => [Loose!LifecycleNext]_View
    BY LifecycleKept
<1> QED
    BY <1>1, <1>2, TypeCorrect, FreshInvariant, BudgetInvariant, PTL
    DEF Spec, LooseLifecycle, Loose!Lifecycle

-----------------------------------------------------------------------------
(* Wakeups.                                                                *)

\* The delaying queue never drops an entry.
LEMMA SoonerKeeps ==
    ASSUME NEW t \in Timers, NEW u \in Timers
    PROVE  Sooner(t, u) = "none" => t = "none" /\ u = "none"
BY DEF Sooner, Timers

\* What Reconcile returns once the status is written.
LEMMA ResultDelays ==
    ASSUME NEW o \in Outcomes
    PROVE  /\ Result(o) \in Timers
           /\ Result(o) = "none" => o \in {"none", "submitted", "propagated"}
           /\ RefreshesQuota(o) => o \in {"queued", "submitted", "finished"}
BY DEF Result, Timers, Outcomes, RefreshesQuota

\* What a call adds to the delaying queue.
LEMMA CallDelays ==
    ASSUME TypeOK, WorkerStep \/ ApiFails
    PROVE  \/ UNCHANGED timers
           \/ \E d \in Timers : AddAfter(req, d)
<1>1. Result(outcome) \in Timers /\ "none" \in Timers /\ "backoff" \in Timers
    BY ResultDelays DEF TypeOK, Timers
<1>2. ASSUME NEW d \in Timers, Return(d) PROVE \E e \in Timers : AddAfter(req, e)
    BY <1>2 DEF Return
<1>3. CASE ApiFails
    <2>1. OnError(pc) \in Timers
        BY <1>1 DEF OnError
    <2> QED
        BY <1>2, <1>3, <2>1 DEF ApiFails
<1>4. CASE GetWorkflow
    BY <1>1, <1>2, <1>4
    DEF GetWorkflow, WorkflowNotFound, WorkflowActive, WorkflowSucceeded,
        WorkflowFailed
<1>5. CASE \/ DeleteOwnedWorkflows \/ RemoveFinalizer \/ AddFinalizer
           \/ DeleteExpired \/ CreateWorkflow \/ DeleteFailed
    BY <1>1, <1>2, <1>5 DEF DeleteOwnedWorkflows, RemoveFinalizer,
       AddFinalizer, DeleteExpired, CreateWorkflow, DeleteFailed
<1>6. CASE StatusUpdate \/ UpdateQuotaStatus
    BY <1>1, <1>2, <1>6 DEF StatusUpdate, UpdateQuotaStatus
<1> QED
    BY <1>3, <1>4, <1>5, <1>6 DEF WorkerStep

\* What waits for the worker: nothing is taken from the queue but by a
\* reconcile, and events and timers are only traded for a place in it.
LEMMA WaitingKept ==
    ASSUME TypeOK, [Next]_vars, ~Crash, NEW j \in Jobs
    PROVE  /\ j \in queue => j \in queue' \/ BeginReconcile(j)
           /\ j \in wfEvents => j \in wfEvents' \cup queue'
           /\ timers[j] # "none" => timers'[j] # "none" \/ j \in queue'
<1> USE DEF wfVars
<1> DEFINE Kept == /\ j \in queue => j \in queue' \/ BeginReconcile(j)
                   /\ j \in wfEvents => j \in wfEvents' \cup queue'
                   /\ timers[j] # "none" => timers'[j] # "none" \/ j \in queue'
<1>1. ASSUME NEW k \in Jobs, NEW d \in Timers, AddAfter(k, d)
      PROVE  timers[j] # "none" => timers'[j] # "none"
    <2>1. timers \in [Jobs -> Timers]
        BY DEF TypeOK
    <2>2. CASE k = j
        BY <1>1, <2>1, <2>2, SoonerKeeps DEF AddAfter
    <2>3. CASE k # j
        BY <1>1, <2>1, <2>3 DEF AddAfter
    <2> QED
        BY <2>2, <2>3
<1>2. ASSUME NEW k \in Jobs, BeginReconcile(k) PROVE Kept
    <2>1. queue' = queue \ {k} /\ UNCHANGED wfEvents
        BY <1>2 DEF BeginReconcile, ReconcileGone, ReconcileDeletion,
               ReconcileFinalizer, ReconcileTTL, ReconcileDenied,
               ReconcileAttempt, Dequeue
    <2>2. UNCHANGED timers \/ AddAfter(k, "expiry")
        BY <1>2 DEF BeginReconcile, ReconcileGone, ReconcileDeletion,
               ReconcileFinalizer, ReconcileTTL, ReconcileDenied,
               ReconcileAttempt, Load
    <2>3. "expiry" \in Timers
        BY DEF Timers
    <2> QED
        BY <1>1, <1>2, <2>1, <2>2, <2>3
<1>3. CASE WorkerStep \/ ApiFails
    <2>1. UNCHANGED queue /\ wfEvents \subseteq wfEvents'
        BY <1>3 DEF WorkerStep, DeleteOwnedWorkflows, RemoveFinalizer,
               AddFinalizer, DeleteExpired, GetWorkflow, CreateWorkflow,
               DeleteFailed, StatusUpdate, UpdateQuotaStatus, ApiFails
    <2>2. req \in Jobs
        BY <1>3 DEF TypeOK, WorkerStep, DeleteOwnedWorkflows, RemoveFinalizer,
               AddFinalizer, DeleteExpired, GetWorkflow, CreateWorkflow,
               DeleteFailed, StatusUpdate, UpdateQuotaStatus, ApiFails
    <2> QED
        BY <1>1, <1>3, <2>1, <2>2, CallDelays
<1>4. ASSUME NEW w \in workflows,
             VanishWorkflow(w) \/ ArgoStarts(w) \/ ArgoEnds(w)
      PROVE  Kept
    BY <1>4 DEF VanishWorkflow, ArgoStarts, ArgoEnds, SetWorkflowPhase
<1>5. ASSUME NEW k \in Jobs,
             CreateJob(k) \/ DeleteJob(k) \/ DeliverWorkflowEvent(k)
               \/ ElapseTTL(k)
      PROVE  Kept
    BY <1>5 DEF CreateJob, DeleteJob, DeliverWorkflowEvent, ElapseTTL
<1>6. ASSUME NEW k \in Jobs, TimerFires(k) PROVE Kept
    <2>1. /\ timers' = [timers EXCEPT ![k] = "none"] /\ queue' = queue \cup {k}
          /\ UNCHANGED wfEvents
        BY <1>6 DEF TimerFires
    <2>2. j # k => timers'[j] = timers[j]
        BY <2>1 DEF TypeOK
    <2> QED
        BY <2>1, <2>2
<1>7. CASE EditQuota \/ DeliverJob \/ DeliverQuota
    BY <1>7 DEF EditQuota, DeliverJob, DeliverQuota
<1>8. CASE UNCHANGED vars
    BY <1>8 DEF vars
<1> QED
    BY <1>2, <1>3, <1>4, <1>5, <1>6, <1>7, <1>8 DEF Next, OperatorNext

\* The same for versions on their way, and a write sends one.
LEMMA EventsKept ==
    ASSUME TypeOK, FreshInv, [Next]_vars, ~Crash, NEW j \in Jobs,
           CacheCurrent(j)', j \notin queue'
    PROVE  CacheCurrent(j) /\ jobs'[j] = jobs[j]
<1>1. CASE UNCHANGED <<jobs, watch, cache>>
    BY <1>1 DEF CacheCurrent
<1>2. ASSUME NEW k \in Jobs, NEW o \in TrainingJob, Writes(k, o)
      PROVE  CacheCurrent(j) /\ jobs'[j] = jobs[j]
    BY <1>2, StoreEvents DEF Writes
<1>3. CASE DeliverJob
    BY <1>3, DeliverEvents DEF DeliverJob
<1> QED
    BY <1>1, <1>2, <1>3, StoreSteps

\* A change to the Workflows of j is an event of j.
LEMMA LiveKept ==
    ASSUME TypeOK, [Next]_vars, NEW j \in Jobs,
           j \notin wfEvents', j \notin queue'
    PROVE  LiveWorkflows(j)' = LiveWorkflows(j)
<1> USE DEF wfVars
<1>1. CASE UNCHANGED workflows
    BY <1>1 DEF LiveWorkflows
<1>2. ASSUME NEW k, wfEvents' = wfEvents \cup {k},
             \A w \in workflows' : w \in workflows \/ w.job = k,
             \A w \in workflows : w \in workflows' \/ w.job = k
      PROVE  LiveWorkflows(j)' = LiveWorkflows(j)
    BY <1>2 DEF LiveWorkflows
<1>3. CASE DeleteOwnedWorkflows
    BY <1>1, <1>2, <1>3 DEF DeleteOwnedWorkflows, OwnedWorkflows
<1>4. CASE CreateWorkflow
    <2>1. NewWorkflow.job = req
        BY DEF NewWorkflow
    <2> QED
        BY <1>1, <1>2, <1>4, <2>1 DEF CreateWorkflow
<1>5. CASE DeleteFailed
    BY <1>1, <1>2, <1>5 DEF DeleteFailed, IsWorkflowOf
<1>6. ASSUME NEW w \in workflows, VanishWorkflow(w)
      PROVE  LiveWorkflows(j)' = LiveWorkflows(j)
    BY <1>2, <1>6 DEF VanishWorkflow
<1>7. ASSUME NEW w \in workflows, ArgoStarts(w) \/ ArgoEnds(w)
      PROVE  LiveWorkflows(j)' = LiveWorkflows(j)
    <2>1. PICK p \in ArgoPhases : SetWorkflowPhase(w, p)
        BY <1>7 DEF ArgoStarts, ArgoEnds
    <2>2. w \in Workflow
        BY DEF TypeOK
    <2>3. [w EXCEPT !.phase = p].job = w.job
        BY <2>2 DEF Workflow
    <2> QED
        BY <1>2, <2>1, <2>3 DEF SetWorkflowPhase
<1>8. ASSUME NEW k \in Jobs, BeginReconcile(k) PROVE UNCHANGED workflows
    BY <1>8 DEF BeginReconcile, ReconcileGone, ReconcileDeletion,
           ReconcileFinalizer, ReconcileTTL, ReconcileDenied,
           ReconcileAttempt, Dequeue
<1>9. ASSUME RemoveFinalizer \/ AddFinalizer \/ DeleteExpired \/ GetWorkflow
               \/ StatusUpdate \/ UpdateQuotaStatus
      PROVE  UNCHANGED workflows
    BY <1>9 DEF RemoveFinalizer, AddFinalizer, DeleteExpired, GetWorkflow,
                StatusUpdate, UpdateQuotaStatus
<1>10. ASSUME NEW k \in Jobs,
              \/ CreateJob(k) \/ DeleteJob(k) \/ DeliverWorkflowEvent(k)
              \/ ElapseTTL(k) \/ TimerFires(k)
       PROVE  UNCHANGED workflows
    BY <1>10 DEF CreateJob, DeleteJob, DeliverWorkflowEvent, ElapseTTL,
                 TimerFires
<1>11. ASSUME ApiFails \/ Crash \/ EditQuota \/ DeliverJob \/ DeliverQuota
       PROVE  UNCHANGED workflows
    BY <1>11 DEF ApiFails, Crash, EditQuota, DeliverJob, DeliverQuota
<1>12. CASE UNCHANGED vars
    BY <1>1, <1>12 DEF vars
<1> QED
    BY <1>1, <1>3, <1>4, <1>5, <1>6, <1>7, <1>8, <1>9, <1>10, <1>11, <1>12
    DEF Next, OperatorNext, WorkerStep

\* What NoStrandedJob allows a job that nothing will wake to be.
Settled(j) ==
    \/ ~jobs[j].exists
    \/ /\ IsTerminal(jobs[j].status)
       /\ ~HasTTL[j]
       /\ ~jobs[j].deleting
    \/ /\ jobs[j].status.phase = "Running"
       /\ ~jobs[j].deleting
       /\ \E w \in LiveWorkflows(j) : w.attempt = Attempt(jobs[j].status)

\* The worker's part of WakeInv.
WorkerAwake ==
    /\ pc = "idle" => req = NoJob
    /\ pc # "idle" =>
          \/ current \/ pc = "quotaStatus"
          \/ req \in queue \/ ~CacheCurrent(req)
    /\ (pc \in {"statusUpdate", "quotaStatus"} /\ outcome = "submitted") =>
          req \in queue \cup wfEvents
    /\ pc = "quotaStatus" => RefreshesQuota(outcome)

\* The stored objects' part.
StoredSound ==
    \A j \in Jobs :
        /\ jobs[j].deleting => jobs[j].finalizer
        /\ IsTerminal(jobs[j].status) => jobs[j].status.completionTime

\* A reconcile that does nothing does so for a job that needs nothing.
LEMMA NoOpSettled ==
    ASSUME TypeOK, StableInv, StoredSound, NEW j \in Jobs, BeginReconcile(j),
           CacheCurrent(j), timers'[j] = "none", req' # j
    PROVE  Settled(j)
<1>1. /\ cache[j] = jobs[j] /\ jobs[j] \in TrainingJob
      /\ timers \in [Jobs -> Timers]
    BY DEF StableInv, StreamInv, TypeOK
<1>2. CASE ReconcileGone(j)
    BY <1>1, <1>2 DEF ReconcileGone, StoredSound, Settled
<1>3. CASE ReconcileTTL(j)
    <2>1. ~AddAfter(j, "expiry")
        <3>1. "expiry" \in Timers /\ "expiry" # "none"
            BY DEF Timers
        <3> QED
            BY <1>1, <3>1, SoonerKeeps DEF AddAfter
    <2>2. ~(HasTTL[j] /\ cache[j].status.completionTime)
        BY <1>3, <2>1 DEF ReconcileTTL, Load
    <2> QED
        BY <1>1, <1>3, <2>2 DEF ReconcileTTL, IsActive, StoredSound, Settled
<1> QED
    BY <1>2, <1>3 DEF BeginReconcile, ReconcileDeletion, ReconcileFinalizer,
                      ReconcileDenied, ReconcileAttempt, Load

\* Nor does the worker leave a job before it is settled, or sure to be woken.
LEMMA CallSettled ==
    ASSUME TypeOK, FreshInv, WorkerAwake, NEW j \in Jobs, req = j, pc # "idle",
           WorkerStep \/ ApiFails, req' # j,
           CacheCurrent(j), CacheCurrent(j)', j \notin queue, j \notin wfEvents,
           timers[j] = "none", timers'[j] = "none"
    PROVE  Settled(j)
<1>1. current \/ pc = "quotaStatus"
    BY DEF WorkerAwake
<1>2. ASSUME NEW d \in Timers, Return(d) PROVE d = "none"
    <2>1. timers'[j] = Sooner(timers[j], d) /\ timers[j] \in Timers
        BY <1>2 DEF Return, AddAfter, TypeOK
    <2> QED
        BY <2>1, SoonerKeeps
<1>3. "backoff" \in Timers /\ "backoff" # "none"
    BY DEF Timers
<1>4. ~Return("backoff")
    BY <1>2, <1>3
<1>5. ASSUME NEW o \in TrainingJob, StoreJob(j, o) PROVE FALSE
    BY <1>5, StoreEvents
<1>6. outcome \in Outcomes /\ job \in TrainingJob /\ jobs[j] \in TrainingJob
    BY DEF TypeOK
<1>7. ASSUME pc = "quotaStatus", Return(Result(outcome)) PROVE FALSE
    <2>1. RefreshesQuota(outcome) /\ outcome # "submitted"
        BY <1>7 DEF WorkerAwake
    <2>2. Result(outcome) \in Timers /\ Result(outcome) # "none"
        BY <1>6, <2>1, ResultDelays
    <2> QED
        BY <1>2, <1>7, <2>2
<1>8. CASE ApiFails
    BY <1>4, <1>7, <1>8 DEF ApiFails, OnError
<1>9. CASE UpdateQuotaStatus
    BY <1>7, <1>9 DEF UpdateQuotaStatus
<1>10. CASE RemoveFinalizer
    <2>1. NotFound(job.uid) \in TrainingJob
        BY <1>6, NotFoundType, ObjectType
    <2> QED
        BY <1>4, <1>5, <1>10, <2>1 DEF RemoveFinalizer
<1>11. CASE AddFinalizer
    BY <1>4, <1>5, <1>6, <1>11 DEF AddFinalizer
<1>12. CASE DeleteExpired
    <2>1. AfterDelete(jobs[j]) \in TrainingJob
        BY <1>6, ObjectType
    <2>2. ~(jobs[j].exists /\ ~jobs[j].deleting)
        BY <1>5, <1>12, <2>1 DEF DeleteExpired
    <2>3. ~jobs[j].deleting
        BY <1>1, <1>12 DEF DeleteExpired, FreshInv, IsActive
    <2> QED
        BY <2>2, <2>3 DEF Settled
<1>13. CASE StatusUpdate
    <2>1. current
        BY <1>1, <1>13 DEF StatusUpdate
    <2>2. Return(Result(outcome)) /\ ~RefreshesQuota(outcome)
        BY <1>13, <2>1 DEF StatusUpdate
    <2>3. StatusStep(j, jobs[j].status, job.status, outcome)
        BY <1>13, <2>1 DEF StatusUpdate, FreshInv
    <2>4. Result(outcome) = "none"
        BY <1>2, <1>6, <2>2, ResultDelays
    <2>5. outcome = "propagated"
        <3>1. outcome \in {"none", "submitted", "propagated"}
            BY <1>6, <2>4, ResultDelays
        <3> QED
            BY <2>2, <2>3, <3>1 DEF RefreshesQuota, StatusStep
    <2>6. job.status # jobs[j].status
        BY <2>3, <2>5 DEF StatusStep
    <2>7. [jobs[j] EXCEPT !.status = job.status] \in TrainingJob
        BY <1>6, ObjectType
    <2>8. StoreJob(j, [jobs[j] EXCEPT !.status = job.status])
        BY <1>13, <2>1, <2>6 DEF StatusUpdate
    <2> QED
        BY <1>5, <2>7, <2>8
<1>14. CASE CreateWorkflow
    BY <1>4, <1>14 DEF CreateWorkflow, Goto
<1>15. CASE GetWorkflow
    <2>1. current
        BY <1>1, <1>15 DEF GetWorkflow
    <2>2. PICK w \in workflows :
              /\ IsWorkflowOf(w, j, Attempt(job.status)) /\ WorkflowActive(w)
              /\ Return("none")
        BY <1>15 DEF GetWorkflow, WorkflowNotFound, WorkflowActive,
                     WorkflowSucceeded, WorkflowFailed, Goto
    <2>3. /\ IsActive(jobs[j])
          /\ job.status.phase = jobs[j].status.phase
          /\ job.status.attempts = jobs[j].status.attempts
        BY <1>15, <2>1 DEF GetWorkflow, FreshInv
    <2>4. job.status.phase = "Running"
        BY <2>2 DEF WorkflowActive, Goto, Return, Stop
    <2>5. Attempt(job.status) = Attempt(jobs[j].status)
        BY <2>3 DEF Attempt, Creating
    <2>6. w \in LiveWorkflows(j) /\ w.attempt = Attempt(jobs[j].status)
        BY <2>2, <2>5
        DEF WorkflowActive, MapWorkflowPhase, LiveWorkflows, CompletedPhases,
            IsWorkflowOf
    <2> QED
        BY <2>3, <2>4, <2>6 DEF Settled, IsActive
<1>16. CASE DeleteOwnedWorkflows \/ DeleteFailed
    BY <1>16 DEF DeleteOwnedWorkflows, DeleteFailed, Goto
<1> QED
    BY <1>8, <1>9, <1>10, <1>11, <1>12, <1>13, <1>14, <1>15, <1>16
    DEF WorkerStep

LEMMA StrandedKept ==
    ASSUME TypeOK, StableInv, FreshInv, WakeInv, [Next]_vars
    PROVE  NoStrandedJob'
<1> SUFFICES ASSUME NEW j \in Jobs, Unattended(j)' PROVE Settled(j)'
    BY DEF NoStrandedJob, Settled
<1>1. WorkerAwake /\ StoredSound /\ (Unattended(j) => Settled(j))
    BY DEF WakeInv, NoStrandedJob, Settled, WorkerAwake, StoredSound
<1>2. CASE Crash
    <2>1. j \notin {k \in Jobs : jobs[k].exists} /\ UNCHANGED jobs
        BY <1>2 DEF Crash, Unattended
    <2> QED
        BY <2>1 DEF Settled
<1>3. CASE ~Crash
    <2>1. /\ j \notin queue' /\ j \notin wfEvents' /\ CacheCurrent(j)'
          /\ timers'[j] = "none" /\ req' # j
        BY DEF Unattended
    <2>2. CacheCurrent(j) /\ jobs'[j] = jobs[j]
        BY <1>3, <2>1, EventsKept
    <2>3. LiveWorkflows(j)' = LiveWorkflows(j)
        BY <2>1, LiveKept
    <2>4. /\ j \in queue => BeginReconcile(j)
          /\ j \notin wfEvents /\ timers[j] = "none"
        BY <1>3, <2>1, WaitingKept
    <2>5. Settled(j)
        <3>1. CASE j \in queue
            BY <1>1, <2>1, <2>2, <2>4, <3>1, NoOpSettled
        <3>2. CASE j \notin queue /\ req # j
            BY <1>1, <2>2, <2>4, <3>2 DEF Unattended
        <3>3. CASE j \notin queue /\ req = j
            <4>1. pc # "idle"
                BY <1>1, <3>3, ControllerAssumption DEF WorkerAwake
            <4>2. \A k \in Jobs : ~BeginReconcile(k)
                BY <4>1
                DEF BeginReconcile, ReconcileGone, ReconcileDeletion,
                    ReconcileFinalizer, ReconcileTTL, ReconcileDenied,
                    ReconcileAttempt, Dequeue
            <4>3. WorkerStep \/ ApiFails
                BY <1>3, <2>1, <3>3, <4>2, WorkerSteps
            <4> QED
                BY <1>1, <2>1, <2>2, <2>4, <3>3, <4>1, <4>3, CallSettled
        <3> QED
            BY <3>1, <3>2, <3>3
    <2> QED
        BY <2>2, <2>3, <2>5 DEF Settled
<1> QED
    BY <1>2, <1>3

\* Only the paths that refresh the quota status come to it, and only the
\* creation of a Workflow leads to "submitted".
LEMMA CallAwake ==
    ASSUME TypeOK, WorkerAwake, WorkerStep
    PROVE  WorkerAwake'
<1> USE DEF apiVars, wfVars
<1>1. pc # "idle"
    BY DEF WorkerStep, DeleteOwnedWorkflows, RemoveFinalizer,
           AddFinalizer, DeleteExpired, GetWorkflow, CreateWorkflow,
           DeleteFailed, StatusUpdate, UpdateQuotaStatus
<1>2. ASSUME NEW d, Return(d) PROVE WorkerAwake'
    BY <1>2 DEF Return, Stop, WorkerAwake
\* A step on, whatever it changed in the copy.
<1>3. ASSUME NEW label, label \notin {"idle", "quotaStatus"}, NEW o, NEW path,
             Goto(label, o, path), UNCHANGED <<queue, watch>>,
             pc # "quotaStatus",
             path = "submitted" => req \in wfEvents'
      PROVE  WorkerAwake'
    <2>1. CacheCurrent(req)' <=> CacheCurrent(req)
        BY <1>3 DEF CacheCurrent, Goto
    <2> QED
        BY <1>1, <1>3, <2>1 DEF Goto, WorkerAwake
<1>4. CASE DeleteOwnedWorkflows
    BY <1>3, <1>4 DEF DeleteOwnedWorkflows
<1>5. CASE RemoveFinalizer \/ AddFinalizer \/ DeleteExpired
             \/ UpdateQuotaStatus
    BY <1>2, <1>5
    DEF RemoveFinalizer, AddFinalizer, DeleteExpired, UpdateQuotaStatus
<1>6. CASE GetWorkflow
    <2>1. UNCHANGED <<queue, watch>> /\ pc # "quotaStatus"
        BY <1>6 DEF GetWorkflow
    <2>2. CASE WorkflowNotFound
        BY <1>3, <2>1, <2>2 DEF WorkflowNotFound
    <2>3. ASSUME NEW w \in workflows,
                 WorkflowActive(w) \/ WorkflowSucceeded(w) \/ WorkflowFailed(w)
          PROVE  WorkerAwake'
        <3>1. CASE WorkflowActive(w)
            BY <1>2, <1>3, <2>1, <3>1 DEF WorkflowActive
        <3>2. CASE WorkflowSucceeded(w)
            BY <1>3, <2>1, <3>2 DEF WorkflowSucceeded
        <3>3. CASE WorkflowFailed(w)
            BY <1>3, <2>1, <3>3 DEF WorkflowFailed
        <3> QED
            BY <2>3, <3>1, <3>2, <3>3
    <2> QED
        BY <1>6, <2>2, <2>3 DEF GetWorkflow
<1>7. CASE CreateWorkflow
    BY <1>2, <1>3, <1>7 DEF CreateWorkflow
<1>8. CASE DeleteFailed
    BY <1>3, <1>8 DEF DeleteFailed
<1>9. CASE StatusUpdate
    <2>1. CASE \E d : Return(d)
        BY <1>2, <2>1
    <2>2. CASE pc' = "quotaStatus"
        <3>1. /\ RefreshesQuota(outcome)
              /\ UNCHANGED <<req, outcome, queue, wfEvents>>
            BY <1>9, <2>2 DEF StatusUpdate, Return, Stop
        <3> QED
            BY <1>9, <2>2, <3>1 DEF StatusUpdate, WorkerAwake, RefreshesQuota
    <2> QED
        BY <1>9, <2>1, <2>2 DEF StatusUpdate
<1> QED
    BY <1>4, <1>5, <1>6, <1>7, <1>8, <1>9 DEF WorkerStep

LEMMA AwakeKept ==
    ASSUME TypeOK, FreshInv, WorkerAwake, [Next]_vars
    PROVE  WorkerAwake'
<1>1. CASE WorkerStep
    BY <1>1, CallAwake
<1>2. ASSUME NEW j \in Jobs, BeginReconcile(j) PROVE WorkerAwake'
    <2>1. pc = "idle" /\ UNCHANGED watch
        BY <1>2 DEF BeginReconcile, ReconcileGone, ReconcileDeletion,
               ReconcileFinalizer, ReconcileTTL, ReconcileDenied,
               ReconcileAttempt, Dequeue
    <2>2. CASE UNCHANGED workerVars
        BY <2>1, <2>2 DEF WorkerAwake, workerVars
    <2>3. ASSUME NEW label, label \notin {"idle", "quotaStatus"}, NEW o,
                 NEW path, path # "submitted", Load(j, label, o, path)
          PROVE  WorkerAwake'
        <3>1. req' = j /\ current' = CacheCurrent(j)
            BY <2>3 DEF Load
        <3>2. CacheCurrent(req)' <=> CacheCurrent(j)
            BY <2>1, <3>1 DEF CacheCurrent
        <3> QED
            BY <2>3, <3>1, <3>2 DEF Load, WorkerAwake
    <2> QED
        BY <1>2, <2>2, <2>3
        DEF BeginReconcile, ReconcileGone, ReconcileDeletion,
            ReconcileFinalizer, ReconcileTTL, ReconcileDenied,
            ReconcileAttempt, workerVars
<1>3. CASE pc' = "idle" /\ req' = NoJob
    BY <1>3 DEF WorkerAwake
<1>4. CASE /\ UNCHANGED <<pc, req, job, outcome>>
           /\ pc # "idle" /\ ~WorkerStep /\ ~ApiFails /\ ~Crash
    <2>1. req \in Jobs
        BY <1>4 DEF TypeOK
    <2>2. ~BeginReconcile(req)
        BY <1>4 DEF BeginReconcile, ReconcileGone, ReconcileDeletion,
               ReconcileFinalizer, ReconcileTTL, ReconcileDenied,
               ReconcileAttempt, Dequeue
    <2>3. /\ req \in queue => req \in queue'
          /\ req \in wfEvents => req \in wfEvents' \cup queue'
        BY <1>4, <2>1, <2>2, WaitingKept
    <2>4. CacheCurrent(req)' => CacheCurrent(req) \/ req \in queue'
        BY <1>4, <2>1, EventsKept
    <2>5. CacheCurrent(req)' /\ req \notin queue' /\ current => current'
        <3> SUFFICES ASSUME CacheCurrent(req)', current, ~current',
                            req \notin queue'
                     PROVE  FALSE
            BY DEF TypeOK
        <3>1. ASSUME NEW j \in Jobs, CreateJob(j) \/ DeleteJob(j)
              PROVE  FALSE
            <4>1. PICK o \in TrainingJob : UserWritesJob(j, o)
                BY <3>1, UserWrites
            <4>2. StoreJob(j, o) /\ j = req
                BY <4>1 DEF UserWritesJob
            <4>3. ~CacheCurrent(j)'
                BY <4>2, StoreEvents
            <4> QED
                BY <1>4, <4>2, <4>3 DEF CacheCurrent
        <3>2. \A j \in Jobs : ~BeginReconcile(j)
            BY <1>4 DEF BeginReconcile, ReconcileGone, ReconcileDeletion,
                   ReconcileFinalizer, ReconcileTTL, ReconcileDenied,
                   ReconcileAttempt, Dequeue
        <3>3. ~UNCHANGED current
            OBVIOUS
        <3>4. ~UNCHANGED vars /\ ~DeliverJob
            BY <3>3 DEF vars, DeliverJob, workerVars
        <3> QED
            BY <1>4, <3>1, <3>2, <3>3, <3>4, EnvironmentKinds DEF workerVars
    <2> QED
        BY <1>4, <2>3, <2>4, <2>5 DEF WorkerAwake
<1>5. CASE UNCHANGED <<pc, req, job, outcome>> /\ pc = "idle"
    BY <1>5 DEF WorkerAwake
<1> QED
    BY <1>1, <1>2, <1>3, <1>4, <1>5, WorkerSteps DEF ApiFails, Crash, Return, Stop

LEMMA SoundKept ==
    ASSUME TypeOK, FreshInv, StoredSound, [Next]_vars
    PROVE  StoredSound'
<1>1. CASE UNCHANGED jobs
    BY <1>1 DEF StoredSound
<1>2. ASSUME NEW k \in Jobs, NEW o \in TrainingJob, Writes(k, o)
      PROVE  StoredSound'
    <2>1. /\ jobs'[k] = o /\ \A j \in Jobs : j # k => jobs'[j] = jobs[j]
        BY <1>2, StoreEvents DEF Writes
    <2>2. ~IsTerminal(EmptyStatus)
        BY EmptyFields DEF IsTerminal
    <2>3. ASSUME NEW u, o = NotFound(u)
          PROVE  ~o.deleting /\ o.status = EmptyStatus
        BY <2>3 DEF NotFound
    <2>4. /\ o.deleting => o.finalizer
          /\ IsTerminal(o.status) => o.status.completionTime
        <3>1. CASE Creates(k, o)
            BY <2>2, <3>1, WriteFields
        <3>2. CASE Deletes(k, o)
            BY <2>2, <2>3, <3>2, WriteFields DEF StoredSound
        <3>3. CASE Releases(k, o)
            BY <2>2, <2>3, <3>3, WriteFields
        <3>4. CASE Protects(k, o)
            BY <3>4, WriteFields DEF StoredSound
        <3>5. CASE Reports(k, o)
            <4>1. ~o.deleting /\ o.status = job.status
                BY <3>5, WriteFields
            <4>2. StatusStep(k, jobs[k].status, job.status, outcome)
                BY <3>5 DEF Reports
            <4>3. IsTerminal(job.status) => job.status.completionTime
                BY <4>2 DEF StatusStep, IsTerminal, Outcomes
            <4> QED
                BY <4>1, <4>3
        <3> QED
            BY <1>2, <3>1, <3>2, <3>3, <3>4, <3>5 DEF Writes
    <2> QED
        BY <2>1, <2>4 DEF StoredSound
<1> QED
    BY <1>1, <1>2, StoreSteps DEF DeliverJob, Crash

\* No wakeup is lost, whatever the caches lag behind and whatever fails: a
\* job that nothing will wake any more needs no waking.
THEOREM NoStrandedJobHolds == Spec => []NoStrandedJob
<1>1. Init => WakeInv
    <2> SUFFICES ASSUME Init PROVE WakeInv
        OBVIOUS
    <2>1. \A j \in Jobs : jobs[j] = NotFound(0)
        BY DEF Init
    <2>2. \A j \in Jobs : ~jobs[j].exists /\ ~jobs[j].deleting
        BY <2>1 DEF NotFound
    <2>3. \A j \in Jobs : ~IsTerminal(jobs[j].status)
        BY <2>1, EmptyFields DEF IsTerminal
    <2> QED
        BY <2>2, <2>3 DEF Init, WakeInv, NoStrandedJob
<1>2. TypeOK /\ StableInv /\ FreshInv /\ WakeInv /\ [Next]_vars => WakeInv'
    <2> SUFFICES ASSUME TypeOK, StableInv, FreshInv, WakeInv, [Next]_vars
                 PROVE  WakeInv'
        OBVIOUS
    <2>1. WorkerAwake /\ StoredSound
        BY DEF WakeInv, WorkerAwake, StoredSound
    <2>2. NoStrandedJob' /\ WorkerAwake' /\ StoredSound'
        BY <2>1, StrandedKept, AwakeKept, SoundKept
    <2> QED
        BY <2>2 DEF WakeInv, WorkerAwake, StoredSound
<1>3. WakeInv => NoStrandedJob
    BY DEF WakeInv
<1> QED
    BY <1>1, <1>2, <1>3, TypeCorrect, StableInvariant, FreshInvariant, PTL
    DEF Spec
=============================================================================
