------------------------ MODULE TrainingJobController ------------------------
(***************************************************************************)
(* The TrainingJob reconciler of operator/internal/controller at work:     *)
(* one worker goroutine of controller-runtime, the informer caches it      *)
(* reads, the API server it writes, the workqueue that wakes it, Argo      *)
(* running the Workflows it submits, and users.                            *)
(*                                                                         *)
(* A reconcile reads the cache in its first step and then makes one API    *)
(* call per step, so that anything may happen between two calls.  Every    *)
(* write to a TrainingJob appends the new version to the one watch stream  *)
(* of that kind; the cache holds the versions delivered so far, in order.  *)
(* A TrainingJob write succeeds only on the resourceVersion it was read    *)
(* at; creates and deletes carry no precondition.  Workflows are           *)
(* unstructured, which the manager's client reads from the API server and  *)
(* not from a cache.                                                       *)
(***************************************************************************)
EXTENDS TrainingJobTypes, Sequences

CONSTANTS
    NoJob,            \* what the worker holds between two reconciles
    CacheLag,         \* FALSE: a reconcile begins with up-to-date caches
    HardValues,       \* values of spec.hardGPUs that users set
    ArgoPhases,       \* phases Argo moves a Workflow to
    MaxIncarnations,  \* bound: creations of one name
    Deletable,        \* bound: jobs that users delete
    MaxQuotaEdits,    \* bound: user changes of the GPUQuota
    MaxFaults,        \* bound: crashes and failed calls
    MaxVanished       \* bound: Workflows that vanish under the operator

ASSUME ControllerAssumption ==
    /\ NoJob \notin Jobs
    /\ CacheLag \in BOOLEAN
    /\ HardValues \subseteq 0 .. MaxInt32
    /\ ArgoPhases \subseteq WorkflowPhases \ {""}
    /\ MaxIncarnations \in Nat
    /\ Deletable \subseteq Jobs
    /\ MaxQuotaEdits \in Nat
    /\ MaxFaults \in Nat
    /\ MaxVanished \in Nat

VARIABLES
    \* the API server and what the informers have seen of it
    jobs,         \* jobs[j]: the stored TrainingJob
    watch,        \* versions of TrainingJobs on their way to the cache
    cache,        \* cache[j]: the version the informer holds
    quota,        \* the stored GPUQuota
    quotaWatch,   \* versions of it on their way to the cache
    quotaCache,   \* the version the informer holds
    workflows,    \* the stored Workflows
    wfEvents,     \* jobs with an undelivered event of an owned Workflow
    \* the workqueue
    queue,        \* jobs ready to be reconciled
    timers,       \* timers[j]: the delayed entry of j, if any
    \* the worker
    pc,           \* the API call it makes next
    req,          \* the job being reconciled
    job,          \* its in-memory copy
    current,      \* no write to the object since that copy was read
    outcome,      \* what follows the status write
    \* time and bounds
    expired,      \* <<name, uid>> whose TTL has elapsed
    quotaEdits,   \* user changes of the GPUQuota so far
    faults,       \* crashes and failed calls so far
    vanished,     \* vanished Workflows so far
    \* observation only: no action reads these
    created,      \* Workflows created for the incarnation, counted to
                  \* one past the promised maximum
    succeeded     \* a Workflow of the incarnation succeeded

apiVars == <<jobs, watch>>
quotaVars == <<quota, quotaWatch, quotaCache, quotaEdits>>
wfVars == <<workflows, wfEvents, created, succeeded>>
faultVars == <<faults, vanished>>
workerVars == <<pc, req, job, current, outcome>>
vars == <<jobs, watch, cache, quota, quotaWatch, quotaCache, workflows,
          wfEvents, queue, timers, pc, req, job, current, outcome, expired,
          quotaEdits, faults, vanished, created, succeeded>>

Timers == {"none", "backoff", "recheck", "expiry"}

PCs == {"idle", "deleteOwned", "removeFinalizer", "addFinalizer",
        "deleteExpired", "getWorkflow", "createWorkflow", "deleteFailed",
        "statusUpdate", "quotaStatus"}

Outcomes == {"none", "queued", "submitted", "propagated", "retrying",
             "finished"}

JobEvent == [job : Jobs, object : TrainingJob]

Workflow == [job : Jobs, attempt : Nat, uid : Nat, phase : WorkflowPhases]

TypeOK ==
    /\ jobs \in [Jobs -> TrainingJob]
    /\ watch \in Seq(JobEvent)
    /\ cache \in [Jobs -> TrainingJob]
    /\ quota \in GPUQuota
    /\ quotaWatch \in Seq(GPUQuota)
    /\ quotaCache \in GPUQuota
    /\ workflows \subseteq Workflow
    /\ wfEvents \subseteq Jobs
    /\ queue \subseteq Jobs
    /\ timers \in [Jobs -> Timers]
    /\ pc \in PCs
    /\ req \in Jobs \cup {NoJob}
    /\ (pc # "idle") => (req \in Jobs)
    /\ job \in TrainingJob
    /\ current \in BOOLEAN
    /\ outcome \in Outcomes
    /\ expired \subseteq Jobs \X Nat
    /\ quotaEdits \in Nat
    /\ faults \in Nat
    /\ vanished \in Nat
    /\ created \in [Jobs -> Nat]
    /\ succeeded \in [Jobs -> BOOLEAN]

\* An installation before any TrainingJob is submitted: GitOps may or may not
\* have created the quota, and nothing has reached the operator yet.
Init ==
    /\ jobs = [j \in Jobs |-> NotFound(0)]
    /\ watch = <<>>
    /\ cache = jobs
    /\ quota \in {NoQuota} \cup
           {[NoQuota EXCEPT !.exists = TRUE, !.hardGPUs = h] : h \in HardValues}
    /\ quotaWatch = <<>>
    /\ quotaCache = quota
    /\ workflows = {}
    /\ wfEvents = {}
    /\ queue = {}
    /\ timers = [j \in Jobs |-> "none"]
    /\ pc = "idle"
    /\ req = NoJob
    /\ job = NotFound(0)
    /\ current = FALSE
    /\ outcome = "none"
    /\ expired = {}
    /\ quotaEdits = 0
    /\ faults = 0
    /\ vanished = 0
    /\ created = [j \in Jobs |-> 0]
    /\ succeeded = [j \in Jobs |-> FALSE]

-----------------------------------------------------------------------------
(* The API server and the workqueue, as the reconciler uses them.          *)

\* A write to TrainingJob j is stored and sent to the watchers.
StoreJob(j, object) ==
    /\ jobs' = [jobs EXCEPT ![j] = object]
    /\ watch' = Append(watch, [job |-> j, object |-> object])

\* A write by someone else: a copy of j that the worker holds is outdated.
UserWritesJob(j, object) ==
    /\ StoreJob(j, object)
    /\ current' = (current /\ req # j)

WriteQuota(object) ==
    /\ quota' = object
    /\ quotaWatch' = Append(quotaWatch, object)

IsWorkflowOf(w, j, attempt) == w.job = j /\ w.attempt = attempt

\* The delaying queue keeps one entry per job, the earlier one.
Sooner(t, u) ==
    IF "backoff" \in {t, u} THEN "backoff"
    ELSE IF "recheck" \in {t, u} THEN "recheck"
    ELSE IF "expiry" \in {t, u} THEN "expiry"
    ELSE "none"

\* Mutation: the RequeueAfter of the TTL branch is forgotten.
AddAfterUnlessExpiry(j, delay) ==
    timers' = [timers EXCEPT ![j] = IF delay = "expiry" THEN @
                                    ELSE Sooner(@, delay)]

AddAfter(j, delay) == timers' = [timers EXCEPT ![j] = Sooner(@, delay)]

\* The end of a reconcile; the worker forgets what it read.
Stop ==
    /\ pc' = "idle"
    /\ req' = NoJob
    /\ job' = NotFound(0)
    /\ current' = FALSE
    /\ outcome' = "none"

Return(delay) == Stop /\ AddAfter(req, delay)

\* On to the next call with the in-memory copy changed to object.
Goto(label, object, result) ==
    /\ pc' = label
    /\ req' = req
    /\ job' = object
    /\ current' = current
    /\ outcome' = result

-----------------------------------------------------------------------------
(* Reconcile, first step: everything that is decided from the caches.      *)

CacheReadable ==
    CacheLag \/ (quotaWatch = <<>> /\ watch = <<>>)

Dequeue(j) ==
    /\ pc = "idle"
    /\ j \in queue
    /\ CacheReadable
    /\ queue' = queue \ {j}
    /\ UNCHANGED <<jobs, watch, cache, quotaVars, wfVars, expired, faultVars>>

\* The informer holds the latest version of j.
CacheCurrent(j) == \A i \in DOMAIN watch : watch[i].job # j

\* Mutation: the copy loses its resourceVersion, and writes go through.
LoadUnversioned(j, label, object, result) ==
    /\ pc' = label
    /\ req' = j
    /\ job' = object
    /\ current' = TRUE
    /\ outcome' = result
    /\ UNCHANGED timers

Load(j, label, object, result) ==
    /\ pc' = label
    /\ req' = j
    /\ job' = object
    /\ current' = CacheCurrent(j)
    /\ outcome' = result
    /\ UNCHANGED timers

\* A job that is neither gone, nor being deleted, nor still unguarded.
IsActive(object) == object.exists /\ ~object.deleting /\ object.finalizer

\* Not found, or deleted with nothing left to clean up.
ReconcileGone(j) ==
    /\ Dequeue(j)
    /\ ~cache[j].exists \/ (cache[j].deleting /\ ~cache[j].finalizer)
    /\ UNCHANGED <<workerVars, timers>>

ReconcileDeletion(j) ==
    /\ Dequeue(j)
    /\ cache[j].exists /\ cache[j].deleting /\ cache[j].finalizer
    /\ Load(j, "deleteOwned", cache[j], "none")

ReconcileFinalizer(j) ==
    /\ Dequeue(j)
    /\ cache[j].exists /\ ~cache[j].deleting /\ ~cache[j].finalizer
    /\ Load(j, "addFinalizer", [cache[j] EXCEPT !.finalizer = TRUE], "none")

\* Mutation: expiry remembered by name, across incarnations.
TTLExpiredByName(j, object) == \E e \in expired : e[1] = j

TTLExpired(j, object) == <<j, object.uid>> \in expired

\* Terminal phases: wait for the TTL, or delete the job once it has elapsed.
ReconcileTTL(j) ==
    /\ Dequeue(j)
    /\ IsActive(cache[j])
    /\ IsTerminal(cache[j].status)
    /\ \/ /\ ~(HasTTL[j] /\ cache[j].status.completionTime)
          /\ UNCHANGED <<workerVars, timers>>
       \/ /\ HasTTL[j] /\ cache[j].status.completionTime
          /\ ~TTLExpired(j, cache[j])
          /\ AddAfter(j, "expiry")
          /\ UNCHANGED workerVars
       \/ /\ HasTTL[j] /\ cache[j].status.completionTime
          /\ TTLExpired(j, cache[j])
          /\ Load(j, "deleteExpired", cache[j], "none")

QuotaAdmits(j) == ~quotaCache.exists \/ ~ExceedsQuota(j, cache, quotaCache)

Park(status) ==
    setCondition([status EXCEPT !.phase = "Queued"], "QuotaGranted", "False")

\* quotaGate refuses the job: it is parked in Queued.
ReconcileDenied(j) ==
    /\ Dequeue(j)
    /\ IsActive(cache[j])
    /\ NeedsQuota(cache[j].status)
    /\ ~QuotaAdmits(j)
    /\ Load(j, "statusUpdate", [cache[j] EXCEPT !.status = Park(@)], "queued")

\* quotaGate admits it, recording so if there is a quota, or it has started.
Granted(status) ==
    IF NeedsQuota(status) /\ quotaCache.exists
    THEN setCondition(status, "QuotaGranted", "True")
    ELSE status

ReconcileAttempt(j) ==
    /\ Dequeue(j)
    /\ IsActive(cache[j])
    /\ ~IsTerminal(cache[j].status)
    /\ NeedsQuota(cache[j].status) => QuotaAdmits(j)
    /\ Load(j, "getWorkflow", [cache[j] EXCEPT !.status = Granted(@)], "none")

BeginReconcile(j) ==
    \/ ReconcileGone(j)
    \/ ReconcileDeletion(j)
    \/ ReconcileFinalizer(j)
    \/ ReconcileTTL(j)
    \/ ReconcileDenied(j)
    \/ ReconcileAttempt(j)

-----------------------------------------------------------------------------
(* Reconcile, the API calls.                                               *)

\* Mutation: only the Workflow that the status names.
CurrentWorkflow(object) ==
    {w \in workflows : IsWorkflowOf(w, req, object.status.workflowName)}

\* Every Workflow that carries the job's name in its label.
OwnedWorkflows(object) == {w \in workflows : w.job = req}

\* DeleteAllOf by label.
DeleteOwnedWorkflows ==
    /\ pc = "deleteOwned"
    /\ workflows' = workflows \ OwnedWorkflows(job)
    /\ wfEvents' = IF workflows' = workflows THEN wfEvents
                   ELSE wfEvents \cup {req}
    /\ Goto("removeFinalizer", [job EXCEPT !.finalizer = FALSE], "none")
    /\ UNCHANGED <<apiVars, cache, quotaVars, queue, timers, expired, faultVars,
                   created, succeeded>>

\* The last finalizer off a deleted object removes it.
RemoveFinalizer ==
    /\ pc = "removeFinalizer"
    /\ \/ /\ current
          /\ StoreJob(req, NotFound(job.uid))
          /\ Return("none")
       \/ /\ ~current
          /\ Return("backoff")
          /\ UNCHANGED apiVars
    /\ UNCHANGED <<cache, quotaVars, wfVars, queue, expired, faultVars>>

\* The update itself wakes the next reconcile.
AddFinalizer ==
    /\ pc = "addFinalizer"
    /\ \/ /\ current
          /\ StoreJob(req, job)
          /\ Return("none")
       \/ /\ ~current
          /\ Return("backoff")
          /\ UNCHANGED apiVars
    /\ UNCHANGED <<cache, quotaVars, wfVars, queue, expired, faultVars>>

\* Deleting a TrainingJob by name: marked while a finalizer holds it.
AfterDelete(object) ==
    IF object.finalizer THEN [object EXCEPT !.deleting = TRUE]
    ELSE NotFound(object.uid)

\* No precondition: whatever bears the name now is deleted.  NotFound is
\* ignored and a second delete changes nothing.
DeleteExpired ==
    /\ pc = "deleteExpired"
    /\ IF jobs[req].exists /\ ~jobs[req].deleting
       THEN StoreJob(req, AfterDelete(jobs[req]))
       ELSE UNCHANGED apiVars
    /\ Return("none")
    /\ UNCHANGED <<cache, quotaVars, wfVars, queue, expired, faultVars>>

\* What a found Workflow makes of the status.
Propagate(status) ==
    [status EXCEPT !.phase = "Running", !.workflowName = Attempt(status)]

Succeed(status) ==
    setCondition([status EXCEPT !.phase = "Succeeded",
                                !.completionTime = TRUE,
                                !.modelURI = TRUE], "Complete", "True")

\* Mutation: Argo's own phase is written into the status.
FailUnmapped(status) ==
    setCondition([status EXCEPT !.phase = "Error",
                                !.completionTime = TRUE], "Complete", "False")

Fail(status) ==
    setCondition([status EXCEPT !.phase = "Failed",
                                !.completionTime = TRUE], "Complete", "False")

\* Mutation: the counter starts over with the retry.
RetryReset(status) == [status EXCEPT !.phase = "Pending", !.attempts = 0]

Retry(status) == [status EXCEPT !.phase = "Pending"]

\* Mutation: the Workflow named in the status is looked up instead.
RecordedWorkflowNotFound ==
    /\ ~\E w \in workflows : IsWorkflowOf(w, req, job.status.workflowName)
    /\ Goto("createWorkflow", job, "none")
    /\ UNCHANGED timers

WorkflowNotFound ==
    /\ ~\E w \in workflows : IsWorkflowOf(w, req, Attempt(job.status))
    /\ Goto("createWorkflow", job, "none")
    /\ UNCHANGED timers

WorkflowActive(w) ==
    /\ MapWorkflowPhase(w.phase) = "Running"
    /\ IF \/ job.status.phase # "Running"
          \/ job.status.workflowName # Attempt(job.status)
       THEN /\ Goto("statusUpdate", [job EXCEPT !.status = Propagate(@)],
                    "propagated")
            /\ UNCHANGED timers
       ELSE Return("none")

WorkflowSucceeded(w) ==
    /\ MapWorkflowPhase(w.phase) = "Succeeded"
    /\ Goto("statusUpdate", [job EXCEPT !.status = Succeed(@)], "finished")
    /\ UNCHANGED timers

WorkflowFailed(w) ==
    /\ MapWorkflowPhase(w.phase) = "Failed"
    /\ IF MayRetry(req, job.status)
       THEN Goto("deleteFailed", job, "none")
       ELSE Goto("statusUpdate", [job EXCEPT !.status = Fail(@)], "finished")
    /\ UNCHANGED timers

\* r.Get on the Workflow of the current attempt, and the switch on it.
GetWorkflow ==
    /\ pc = "getWorkflow"
    /\ \/ WorkflowNotFound
       \/ \E w \in workflows :
             /\ IsWorkflowOf(w, req, Attempt(job.status))
             /\ WorkflowActive(w) \/ WorkflowSucceeded(w) \/ WorkflowFailed(w)
    /\ UNCHANGED <<apiVars, cache, quotaVars, wfVars, queue, expired, faultVars>>

\* Mutation: the counter is not written.
SubmittedUncounted(status) ==
    setCondition([status EXCEPT
        !.phase = "Running",
        !.workflowName = Attempt(status),
        !.startTime = TRUE], "WorkflowSubmitted", "True")

\* The status after attempt's Workflow was created.  Only a new attempt is
\* counted: re-creating a Running job's Workflow is not.
Submitted(status) ==
    setCondition([status EXCEPT
        !.phase = "Running",
        !.attempts = IF Creating(status) THEN Attempt(status) ELSE @,
        !.workflowName = Attempt(status),
        !.startTime = TRUE], "WorkflowSubmitted", "True")

NewWorkflow ==
    [job |-> req, attempt |-> Attempt(job.status), uid |-> job.uid,
     phase |-> ""]

\* created counts Workflows of this incarnation of the name only, and stops
\* one past the promised BackoffLimit + 1.
CountCreated ==
    created' = [created EXCEPT ![req] =
        IF job.uid = jobs[req].uid /\ @ < BackoffLimit[req] + 2
        THEN @ + 1 ELSE @]

CreateWorkflow ==
    /\ pc = "createWorkflow"
    /\ IF \E w \in workflows : IsWorkflowOf(w, req, Attempt(job.status))
       THEN /\ Return("backoff")            \* AlreadyExists
            /\ UNCHANGED wfVars
       ELSE /\ workflows' = workflows \cup {NewWorkflow}
            /\ wfEvents' = wfEvents \cup {req}
            /\ CountCreated
            /\ Goto("statusUpdate", [job EXCEPT !.status = Submitted(@)],
                    "submitted")
            /\ UNCHANGED <<timers, succeeded>>
    /\ UNCHANGED <<apiVars, cache, quotaVars, queue, expired, faultVars>>

\* Retry: the failed Workflow goes first, the status write follows.
DeleteFailed ==
    /\ pc = "deleteFailed"
    /\ workflows' = {w \in workflows :
                        ~IsWorkflowOf(w, req, Attempt(job.status))}
    /\ wfEvents' = IF workflows' = workflows THEN wfEvents
                   ELSE wfEvents \cup {req}
    /\ Goto("statusUpdate", [job EXCEPT !.status = Retry(@)], "retrying")
    /\ UNCHANGED <<apiVars, cache, quotaVars, queue, timers, expired, faultVars,
                   created, succeeded>>

\* Mutation: a parked job is not re-checked.
ResultNoRecheck(o) ==
    CASE o \in {"retrying", "finished"} -> "backoff"
      [] OTHER                          -> "none"

\* What Reconcile returns after the status write, or after the quota status
\* update that follows it.
Result(o) ==
    CASE o = "queued"                   -> "recheck"
      [] o \in {"retrying", "finished"} -> "backoff"
      [] OTHER                          -> "none"

\* Mutation: a parked job does not refresh the quota's status.
RefreshesQuotaStarted(o) == o \in {"submitted", "finished"}

RefreshesQuota(o) == o \in {"queued", "submitted", "finished"}

\* Status().Update: only on the version that was read, else a conflict; a
\* status that is already stored writes no new version.
StatusUpdate ==
    /\ pc = "statusUpdate"
    /\ \/ /\ current
          /\ IF job.status = jobs[req].status
             THEN UNCHANGED apiVars
             ELSE StoreJob(req, [jobs[req] EXCEPT !.status = job.status])
          /\ IF RefreshesQuota(outcome)
             THEN /\ pc' = "quotaStatus"
                  /\ job' = NotFound(0)
                  /\ current' = FALSE
                  /\ UNCHANGED <<req, outcome, timers>>
             ELSE Return(Result(outcome))
       \/ /\ ~current
          /\ Return("backoff")
          /\ UNCHANGED apiVars
    /\ UNCHANGED <<cache, quotaVars, wfVars, queue, expired, faultVars>>

\* The GPUQuota as updateQuotaStatus wants it, from the caches.
RefreshedQuota ==
    [quotaCache EXCEPT !.usedGPUs = UsedGPUs(cache, {}),
                       !.queuedJobs = CountQueued(cache)]

\* updateQuotaStatus: best effort, a conflict is only logged.  It lists the
\* caches as they are, most often before the write it follows has arrived.
UpdateQuotaStatus ==
    /\ pc = "quotaStatus"
    /\ IF /\ quotaCache.exists
          /\ RefreshedQuota # quotaCache
          /\ quotaWatch = <<>>
       THEN WriteQuota(RefreshedQuota)
       ELSE UNCHANGED <<quota, quotaWatch>>
    /\ Return(Result(outcome))
    /\ UNCHANGED <<apiVars, cache, quotaCache, quotaEdits, wfVars, queue,
                   expired, faultVars>>

WorkerStep ==
    \/ DeleteOwnedWorkflows \/ RemoveFinalizer \/ AddFinalizer
    \/ DeleteExpired \/ GetWorkflow \/ CreateWorkflow \/ DeleteFailed
    \/ StatusUpdate \/ UpdateQuotaStatus

-----------------------------------------------------------------------------
(* Faults.                                                                 *)

Disturb == faults < MaxFaults /\ faults' = faults + 1

\* Mutation: errors are logged and swallowed.
OnErrorIgnore(label) == Result(outcome)

\* A returned error is retried with backoff; a failed quota status update is
\* only logged.
OnError(label) == IF label = "quotaStatus" THEN Result(outcome) ELSE "backoff"

\* A call returns an error, and the reconcile ends.
ApiFails ==
    /\ Disturb
    /\ pc # "idle"
    /\ Return(OnError(pc))
    /\ UNCHANGED <<apiVars, cache, quotaVars, wfVars, queue, expired, vanished>>

\* The manager dies and is restarted: it lists everything afresh, and every
\* listed object is reconciled.
Crash ==
    /\ Disturb
    /\ Stop
    /\ cache' = jobs
    /\ watch' = <<>>
    /\ quotaCache' = quota
    /\ quotaWatch' = <<>>
    /\ wfEvents' = {}
    /\ queue' = {j \in Jobs : jobs[j].exists}
    /\ timers' = [j \in Jobs |-> "none"]
    /\ UNCHANGED <<jobs, quota, quotaEdits, workflows, created, succeeded,
                   expired, vanished>>

\* A Workflow disappears under the operator: Argo's own TTL, or kubectl.
VanishWorkflow(w) ==
    /\ vanished < MaxVanished
    /\ vanished' = vanished + 1
    /\ workflows' = workflows \ {w}
    /\ wfEvents' = wfEvents \cup {w.job}
    /\ UNCHANGED <<apiVars, cache, quotaVars, queue, timers, workerVars,
                   expired, faults, created, succeeded>>

-----------------------------------------------------------------------------
(* Users, Argo, informers, clocks.                                         *)

CreateJob(j) ==
    /\ ~jobs[j].exists
    /\ jobs[j].uid < MaxIncarnations
    /\ UserWritesJob(j, [NotFound(jobs[j].uid + 1) EXCEPT !.exists = TRUE])
    /\ created' = [created EXCEPT ![j] = 0]
    /\ succeeded' = [succeeded EXCEPT ![j] = FALSE]
    /\ UNCHANGED <<cache, quotaVars, workflows, wfEvents, queue, timers, pc,
                   req, job, outcome, expired, faultVars>>

DeleteJob(j) ==
    /\ j \in Deletable
    /\ jobs[j].exists
    /\ ~jobs[j].deleting
    /\ UserWritesJob(j, AfterDelete(jobs[j]))
    /\ UNCHANGED <<cache, quotaVars, wfVars, queue, timers, pc, req, job,
                   outcome, expired, faultVars>>

\* Users set the quota or remove it.
EditQuota ==
    /\ quotaEdits < MaxQuotaEdits
    /\ quotaEdits' = quotaEdits + 1
    /\ \/ \E h \in HardValues :
             WriteQuota([quota EXCEPT !.exists = TRUE, !.hardGPUs = h])
       \/ quota.exists /\ WriteQuota(NoQuota)
    /\ UNCHANGED <<apiVars, cache, quotaCache, wfVars, queue, timers,
                   workerVars, expired, faultVars>>

SetWorkflowPhase(w, phase) ==
    /\ workflows' = (workflows \ {w}) \cup {[w EXCEPT !.phase = phase]}
    /\ wfEvents' = wfEvents \cup {w.job}
    /\ succeeded' = [succeeded EXCEPT ![w.job] =
                        @ \/ (phase = "Succeeded" /\ w.uid = jobs[w.job].uid)]
    /\ UNCHANGED <<apiVars, cache, quotaVars, queue, timers, workerVars,
                   expired, faultVars, created>>

\* Argo picks a Workflow up; retries of its steps leave it Running.
ArgoStarts(w) ==
    /\ w.phase = ""
    /\ \E p \in ArgoPhases \ CompletedPhases : SetWorkflowPhase(w, p)

ArgoEnds(w) ==
    /\ w.phase \notin CompletedPhases
    /\ \E p \in ArgoPhases \cap CompletedPhases : SetWorkflowPhase(w, p)

\* The informer hands over the next version and its job is enqueued.
DeliverJob ==
    /\ watch # <<>>
    /\ cache' = [cache EXCEPT ![Head(watch).job] = Head(watch).object]
    /\ watch' = Tail(watch)
    /\ queue' = queue \cup {Head(watch).job}
    /\ UNCHANGED <<jobs, quotaVars, wfVars, timers, workerVars, expired,
                   faultVars>>

\* Mutation: the controller is set up without Owns(wf).
IgnoreWorkflowEvent(j) ==
    /\ j \in wfEvents
    /\ wfEvents' = wfEvents \ {j}
    /\ UNCHANGED <<apiVars, cache, quotaVars, workflows, created, succeeded,
                   queue, timers, workerVars, expired, faultVars>>

\* Owns(wf): the owner of the changed Workflow is enqueued, nobody else.
DeliverWorkflowEvent(j) ==
    /\ j \in wfEvents
    /\ wfEvents' = wfEvents \ {j}
    /\ queue' = queue \cup {j}
    /\ UNCHANGED <<apiVars, cache, quotaVars, workflows, created, succeeded,
                   timers, workerVars, expired, faultVars>>

\* GPUQuota is read through a cache but not watched by the controller.
DeliverQuota ==
    /\ quotaWatch # <<>>
    /\ quotaCache' = Head(quotaWatch)
    /\ quotaWatch' = Tail(quotaWatch)
    /\ UNCHANGED <<apiVars, cache, quota, quotaEdits, wfVars, queue, timers,
                   workerVars, expired, faultVars>>

\* The stored job has finished and its TTL is running.
AwaitsExpiry(j) ==
    /\ jobs[j].exists
    /\ HasTTL[j] /\ jobs[j].status.completionTime
    /\ ~TTLExpired(j, jobs[j])

ElapseTTL(j) ==
    /\ AwaitsExpiry(j)
    /\ expired' = expired \cup {<<j, jobs[j].uid>>}
    /\ UNCHANGED <<apiVars, cache, quotaVars, wfVars, queue, timers,
                   workerVars, faultVars>>

\* A delayed entry becomes due; an expiry entry not before the TTL elapsed.
TimerFires(j) ==
    /\ timers[j] # "none"
    /\ (timers[j] = "expiry") => ~AwaitsExpiry(j)
    /\ timers' = [timers EXCEPT ![j] = "none"]
    /\ queue' = queue \cup {j}
    /\ UNCHANGED <<apiVars, cache, quotaVars, wfVars, workerVars, expired,
                   faultVars>>

\* The operator, its informers and its users; everything but Argo.
OperatorNext ==
    \/ \E j \in Jobs : BeginReconcile(j)
    \/ WorkerStep
    \/ ApiFails
    \/ Crash
    \/ \E w \in workflows : VanishWorkflow(w)
    \/ \E j \in Jobs : CreateJob(j) \/ DeleteJob(j)
    \/ EditQuota
    \/ DeliverJob
    \/ \E j \in Jobs : DeliverWorkflowEvent(j)
    \/ DeliverQuota
    \/ \E j \in Jobs : ElapseTTL(j) \/ TimerFires(j)

Next == OperatorNext \/ \E w \in workflows : ArgoStarts(w) \/ ArgoEnds(w)

Spec == Init /\ [][Next]_vars

-----------------------------------------------------------------------------
(* Fairness: what the runtime guarantees.                                  *)

ArgoEndsAttempt(j, a) ==
    \E w \in workflows : IsWorkflowOf(w, j, a) /\ ArgoEnds(w)

\* The workqueue is first-in first-out and the worker never stops, so a
\* queued job is served however often others are queued: SF.  Watches and
\* timers are delivered, and every Workflow ends: the template bounds it
\* with activeDeadlineSeconds.  No fairness for users or faults.
Fairness ==
    /\ \A j \in Jobs : SF_vars(BeginReconcile(j))
    /\ WF_vars(WorkerStep)
    /\ WF_vars(DeliverJob)
    /\ \A j \in Jobs : WF_vars(DeliverWorkflowEvent(j))
    /\ WF_vars(DeliverQuota)
    /\ \A j \in Jobs : WF_vars(ElapseTTL(j))
    /\ \A j \in Jobs : WF_vars(TimerFires(j))
    /\ \A j \in Jobs : \A a \in 1 .. BackoffLimit[j] + 1 :
           WF_vars(ArgoEndsAttempt(j, a))

FairSpec == Spec /\ Fairness
=============================================================================
