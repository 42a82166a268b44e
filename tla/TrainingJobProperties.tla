------------------------ MODULE TrainingJobProperties ------------------------
(***************************************************************************)
(* What the TrainingJob operator promises, stated over the state of        *)
(* TrainingJobController.                                                  *)
(***************************************************************************)
EXTENDS TrainingJobController

LiveWorkflows(j) ==
    {w \in workflows : w.job = j /\ w.phase \notin CompletedPhases}

\* Nothing will wake the reconciler for j any more.
Unattended(j) ==
    /\ j \notin queue
    /\ j \notin wfEvents
    /\ CacheCurrent(j)
    /\ timers[j] = "none"
    /\ req # j

\* Everything has been delivered and reconciled; only timed re-checks and
\* TTLs are left.
AtRest ==
    /\ pc = "idle"
    /\ queue = {}
    /\ wfEvents = {}
    /\ watch = <<>>
    /\ quotaWatch = <<>>
    /\ \A j \in Jobs : timers[j] # "backoff"

-----------------------------------------------------------------------------
(* Whatever the caches lag behind, and whatever fails.                     *)

\* Retry budget: attempts never exceeds backoffLimit + 1, and a job is only
\* given up as Failed when all of them are used.
RetryBudget ==
    \A j \in Jobs :
        /\ jobs[j].status.attempts <= BackoffLimit[j] + 1
        /\ jobs[j].status.phase = "Failed" =>
               jobs[j].status.attempts = BackoffLimit[j] + 1

\* No Workflow outlives its job: while a Workflow exists, the TrainingJob
\* incarnation that owns it exists and is still held by the finalizer.
NoOrphanWorkflow ==
    \A w \in workflows :
        /\ jobs[w.job].exists
        /\ jobs[w.job].finalizer
        /\ jobs[w.job].uid = w.uid

\* A Succeeded job is one whose own incarnation had a Workflow succeed, and
\* it carries the model URI that serving reads.
SucceededHasModel ==
    \A j \in Jobs :
        jobs[j].status.phase = "Succeeded" =>
            succeeded[j] /\ jobs[j].status.modelURI

\* r.Create never meets AlreadyExists: between the Get that found the name
\* free and the Create nothing else takes it.
CreateNeverCollides ==
    pc = "createWorkflow" =>
        \A w \in workflows : ~IsWorkflowOf(w, req, Attempt(job.status))

\* No lost wakeup: a job that nothing will wake is gone, or finished without
\* a TTL, or is Running with its current attempt's Workflow still going.
NoStrandedJob ==
    \A j \in Jobs :
        Unattended(j) =>
            \/ ~jobs[j].exists
            \/ /\ IsTerminal(jobs[j].status)
               /\ ~HasTTL[j]
               /\ ~jobs[j].deleting
            \/ /\ jobs[j].status.phase = "Running"
               /\ ~jobs[j].deleting
               /\ \E w \in LiveWorkflows(j) :
                     w.attempt = Attempt(jobs[j].status)

\* A finished job stays as it finished: no later write, stale or retried,
\* changes its status before the object is gone.
TerminalStable ==
    [][\A j \in Jobs :
          IsTerminal(jobs[j].status) =>
              \/ jobs'[j].status = jobs[j].status
              \/ ~jobs'[j].exists]_vars

\* The operator's unconditional delete only ever hits the finished
\* incarnation whose TTL elapsed, never a later job of the same name.
TTLDeletesOnlyExpired ==
    [][pc = "deleteExpired" /\ jobs' # jobs =>
          /\ IsTerminal(jobs[req].status)
          /\ <<req, jobs[req].uid>> \in expired]_vars

-----------------------------------------------------------------------------
(* Why RetryBudget and TerminalStable hold: the inductive invariants of    *)
(* TrainingJobSafetyProofs.                                                *)

\* A status within the budget; one that still has to start an attempt has
\* an attempt left.
WithinBudget(j, status) ==
    /\ status.attempts <= BackoffLimit[j] + 1
    /\ status.phase = "Failed" => status.attempts = BackoffLimit[j] + 1
    /\ NeedsQuota(status) => status.attempts <= BackoffLimit[j]

\* Every copy of every status is within the budget, stale ones included: the
\* stored one, those on their way, the cached one and the worker's.
BudgetInv ==
    /\ \A j \in Jobs : WithinBudget(j, jobs[j].status)
    /\ \A j \in Jobs : WithinBudget(j, cache[j].status)
    /\ \A i \in DOMAIN watch :
          WithinBudget(watch[i].job, watch[i].object.status)
    /\ pc # "idle" => WithinBudget(req, job.status)
    /\ pc \in {"getWorkflow", "createWorkflow", "deleteFailed"} =>
          ~IsTerminal(job.status)
    /\ pc = "deleteFailed" => MayRetry(req, job.status)

\* The last event of a job on its way carries the stored version; a job
\* without one is cached as it is stored.
StreamInv ==
    /\ \A j \in Jobs : CacheCurrent(j) => cache[j] = jobs[j]
    /\ \A i \in DOMAIN watch :
          (\A k \in DOMAIN watch : k > i => watch[k].job # watch[i].job) =>
              watch[i].object = jobs[watch[i].job]

\* A copy that is still current was read from an object that exists, and not
\* from a finished one unless the worker only means to delete it.
CopyInv ==
    /\ (current /\ pc # "idle") => jobs[req].exists
    /\ (current /\ pc = "addFinalizer") =>
           job.exists /\ job.status = jobs[req].status
    /\ (current /\ pc \in {"getWorkflow", "createWorkflow", "deleteFailed",
                           "statusUpdate"}) => ~IsTerminal(jobs[req].status)

\* A name that is free bears no finished status.
GoneInv == \A j \in Jobs : ~jobs[j].exists => ~IsTerminal(jobs[j].status)

-----------------------------------------------------------------------------
(* Why the other promises hold: the inductive invariants of                *)
(* TrainingJobGuardProofs.                                                 *)

\* What a status write makes of a stored status s, by the path it ends.
StatusStep(j, s, t, path) ==
    /\ ~IsTerminal(s)
    /\ path \in Outcomes \ {"none"}
    /\ path = "queued" => NeedsQuota(s) /\ t.phase = "Queued"
    /\ path \in {"submitted", "propagated"} => t.phase = "Running"
    /\ path = "propagated" => t # s
    /\ path = "retrying" => t.phase = "Pending" /\ MayRetry(j, s)
    /\ path = "finished" =>
          /\ t.completionTime
          /\ \/ t.phase = "Succeeded"
             \/ t.phase = "Failed" /\ ~MayRetry(j, s)
    /\ t.attempts = IF path = "submitted" THEN Attempt(s) ELSE s.attempts

\* A copy that is still current was read from the stored version, no event
\* of its job is on the way, and the worker has changed nothing in it but
\* what its next write is for.
FreshInv ==
    (current /\ pc # "idle") =>
        /\ CacheCurrent(req)
        /\ pc \in {"deleteOwned", "removeFinalizer"} =>
              /\ jobs[req].exists /\ jobs[req].deleting
              /\ job.uid = jobs[req].uid
        /\ pc = "addFinalizer" =>
              /\ jobs[req].exists
              /\ ~jobs[req].deleting /\ ~jobs[req].finalizer
              /\ job = [jobs[req] EXCEPT !.finalizer = TRUE]
        /\ pc \in {"deleteExpired", "getWorkflow", "createWorkflow",
                   "deleteFailed", "statusUpdate"} => IsActive(jobs[req])
        /\ pc \in {"getWorkflow", "createWorkflow", "deleteFailed"} =>
              /\ ~IsTerminal(jobs[req].status)
              /\ job.status.phase = jobs[req].status.phase
              /\ job.status.attempts = jobs[req].status.attempts
              /\ job.status.workflowName = jobs[req].status.workflowName
        /\ pc = "deleteFailed" => MayRetry(req, job.status)
        /\ pc = "statusUpdate" =>
              StatusStep(req, jobs[req].status, job.status, outcome)

\* The finalizer guards a name: as long as some version of an active job is
\* about, however old, its incarnation is stored and held by the finalizer,
\* and it has finished if that version had.
Guards(stored, version) ==
    IsActive(version) =>
        /\ stored.exists
        /\ stored.finalizer
        /\ stored.uid = version.uid
        /\ IsTerminal(version.status) => IsTerminal(stored.status)

VersionsGuarded ==
    /\ \A j \in Jobs : Guards(jobs[j], cache[j])
    /\ \A i \in DOMAIN watch : Guards(jobs[watch[i].job], watch[i].object)
    /\ pc \in {"deleteExpired", "getWorkflow", "createWorkflow"} =>
          IsActive(job) /\ Guards(jobs[req], job)
    /\ pc = "deleteExpired" =>
          IsTerminal(job.status) /\ <<req, job.uid>> \in expired

\* A Workflow is created under that guard, and the guard is released only
\* when none is left.
WorkflowsGuarded ==
    /\ NoOrphanWorkflow
    /\ CreateNeverCollides
    /\ pc = "removeFinalizer" => \A w \in workflows : w.job # req

\* A status that says Succeeded was read off a Workflow that succeeded.
ModelInv ==
    /\ SucceededHasModel
    /\ \A w \in workflows : w.phase = "Succeeded" => succeeded[w.job]
    /\ (pc = "statusUpdate" /\ current /\ job.status.phase = "Succeeded") =>
          succeeded[req] /\ job.status.modelURI

\* No wakeup is lost while the worker is busy: a copy that is outdated has an
\* event on its way or queued, and so has a Workflow just created.
WakeInv ==
    /\ NoStrandedJob
    /\ pc = "idle" => req = NoJob
    /\ pc # "idle" =>
          \/ current \/ pc = "quotaStatus"
          \/ req \in queue \/ ~CacheCurrent(req)
    /\ (pc \in {"statusUpdate", "quotaStatus"} /\ outcome = "submitted") =>
          req \in queue \cup wfEvents
    /\ pc = "quotaStatus" => RefreshesQuota(outcome)
    /\ \A j \in Jobs :
          /\ jobs[j].deleting => jobs[j].finalizer
          /\ IsTerminal(jobs[j].status) => jobs[j].status.completionTime

-----------------------------------------------------------------------------
(* With up-to-date caches and no faults.                                   *)

\* The quota: GPUs of jobs with a live Workflow stay within hardGPUs.  A job
\* that is being deleted is about to lose its Workflow and is not counted.
QuotaRespected ==
    quota.exists =>
        SumGPUs({j \in Jobs : ~jobs[j].deleting /\ LiveWorkflows(j) # {}})
            <= quota.hardGPUs

\* A job never has two Workflows going at once.
SingleLiveWorkflow == \A j \in Jobs : Cardinality(LiveWorkflows(j)) <= 1

\* status.attempts is the number of Workflows created for the job, whenever
\* the reconciler is not in the middle of it.
AttemptsCountWorkflows ==
    \A j \in Jobs :
        (jobs[j].exists /\ ~jobs[j].deleting /\ req # j) =>
            created[j] = jobs[j].status.attempts

-----------------------------------------------------------------------------
(* Why these hold: the inductive invariants of TrainingJobSyncedProofs.    *)

\* Reconciles begin with up-to-date caches, no call fails, and only the
\* operator deletes Workflows.
Synced == ~CacheLag /\ MaxFaults = 0 /\ MaxVanished = 0

\* What a status says of the Workflows of its job is so: a job that waits has
\* none, one that runs has that of its last attempt, one that has finished
\* has none going.
Matches(W, j, status) ==
    /\ NeedsQuota(status) => \A w \in W : w.job # j
    /\ status.phase = "Running" =>
          /\ status.attempts > 0
          /\ \E w \in W : IsWorkflowOf(w, j, status.attempts)
    /\ IsTerminal(status) =>
          \A w \in W : w.job = j => w.phase \in CompletedPhases

\* Names come one at a time: no job has two Workflows.
OneWorkflow == \A v, w \in workflows : v.job = w.job => v = w

\* The stored status is true and counts the Workflows created, unless the
\* worker has changed them and is about to write it.
StoredTrue ==
    \A j \in Jobs :
        (/\ jobs[j].exists /\ ~jobs[j].deleting
         /\ ~(pc = "statusUpdate" /\ req = j)) =>
            /\ Matches(workflows, j, jobs[j].status)
            /\ created[j] = jobs[j].status.attempts

\* A status is first written under the finalizer.
UnguardedEmpty ==
    \A j \in Jobs : ~jobs[j].finalizer => jobs[j].status = EmptyStatus

\* A user's delete is the one thing that outdates a copy the worker is busy
\* with, and the finalizer holds the name until it is done.
InterruptedByDelete ==
    (\/ pc \in {"deleteOwned", "removeFinalizer"}
     \/ /\ pc \in {"getWorkflow", "createWorkflow", "deleteFailed",
                   "statusUpdate"}
        /\ ~current) => jobs[req].exists /\ jobs[req].deleting

\* What the worker holds is true as well, and a status it is about to write
\* continues the stored one.
WorkerTrue ==
    /\ pc = "getWorkflow" => Matches(workflows, req, job.status)
    /\ pc = "createWorkflow" =>
          NeedsQuota(job.status) /\ \A w \in workflows : w.job # req
    /\ pc = "deleteFailed" => job.status.phase = "Running"
    /\ (pc = "statusUpdate" /\ current) =>
          /\ Matches(workflows, req, job.status)
          /\ created[req] = job.status.attempts
          /\ IF outcome \in {"queued", "submitted"}
             THEN NeedsQuota(jobs[req].status)
             ELSE jobs[req].status.phase = "Running"

SyncedInv ==
    /\ OneWorkflow
    /\ StoredTrue
    /\ UnguardedEmpty
    /\ InterruptedByDelete
    /\ WorkerTrue

\* The jobs that have GPUs, or that the gate has let through.
Committed ==
    InPhase(jobs, "Running") \cup
    {j \in Jobs : /\ req = j
                  /\ \/ pc \in {"getWorkflow", "createWorkflow"}
                     \/ pc = "statusUpdate" /\ outcome = "submitted"}

\* Every version of the GPUQuota that is about has the stored limit.
QuotaSame ==
    \A q \in {quotaCache} \cup {quotaWatch[i] : i \in DOMAIN quotaWatch} :
        q.exists = quota.exists /\ q.hardGPUs = quota.hardGPUs

\* What the gate has let through stays within that limit.
CommittedInv ==
    /\ QuotaSame
    /\ quota.exists => SumGPUs(Committed) <= quota.hardGPUs

-----------------------------------------------------------------------------
(* The lifecycle its owner sees.                                           *)

View ==
    [j \in Jobs |-> [exists   |-> jobs[j].exists,
                     phase    |-> jobs[j].status.phase,
                     attempts |-> jobs[j].status.attempts]]

Strict == INSTANCE TrainingJobLifecycle WITH view <- View, Adoption <- FALSE

Loose == INSTANCE TrainingJobLifecycle WITH view <- View, Adoption <- TRUE

\* Every status write is a transition of the state machine as the code has
\* it: of docs/architecture.md, but that a Queued job goes straight to Running
\* and that backoffLimit, not backoffLimit+1, bounds the attempts retried.
StrictLifecycle == Strict!Lifecycle

\* The same with the transitions of adopted Workflows: what remains true
\* when caches lag and calls fail.
LooseLifecycle == Loose!Lifecycle

-----------------------------------------------------------------------------
(* Progress, under Fairness.                                               *)

\* A job that fits into the quota on its own is not left waiting: it
\* finishes or is removed, although calls fail, Workflows vanish and other
\* jobs, retried ones too, overtake it, as long as these are finitely many:
\* the gate has no order, and an endless stream may keep a large job out.
EveryJobFinishes ==
    \A j \in Jobs :
        (jobs[j].exists /\ (quota.exists => GPUs[j] <= quota.hardGPUs))
            ~> (~jobs[j].exists \/ IsTerminal(jobs[j].status))

\* Deletion completes: the finalizer is always released in the end.
DeletionCompletes ==
    \A j \in Jobs : jobs[j].deleting ~> ~jobs[j].exists

\* A finished job with a TTL is eventually removed.
ExpiredJobRemoved ==
    \A j \in Jobs :
        (HasTTL[j] /\ IsTerminal(jobs[j].status)) ~> ~jobs[j].exists

\* The published usage is that of the stored jobs.
UsageTrue ==
    /\ quota.usedGPUs = UsedGPUs(jobs, {})
    /\ quota.queuedJobs = CountQueued(jobs)

\* A job that is left waiting keeps the published usage right: its timed
\* re-checks repeat the refresh, and in the end with caches that have caught
\* up, whatever the earlier ones read and whichever of them failed.
WaitingJobRefreshesUsage ==
    \A j \in Jobs :
        <>[](jobs[j].status.phase = "Queued" /\ quota.exists)
            => <>[]UsageTrue

-----------------------------------------------------------------------------
(* What the repository's comments and documents say of the program.        *)

\* "Peer completions also trigger reconciles via the Workflow watch", so
\* that a Queued job that has room is not left to the 15 second re-check.
PeerCompletionWakes ==
    (AtRest /\ \A k \in Jobs : jobs[k].exists) =>
        \A j \in Jobs :
            (jobs[j].status.phase = "Queued")
               => (quota.exists /\ ExceedsQuota(j, jobs, quota))

\* "Total attempts = backoffLimit + 1": no more Workflows than that are ever
\* created for one TrainingJob.
TotalAttempts == \A j \in Jobs : created[j] <= BackoffLimit[j] + 1
=============================================================================
