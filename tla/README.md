# Verification of the ML platform: operator, pipeline, model store, serving, GPU exporter

TLA+ specifications of the stateful parts of this repository, model-checked
with TLC and in part proved with TLAPS. Paths below are relative to the
repository root.

    tlc -workers 2 -config one_job_faults.cfg MCTrainingJob     # one run
    tlapm TrainingJobSafetyProofs.tla                           # one proof module

`PROJECT.json` lists the runs, the mutants that show each property can fail,
the source lines behind every definition, the findings and the hazards.

## 1. Inventory

| Component | State it keeps | Operations |
|---|---|---|
| API types (`operator/api/v1alpha1`) | `TrainingJob` spec/status/finalizer/deletion, `GPUQuota` spec/status | `IsTerminal`, condition types |
| TrainingJob reconciler (`operator/internal/controller`) | none of its own; writes TrainingJob status and finalizer, Workflows, GPUQuota status | `Reconcile`: finalizer, deletion, TTL, quota gate, submit, propagate, retry, finish; `updateQuotaStatus` |
| Workflow builder (`workflow_builder.go`) | – | name `<job>-attempt-<n>`, label, owner reference, 7 parameters |
| Manager (`operator/cmd/main.go`) | informer caches, workqueue, leader lease | start, restart |
| Argo + `pipelines/` template | Workflows; pods train, evaluate, upload; workspace volume | run steps, step retry, deadline 1800 s, own TTL 86400 s |
| Trainer scripts (`training/src`) | files of the workspace, objects of the store | train, evaluate (threshold as exit code), upload |
| Object store (MinIO, used by `upload.py` and the InferenceServices) | `model.pt` and `metrics.json` under `<bucket>/<namespace>/<job>` | put, get |
| Fake DCGM exporter (`components/fake-dcgm-exporter/main.py`) | `Fleet.assignments`, `Fleet.pod_to_gpu`, Prometheus gauges | `assign`, `release`, `snapshot`; `watch_pods`; `update_metrics` |
| Serving runtime (`serving/runtime`) | one loaded model per predictor; scaled between zero and one | load, predict |
| Cost report (`reports/cost-reliability`) | – | query, sum, render |
| Terraform, GitOps, network policies, charts, dashboards, scripts | declarative or sequential shell | – |

**How they interact.** A user creates a TrainingJob. The reconciler is woken by
the watch on TrainingJobs, by the watch on the Workflows they own, and by its
own delayed requeues. It reads TrainingJobs and the GPUQuota from informer
caches, reads Workflows from the API server (unstructured objects are not
cached by the manager's client), and writes back under optimistic concurrency.
Argo runs the Workflow; its pods carry the label that the exporter watches; the
exporter's series feed the dashboards and the cost report; the uploaded model
feeds serving.

**What is hard.**
- Everything the reconciler decides comes from caches that may lag behind its
  own writes; anything may happen between two of its API calls.
- A submission is two writes (create the Workflow, count the attempt), a retry
  is two (delete the Workflow, write Pending), a deletion is two (delete the
  Workflows, release the finalizer). Each may stop half way.
- Creates and deletes carry no version precondition, and names are used again.
- A waiting job is only woken by events or timers: a lost one strands it.
- Two layers retry: Argo repeats the train step on the same workspace, the
  operator repeats the whole Workflow. All attempts of a job, and all later jobs of
  its name, upload to one prefix, in two uploads, and a pod outlives its Workflow by
  its grace period.
- The exporter's watcher lists, assigns, releases and then follows a watch that
  ends every 300 s; its metrics thread reads the fleet while it changes.

`PROJECT.json` has the full hazard list, each at its line with its properties.

**What makes each component correct.**
- Reconciler: GPUs in use stay within the quota; at most `backoffLimit + 1`
  attempts; one live Workflow per job; no Workflow without its job; a finished
  job stays finished; TTL removes only what expired; nobody is stranded; every
  job that fits finishes; every deletion completes.
- Exporter: no GPU is given twice or leaked, running pods are served, the
  series never count a GPU or a pod twice.
- Pipeline, store and serving: only models that passed evaluation are stored or
  served; a Succeeded job has model and metrics of one attempt of its own, and they
  stay; the operator never deletes a Workflow whose steps are still under way.

## 2. Modules

| Module | Models |
|---|---|
| `TrainingJobTypes` | API types and the pure functions: phase mapping, attempt numbering, retry test, quota arithmetic in int32 |
| `TrainingJobController` | `Reconcile` as one worker, caches, workqueue, API server, Argo, users, faults |
| `TrainingJobLifecycle` | abstract specification: the job state machine its owner sees |
| `TrainingJobProperties` | all properties of the operator, the refinement mapping, the inductive invariants |
| `TrainingJobProofs` | theorems: types |
| `TrainingJobSafetyProofs` | theorems: retry budget, finished jobs |
| `TrainingJobGuardProofs` | theorems: the other promises that hold under lag and faults, the loose lifecycle |
| `TrainingJobSyncedProofs` | theorems: what holds with up-to-date caches and no faults |
| `ModelStore` | the objects of S3, `upload_file`, the prefix of a job |
| `TrainingPipeline` | Argo running the template: train, evaluate, upload, step retry, deadline, pods that linger; in place of the operator model's `ArgoStarts` and `ArgoEnds` |
| `ModelServer` | a predictor per job name: `load`, scale to zero |
| `TrainingPlatform` | operator, pipeline, store and serving composed; their joint properties |
| `TrainingPlatformProofs` | theorems about the composition |
| `GpuFleet` | `class Fleet` |
| `FakeDcgmWatcher` | `watch_pods` on a `GpuFleet`, with the cluster's pods |
| `FakeDcgmMetrics` | `update_metrics` on a `GpuFleet` that changes under it |
| `GpuFleetProofs` | lemmas about `assign` and `release` |
| `FakeDcgmWatcherProofs` | theorems about the watcher |
| `FakeDcgmProofs` | theorems about fleet and series |
| `MCTrainingJob`, `MCPlatform`, `MCFakeDcgm`, `MCFakeDcgmMetrics` | instances for TLC |

### The operator model and the code

A reconcile is split at its API calls. `BeginReconcile` is everything up to the
first call that writes or reads live state: the cached `Get` of the job, the
early returns, the TTL test and the whole quota gate. These are reads of local
memory, and taking them in one step loses nothing that the runs ask about: the
job and the quota arrive on independent streams, so a delivery between the two
reads can be moved before or after both; and where peers matter the caches are
either up to date (`CacheLag = FALSE`) or the run only looks for one
counterexample. From there one
action is one call: `DeleteOwnedWorkflows`, `RemoveFinalizer`, `AddFinalizer`,
`DeleteExpired`, `GetWorkflow`, `CreateWorkflow`, `DeleteFailed`,
`StatusUpdate`, `UpdateQuotaStatus`. `pc` names the next call, `job` is the
in-memory copy, `current` says whether the copy still has the stored
resourceVersion, `outcome` remembers which `return` follows the status write.

Around the worker:
- `watch` is the ordered stream of TrainingJob versions on their way to `cache`;
  `quotaWatch` the same for the GPUQuota. With `CacheLag = FALSE` a reconcile
  starts only once both are empty: an idealisation that controller-runtime does
  not guarantee. It is used to ask what holds *apart from* stale reads. It is about
  the start only: `UpdateQuotaStatus`, at the end of a reconcile, lists the caches as
  they are, with or without the status write that it follows.
- `wfEvents` are undelivered Workflow events; `DeliverWorkflowEvent` enqueues
  the owner, which is all that `Owns(wf)` does.
- `queue` and `timers` are the workqueue. Rate-limited requeue, `RequeueAfter`
  15 s and `RequeueAfter` TTL share the one delayed entry per key; the earlier
  wins.
- `ApiFails` ends a reconcile at any call with an error; `Crash` drops all
  memory, and the restarted manager lists and enqueues everything.
  `VanishWorkflow` is Argo's TTL or a user. A write whose answer is lost is a
  write followed by `ApiFails` at the next call.
- `CreateJob`, `DeleteJob` (of the jobs in `Deletable`), `EditQuota`, `ArgoStarts`, `ArgoEnds`, `ElapseTTL`
  are the environment.

Abstractions: times and the model URI are "set or not"; a Workflow's name is its
job and attempt; condition reasons and messages, events and logs are left out (a
parked job whose message alone changes therefore writes no new version); model,
dataset, hyperparameters and bucket are carried through unread; the spec of a
name is the same in each of its incarnations; the informers' periodic resync (10
h) is left out, so nothing depends on it for progress; one worker and one
leader, as `main.go` configures. `created` and `succeeded` are history that no
action reads.

### The abstract lifecycle

`TrainingJobLifecycle` is the diagram of `docs/architecture.md` as the code has
it. `View` maps each stored job to existence, phase and attempts.
`StrictLifecycle` (`Adoption = FALSE`) allows only counted starts.
`LooseLifecycle` (`Adoption = TRUE`) also allows a job to take on a Workflow whose
creation was never recorded. Two details of the diagram are not the code's: the
guard "attempts <= backoffLimit+1" (the code compares with `backoffLimit`, and the
mutant `MayRetryOnceMore` shows the diagram's guard breaks the budget), and
"Queued --> Pending" (a Queued job goes straight to Running).

### The pipeline, store and serving model and the code

`TrainingPipeline` extends the operator model. `OperatorNext` is every action of
that model but Argo's two; `FollowWorkflows` gives a Workflow the operator creates a
new workspace and drops that of one it deletes. `runs[i]` is the pipeline of a stored
Workflow: its step, the retries of train, `model.pt` on the workspace
(`volumeClaimTemplates`: one per Workflow), the files uploaded. One action is one
thing seen from outside the pod:

- `TrainSaves`: `train.py` ends with a model that will score below the threshold or
  not. The outcome is free in each attempt, although the scripts seed torch with 0;
  this only adds behaviours.
- `TrainRetried`: the pod is lost (`retryPolicy: OnError`, limit 1) and leaves no
  file, a cut-off one or a complete one for the next pod. A non-zero exit is not
  retried and is in `PipelineAborts`.
- `EvaluatePasses`, `EvaluateFails`: the exit code of `evaluate.py`.
- `UploadFile`: one pass of `upload.py`'s loop, which replaces one object.
- `PipelineSucceeds` and `PipelineAborts` write the Workflow's phase. An abort
  stands for the deadline of 1800 s, a pod lost with no retry left, a non-zero exit,
  or a Workflow that cannot start (its volume claim still exists, say).
- `StrayUploads`, `StrayEnds`: an upload pod whose Workflow was deleted or timed out
  is terminated with a grace period and may write its next files meanwhile. Train and
  evaluate pods write only to a workspace nobody reads any more.

An object carries where it came from: incarnation, attempt, whether the pod was a
stray, and the checkpoint. This is history; no action reads anything but the
checkpoint. `ModelServer` follows `model_server.py` and the InferenceService: `load`
is the storage-initializer's download and the one `torch.load` at start; a failing
pod starts over, so "down" is scaled to zero and starting alike. A predictor keeps
what it loaded until it is scaled down.

### The exporter model and the code

`assign` and `release` hold the fleet's lock throughout and are one step each.
The watcher's loop is `ListPods`, `AssignListed` per item, `ListAssigned`,
`ReleaseStale` per uid, `StartWatch`, `HandleEvent` per event, `EndWatch`. The
stream starts at the list's resourceVersion, so what happens after the list is in
it. `EndWatch` is the timeout and the exception alike: unread events are lost and
the pods are listed again. A list that fails changes nothing and is repeated.
`Restart` loses the fleet. `PodUpdated` is any other change of a running pod, which is
announced as Running again and may get a GPU it was refused before; nothing obliges it
to come.

The metrics thread is modelled over a fleet that changes by *any* sequence of
`assign` and `release`; the watcher is one such sequence, so what holds here holds
beside it. One call to a gauge is one step; the six DCGM gauges are treated alike
and represented by one. Gauge values are left out. The series carry a pod's uid where
the code shows its namespace and name: two pods that bear one name after the other
are told apart in the model and not in the labels.

## 3. Runs

| Run | Bounds | Checks |
|---|---|---|
| `one_job_faults` | 1 job, `backoffLimit` 1, TTL, lagging caches, 1 fault, 1 quota edit (hard 0 or none), 2 incarnations | `TypeOK`, `RetryBudget`, `NoOrphanWorkflow`, `SucceededHasModel`, `CreateNeverCollides`, `NoStrandedJob`, `TerminalStable`, `TTLDeletesOnlyExpired`, `LooseLifecycle` |
| `two_jobs_synced` | 2 jobs (1 and 2 GPUs, hard 2), the small one with a retry and deleted by its user at any time, up-to-date caches, no faults, `MaxInt32` 3 | `QuotaRespected`, `SingleLiveWorkflow`, `AttemptsCountWorkflows`, `StrictLifecycle`, `EveryJobFinishes` |
| `one_job_progress` | 1 job, retry, TTL, hard 0, 1 or none, 2 faults, 1 vanished Workflow | `EveryJobFinishes`, `DeletionCompletes`, `ExpiredJobRemoved`, `WaitingJobRefreshesUsage` |
| `platform` | 1 job, `backoffLimit` 1, 2 incarnations, all Argo phases, up-to-date caches, no faults, 1 stray pod at a time | `PlatformTypeOK`, `OnlyEvaluatedModels`, `RetryLayersIsolated`, `SucceededPublishesPair`, `ImplementsController`, `PublishedModelKept` |
| `exporter_fleet` | 2 pods, 1 GPU, 1 restart | `TypeOK`, `NoLeakedGPU`, `RunningPodServed`, `EndedPodReleased` |
| `exporter_metrics` | 3 pods, 2 GPUs | `TypeOK`, `FleetConsistent`, `UnambiguousSeries`, `SeriesFollowFleet` |
| `quota_stale_cache`, `quota_overflow`, `retry_stale_cache`, `submit_crash`, `peer_wakeup`, `exporter_free_gpu` | the smallest instance that shows the disagreement | see Findings |

Why the bounds are enough to be interesting: one job with one retry has every
branch of `Reconcile`; two incarnations are what a stale delete or a stale copy
needs to hit the wrong object; one fault can fall on each call, and two on a call
and its repetition; a quota of 0 that is edited away parks and then admits the
job; two jobs of 1 and 2 GPUs under a quota of 2 always compete. The small job gives
its GPU back when its attempt fails, and its retry can take it again before the
waiting large one is re-checked. Under a quota of 0 a job waits for ever. `MaxInt32` = 3 makes
the sum of the gate reach the last value that does not wrap. One job with a retry and
a second incarnation has every pair of writers of one prefix: two attempts, two
jobs of a name, and a stray beside each. With one GPU and
two pods the fleet is full half of the time; three pods on two GPUs let a GPU change
hands, and a pod change GPUs, between snapshot and emission.

What the passing runs show:
- Whatever lags or fails, the *counter* never passes the budget, Workflows never
  outlive their job, a finished job stays as it is, no name is hit that was not
  meant, and nothing is left without a wakeup. The optimistic lock on status and
  finalizer writes, and the finalizer itself, are what carries this.
- The *number of Workflows*, their exclusiveness and the quota hold only apart
  from stale reads and faults (next section).
- `WaitingJobRefreshesUsage`: the published usage is often wrong for a while, and
  without a waiting job for good (end of section 4). A job that stays Queued repairs it: each
  timed re-check repeats the refresh, in the end from caches that have caught up.
- `EveryJobFinishes` of two jobs allows overtaking, since the gate has no order among
  waiting jobs, but only as often as the bounds let the small job be retried. It says
  that jobs neither block one another nor are forgotten. It does not say that a large
  job gets its turn in an endless stream of small ones: it need not.
- `ImplementsController`: what the operator model assumes of Argo is what the
  pipeline does, so the operator's safety results hold of the platform.
- `OnlyEvaluatedModels` and `RetryLayersIsolated` hold of the whole platform;
  `SucceededPublishesPair` and `PublishedModelKept` rest on there being one live
  Workflow per job and hold only where that does (findings 3 and 4). Both make one
  exception, which the code does not exclude: an upload pod in its grace period. It
  holds an evaluated model of the same name, but perhaps of an earlier attempt or job.
- `QuotaRespected` does not count a job that is being deleted: when a user deletes
  a job while its Workflow is being created, the Workflow exists until the next
  reconcile deletes it.

`CHECK_DEADLOCK FALSE` in the operator's configurations: when every job is done or
gone and users do nothing more, the system is at rest. `NoStrandedJob` is the
statement that it only rests then. The exporter never rests, and deadlock is
checked there.

### Fairness

- `SF(BeginReconcile(j))`: the workqueue is first-in first-out and the worker
  goroutine never ends, so a job that is queued again and again is served however
  busy its peers are.
- `WF` of the worker's next call, of watches and of timers.
- `WF(ElapseTTL(j))`: time passes.
- `WF(ArgoEndsAttempt(j, a))`: the template's `activeDeadlineSeconds` ends every
  Workflow. It is stated per attempt, because the deadline is: were it stated for
  the job, one Workflow could run for ever while another ends again and again.
- Exporter: `WF` of the watcher's steps, of `EndWatch` (`timeout_seconds=300`) and
  of the metrics thread. A list call succeeds in the end.
- None for users, faults, pods or restarts.

`EveryJobFinishes` is checked with up-to-date caches and faults. With lagging
caches and at least one fault it does not hold in the model: if the cache lags at
*every* retry, the failed attempt is re-created uncounted each time (the finding of
`retry_stale_cache`, repeated for ever). Without faults it holds with lag as well.

## 4. Findings

1. **Quota from a stale cache** (`quota_stale_cache`). The gate sums Running jobs in
   the cache, which may lack the Running status just written; both jobs are
   admitted.
2. **The gate's sum wraps** (`quota_overflow`). `used+job.Spec.GPUs` is an int32 and the
   CRD sets no maximum for `gpus`; beyond the largest int32 the sum is negative and the
   gate opens, with caches up to date. The run scales the largest int32 to 3.
3. **Retry from a stale cache** (`retry_stale_cache`). After the failed Workflow is
   deleted, a reconcile that still reads Running finds it missing and creates the
   same attempt again; the next one creates the next attempt beside it.
4. **Uncounted Workflow** (`submit_crash`). A Workflow created before a crash or a
   conflict is adopted without being counted, so a job can get
   `backoffLimit + 2` Workflows although the counter stays within the budget. It
   goes further when the uncounted Workflow is a retry: adopting attempt N+1 leaves
   `attempts` at N, so the next reconcile looks for attempt N, finds it deleted and
   creates it again beside the adopted one. Two Workflows of the job then run with
   up-to-date caches, and the second overwrites the model of a job that has
   Succeeded. To see it, check `SingleLiveWorkflow` in `submit_crash.cfg`, or set
   `MaxFaults = 1` in `platform.cfg`.
5. **Peers are not woken** (`peer_wakeup`). The comment calls the 15 s re-check a
   backstop; for a Queued job it is the only signal.
6. **A free GPU beside a waiting pod** (`exporter_free_gpu`). A pod that found the
   fleet full is looked at again only when an event of its own happens to come, or at
   the next list.

One behaviour contradicts no promise strong enough to be a finding, but a reader of the
quota's status should know it. `updateQuotaStatus` lists the cache right after the status
write, which has not come back yet: a job that starts is not counted, one that finishes
is counted still, and only a Queued job's re-check repeats the refresh. So with no job
waiting the published usage can stay wrong when everything is reconciled (check
`AtRest /\ quota.exists => UsageTrue` in `one_job_progress.cfg`). The gate does not read it.

## 5. Proofs

Proved by TLAPS for every value of the constants, from the named assumptions
`JobsAssumption`, `SpecAssumption`, `ControllerAssumption`, `StoreAssumption`,
`PipelineAssumption`, `FleetAssumption` and `WatcherAssumption`. They give the
constants their types, a finite set of jobs, at least one GPU in the fleet, and keep
"no job", "no pod" and "no object" apart from the real ones; TLC evaluates them in
every run whose module extends the one that states them. A proof that a step preserves an invariant has one case per action, or per
kind of change: lemmas that classify steps (`StoreSteps`: every version ever stored is
one of five kinds of write; `WorkerSteps`, `WorkflowSteps`, `QuotaWrites`,
`WorkflowContinues`) are proved once and carry the later proofs. Every inductive
invariant below was first checked with TLC on the instance of the run that checks the
property.

### Whatever lags, fails or crashes

| Theorem | Statement | Inductive invariant, and why it is needed |
|---|---|---|
| `TypeCorrect` | `Spec => []TypeOK` | – |
| `RetryBudgetHolds` | `Spec => []RetryBudget` | `BudgetInv`. The property speaks of the stored status, but the next one is computed from a copy, so *every* copy is bounded: stored, on its way, cached, in the worker's hands. A status that still has to pass the gate has an attempt left. |
| `TerminalStableHolds` | `Spec => TerminalStable` | `StableInv` = `StreamInv` (a job with no event on its way is cached as stored; its last event is the stored version), `CopyInv` (a copy that is `current` was not read from a finished job on the paths that write a status), `GoneInv`. A write that passes the version check never meets a finished job. |
| `NoOrphanWorkflowHolds`, `CreateNeverCollidesHolds` | `Spec => []NoOrphanWorkflow`, `Spec => []CreateNeverCollides` | `FreshInv`, `VersionsGuarded`, `WorkflowsGuarded`. The finalizer is a guard: as long as some version of an active job is about, however old, its incarnation is stored and held. A Workflow is created from such a version, and the guard is released only when no Workflow of the name is left. `FreshInv` says what a copy that passes the version check still has in common with the stored job. |
| `TTLDeletesOnlyExpiredHolds` | `Spec => TTLDeletesOnlyExpired` | the same guard: the copy that had expired is of the incarnation that is stored, and a finished version is followed by finished ones only. |
| `SucceededHasModelHolds` | `Spec => []SucceededHasModel` | `ModelInv`: a Workflow that succeeded was observed for its job, and so was a success about to be reported. |
| `NoStrandedJobHolds` | `Spec => []NoStrandedJob` | `WakeInv`: an outdated copy has an event on its way or queued, and so has a Workflow just created and not yet recorded. Without it the end of a reconcile would not be known to leave anything behind. |
| `LooseLifecycleHolds` | `Spec => LooseLifecycle` | `FreshInv` with `BudgetInv`: `ViewSteps` maps every step to a stutter, a creation, a removal or a report, and `StatusStep` maps a report to a transition. |
| `PlatformImplementsController` | `PlatformSpec => ImplementsController` | a step of the pipeline or of serving is a stutter of the operator model or one of its two Argo actions. `PlatformKeepsOperator` draws the consequence: all of the above holds of `PlatformSpec`. |
| `OnlyEvaluatedModelsHolds` (and `PlatformTypeCorrect`) | `PlatformSpec => []OnlyEvaluatedModels` | `EvaluatedInv`: an upload pod, stray or not, holds a model that passed, because nothing writes `model.pt` on a workspace whose step is past train. |
| `RetryLayersIsolatedHolds` | `PlatformSpec => []RetryLayersIsolated` | `IsolationInv`: a name stands for one Workflow (the API server answers a create of a name in use with AlreadyExists), a final phase stays final, and it is written with the end of the pipeline. |
| `FleetConsistentHolds`, `UnambiguousSeriesHolds` | `Spec => []FleetConsistent`, `Spec => []UnambiguousSeries` of `FakeDcgmMetrics` | `SeriesInv`: the series emitted so far are those of the snapshot up to the GPU the thread is at, and the snapshot gives no pod two GPUs. |
| `NoLeakedGPUHolds` (and `WatcherTypeCorrect`, `WatcherKeepsFleet`) | `Spec => []NoLeakedGPU` of `FakeDcgmWatcher` | `WatchInv`: in each phase of the loop, whoever holds a GPU or is about to get one runs, or an unread event says that it is gone, or it is on the list to be released. The list and the watch that starts at its version miss nothing between them. |

### With up-to-date caches and without faults

`Synced == ~CacheLag /\ MaxFaults = 0 /\ MaxVanished = 0` is a hypothesis of these
theorems, and the runs `two_jobs_synced` and `platform` are instances of it. It cannot be
dropped: findings 1, 3 and 4 are counterexamples without it. Users still create and
delete jobs between any two calls, Argo moves on, names are used again.

| Theorem | Statement | Inductive invariant, and why it is needed |
|---|---|---|
| `SingleLiveWorkflowHolds`, `AttemptsCountWorkflowsHolds` | `Spec => []SingleLiveWorkflow`, `Spec => []AttemptsCountWorkflows` | `SyncedInv`: a stored status is *true* of the job's Workflows (`Matches`): a waiting job has none, a running one has that of its last attempt, a finished one has none going. While the worker has changed the Workflows and not yet written the status, the same is said of the copy it is about to write; and only a user's delete can outdate that copy, after which the finalizer holds the name. |
| `StrictLifecycleHolds` | `Spec => StrictLifecycle` | `SyncedInv`: with the stored status true, a write never adopts a Workflow nor creates one again. |
| `QuotaRespectedHolds` | `Spec => []QuotaRespected`, if also `MaxQuotaEdits = 0` and `SumGPUs(Jobs) <= MaxInt32` | `CommittedInv`: the jobs that are Running *or that the gate has let through* stay within the limit of every version of the quota. Between the gate and the status write a job counts nowhere in the stored state. The extra hypotheses are the code's: nothing takes GPUs back from running jobs when a user lowers the limit, and beyond int32 the gate opens (finding 2). |
| `SucceededPublishesPairHolds`, `PublishedModelKeptHolds` | `PlatformSpec => []SucceededPublishesPair`, `PlatformSpec => PublishedModelKept` | `PublishInv`: what the upload pod of a stored Workflow got to is in the store, everything if it succeeded; a success about to be reported was read off such a Workflow; a job that the worker submits or watches has not succeeded; no Workflow of a Succeeded job is left that could upload, even while the job is being deleted. Rests on `SyncedInv` (one Workflow per job) and `NoOrphanWorkflow` (its incarnation). |
| `SyncedPlatformKeepsOperator`, `SyncedPlatformKeepsQuota` | the operator's results above, of `PlatformSpec` | – |

All safety properties of the passing runs are thereby proved. Only model-checked are
the liveness properties (`EveryJobFinishes`, `WaitingJobRefreshesUsage`,
`DeletionCompletes`, `ExpiredJobRemoved`, `RunningPodServed`, `EndedPodReleased`, `SeriesFollowFleet`): they need fairness and
ENABLED, which the prover does not handle.

One proof attempt changed the model. The delaying queue's `Sooner` was a CASE whose
arms overlapped; TLC takes the first arm that is true, the semantics of TLA+ any of
them, and the proof that a timer is not lost failed on the others. It is an IF now.

## 6. Not modelled

- The values of the Workflow's parameters, of gauges and of the cost report.
- Leader hand-over between two managers. The Deployment has one replica and elects a
  leader; a call of the deposed manager that arrives late is not modelled. Probes and
  flags.
- What the scripts compute (training, accuracy, predictions); the cost report, a sum
  over samples.
- Liveness of the platform. The fairness that the operator model puts on the end of a
  Workflow is the template's deadline, which the pipeline shares.
- Manifests, policies, charts, dashboards, Terraform and shell scripts: declarative
  or sequential, with no state of their own to check.
- A scrape between `clear()` and `set()`: it sees fewer series in every tick, by
  construction of the code.

## 7. Plan

Done: modules, runs and theorems above, in the order operator core, lifecycle,
fleet, watcher, metrics, pipeline, store, serving, platform.

Next, proofs: the hypotheses of the synced theorems, one by one. `Synced` excludes lag,
failed calls and vanished Workflows together; which of the results survive one of them
alone (a Workflow that vanishes, say, under `SingleLiveWorkflow`) is a question for TLC
first.
