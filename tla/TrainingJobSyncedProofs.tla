----------------------- MODULE TrainingJobSyncedProofs -----------------------
(***************************************************************************)
(* What the operator promises as long as its caches are up to date and     *)
(* nothing fails, for any number of jobs: one Workflow per job, counted    *)
(* and reported as it is, the strict lifecycle, and the quota.             *)
(***************************************************************************)
EXTENDS TrainingJobGuardProofs

-----------------------------------------------------------------------------
(* The int32 arithmetic of the quota gate.                                 *)


\* A number below a modulus is its own remainder.
LEMMA SmallRemainder ==
    ASSUME NEW k \in Nat, k > 0, NEW a \in Nat, a < k
    PROVE  a % k = a
OBVIOUS

\* Truncation changes nothing up to and including the largest int32.
LEMMA Int32Exact ==
    ASSUME NEW n \in 0 .. MaxInt32
    PROVE  Int32(n) = n
<1> DEFINE a == n + MaxInt32 + 1
           k == 2 * (MaxInt32 + 1)
<1>1. a \in Nat /\ k \in Nat /\ k > 0 /\ a < k
    BY SpecAssumption
<1> HIDE DEF a, k
<1>2. a % k = a
    BY <1>1, SmallRemainder
<1> QED
    BY <1>2, SpecAssumption DEF Int32, a, k

\* The GPUs that any set of jobs asks for are finitely many.
LEMMA RequestedFinite ==
    ASSUME NEW S \in SUBSET Jobs
    PROVE  IsFiniteSet(RequestedGPUs(S))
<1>1. IsFiniteSet(S \X (1 .. MaxInt32))
    <2>1. IsFiniteSet(S)
        BY JobsAssumption, FS_Subset
    <2>2. IsFiniteSet(1 .. MaxInt32)
        BY SpecAssumption, FS_Interval
    <2> QED
        BY <2>1, <2>2, FS_Product
<1>2. RequestedGPUs(S) \in SUBSET (S \X (1 .. MaxInt32))
    BY DEF RequestedGPUs
<1> QED
    BY <1>1, <1>2, FS_Subset

\* A job asks for as many GPUs as its spec says.
LEMMA SumOfOne ==
    ASSUME NEW j \in Jobs
    PROVE  SumGPUs({j}) = GPUs[j]
<1> DEFINE f == [n \in 1 .. GPUs[j] |-> <<j, n>>]
<1>1. GPUs[j] \in Nat /\ GPUs[j] <= MaxInt32 /\ MaxInt32 \in Nat
    BY SpecAssumption
<1>2. ASSUME NEW g
      PROVE  g \in RequestedGPUs({j}) <=> \E n \in 1 .. GPUs[j] : g = <<j, n>>
    BY <1>1 DEF RequestedGPUs
<1>3. f \in Bijection(1 .. GPUs[j], RequestedGPUs({j}))
    <2>1. f \in [1 .. GPUs[j] -> RequestedGPUs({j})]
        BY <1>2
    <2>2. \A m, n \in 1 .. GPUs[j] : f[m] = f[n] => m = n
        OBVIOUS
    <2>3. \A g \in RequestedGPUs({j}) : \E n \in 1 .. GPUs[j] : f[n] = g
        BY <1>2
    <2> QED
        BY <2>1, <2>2, <2>3 DEF Bijection, Injection, Surjection, IsInjective
<1>4. ExistsBijection(1 .. GPUs[j], RequestedGPUs({j}))
    BY <1>3 DEF ExistsBijection
<1>5. IsFiniteSet(1 .. GPUs[j]) /\ Cardinality(1 .. GPUs[j]) = GPUs[j]
    <2>1. \A n \in Nat : IsFiniteSet(1 .. n)
              /\ Cardinality(1 .. n) = IF 1 > n THEN 0 ELSE n - 1 + 1
        BY FS_Interval
    <2>2. \A n \in Nat : (IF 1 > n THEN 0 ELSE n - 1 + 1) = n
        OBVIOUS
    <2> QED
        BY <1>1, <2>1, <2>2
<1> QED
    BY <1>4, <1>5, FS_Bijection DEF SumGPUs

\* The sum grows by the request of a job that is added.
LEMMA SumAdds ==
    ASSUME NEW S \in SUBSET Jobs, NEW j \in Jobs \ S
    PROVE  SumGPUs(S \cup {j}) = SumGPUs(S) + GPUs[j]
<1>1. RequestedGPUs(S \cup {j}) = RequestedGPUs(S) \cup RequestedGPUs({j})
    BY DEF RequestedGPUs
<1>2. RequestedGPUs(S) \cap RequestedGPUs({j}) = {}
    BY DEF RequestedGPUs
<1>3. IsFiniteSet(RequestedGPUs(S)) /\ IsFiniteSet(RequestedGPUs({j}))
    BY RequestedFinite
<1>4. SumGPUs(S) \in Nat /\ SumGPUs({j}) = GPUs[j] /\ GPUs[j] \in Nat
    BY SumGPUsType, SumOfOne, SpecAssumption
<1>5. Cardinality(RequestedGPUs(S) \cap RequestedGPUs({j})) = 0
    BY <1>2, FS_EmptySet
<1>6. SumGPUs(S \cup {j}) = SumGPUs(S) + SumGPUs({j}) - 0
    BY <1>1, <1>3, <1>5, FS_Union DEF SumGPUs
<1> QED
    BY <1>4, <1>6

\* More jobs never ask for less.
LEMMA SumMonotone ==
    ASSUME NEW T \in SUBSET Jobs, NEW S \in SUBSET T
    PROVE  SumGPUs(S) <= SumGPUs(T)
<1>1. RequestedGPUs(S) \in SUBSET RequestedGPUs(T)
    BY DEF RequestedGPUs
<1> QED
    BY <1>1, RequestedFinite, FS_Subset DEF SumGPUs

\* No sum that the gate builds wraps as long as all requests together fit.
LEMMA GateIsExact ==
    ASSUME SumGPUs(Jobs) <= MaxInt32, NEW j \in Jobs
    PROVE  ExceedsQuota(j, cache, quotaCache) <=>
               SumGPUs(InPhase(cache, "Running") \ {j}) + GPUs[j]
                   > quotaCache.hardGPUs
<1> DEFINE S == InPhase(cache, "Running") \ {j}
<1>1. S \in SUBSET Jobs /\ j \notin S
    BY DEF InPhase
<1>2. SumGPUs(S \cup {j}) = SumGPUs(S) + GPUs[j]
    BY <1>1, SumAdds
<1>3. SumGPUs(S \cup {j}) <= SumGPUs(Jobs)
    BY <1>1, SumMonotone
<1>4. SumGPUs(S) \in Nat /\ SumGPUs(Jobs) \in Nat /\ GPUs[j] \in Nat
      /\ MaxInt32 \in Nat
    BY <1>1, SumGPUsType, SpecAssumption
<1> HIDE DEF S
<1>5. SumGPUs(S) \in 0 .. MaxInt32 /\ SumGPUs(S) + GPUs[j] \in 0 .. MaxInt32
    BY <1>2, <1>3, <1>4
<1>6. UsedGPUs(cache, {j}) = SumGPUs(S)
    BY <1>5, Int32Exact DEF UsedGPUs, S
<1>7. Int32(SumGPUs(S) + GPUs[j]) = SumGPUs(S) + GPUs[j]
    BY <1>5, Int32Exact
<1> QED
    BY <1>6, <1>7 DEF S, ExceedsQuota

-----------------------------------------------------------------------------
(* Workflows and their count, step by step.                                *)

\* Nothing fails and nothing vanishes.
LEMMA NoFaults ==
    ASSUME Synced, TypeOK
    PROVE  ~ApiFails /\ ~Crash /\ \A w \in workflows : ~VanishWorkflow(w)
BY DEF Synced, TypeOK, ApiFails, Crash, Disturb, VanishWorkflow

\* With nothing on its way the cache is the store.
LEMMA BeginReads ==
    ASSUME Synced, TypeOK, StableInv, NEW j \in Jobs, BeginReconcile(j)
    PROVE  /\ pc = "idle" /\ cache[j] = jobs[j] /\ CacheCurrent(j)
           /\ quotaWatch = <<>>
           /\ \A k \in Jobs : cache[k] = jobs[k]
           /\ UNCHANGED <<jobs, cache, workflows, created, quota, quotaCache,
                          quotaWatch>>
<1>1. Dequeue(j)
    BY DEF BeginReconcile, ReconcileGone, ReconcileDeletion,
           ReconcileFinalizer, ReconcileTTL, ReconcileDenied, ReconcileAttempt
<1>2. pc = "idle" /\ watch = <<>> /\ quotaWatch = <<>>
    BY <1>1 DEF Dequeue, CacheReadable, Synced
<1>3. \A k \in Jobs : CacheCurrent(k)
    BY <1>2 DEF CacheCurrent
<1>4. \A k \in Jobs : cache[k] = jobs[k]
    BY <1>3 DEF StableInv, StreamInv
<1> QED
    BY <1>1, <1>2, <1>3, <1>4 DEF Dequeue, quotaVars, wfVars

\* What a step makes of the set of Workflows.
LEMMA WorkflowChanges ==
    ASSUME Synced, TypeOK, [Next]_vars
    PROVE  \/ UNCHANGED workflows
           \/ DeleteOwnedWorkflows \/ DeleteFailed
           \/ /\ CreateWorkflow /\ workflows' = workflows \cup {NewWorkflow}
              /\ CountCreated
              /\ Goto("statusUpdate", [job EXCEPT !.status = Submitted(@)],
                      "submitted")
           \/ \E v \in workflows, p \in ArgoPhases :
                 v.phase \notin CompletedPhases /\ SetWorkflowPhase(v, p)
<1> USE DEF wfVars
<1>1. CASE CreateWorkflow
    BY <1>1 DEF CreateWorkflow
<1>2. ASSUME NEW v \in workflows, ArgoStarts(v) \/ ArgoEnds(v)
      PROVE  \E p \in ArgoPhases :
                 v.phase \notin CompletedPhases /\ SetWorkflowPhase(v, p)
    BY <1>2 DEF ArgoStarts, ArgoEnds, CompletedPhases
<1>3. ASSUME NEW j \in Jobs, BeginReconcile(j) PROVE UNCHANGED workflows
    BY <1>3 DEF BeginReconcile, ReconcileGone, ReconcileDeletion,
           ReconcileFinalizer, ReconcileTTL, ReconcileDenied,
           ReconcileAttempt, Dequeue
<1>4. ASSUME RemoveFinalizer \/ AddFinalizer \/ DeleteExpired \/ GetWorkflow
               \/ StatusUpdate \/ UpdateQuotaStatus
      PROVE  UNCHANGED workflows
    BY <1>4 DEF RemoveFinalizer, AddFinalizer, DeleteExpired, GetWorkflow,
                StatusUpdate, UpdateQuotaStatus
<1>5. ASSUME NEW j \in Jobs,
             \/ CreateJob(j) \/ DeleteJob(j) \/ DeliverWorkflowEvent(j)
             \/ ElapseTTL(j) \/ TimerFires(j)
      PROVE  UNCHANGED workflows
    BY <1>5 DEF CreateJob, DeleteJob, DeliverWorkflowEvent, ElapseTTL,
                TimerFires
<1>6. ASSUME EditQuota \/ DeliverJob \/ DeliverQuota
      PROVE  UNCHANGED workflows
    BY <1>6 DEF EditQuota, DeliverJob, DeliverQuota
<1>7. CASE UNCHANGED vars
    BY <1>7 DEF vars
<1> QED
    BY <1>1, <1>2, <1>3, <1>4, <1>5, <1>6, <1>7, NoFaults
    DEF Next, OperatorNext, WorkerStep

\* The worker's three writes to Workflows concern the job it is at.
LEMMA OthersKept ==
    ASSUME Synced, TypeOK, [Next]_vars, NEW j \in Jobs,
           req = j => ~DeleteOwnedWorkflows /\ ~DeleteFailed
                      /\ (CreateWorkflow => UNCHANGED workflows)
    PROVE  /\ \A w \in workflows' : w.job = j =>
                 \E v \in workflows :
                    /\ v.job = j /\ v.attempt = w.attempt
                    /\ v.phase \in CompletedPhases => w = v
           /\ \A v \in workflows : v.job = j =>
                 \E w \in workflows' : w.job = j /\ w.attempt = v.attempt
<1>1. CASE UNCHANGED workflows
    BY <1>1
<1>2. CASE DeleteOwnedWorkflows /\ req # j
    <2>1. /\ \A w \in workflows' : w \in workflows
          /\ \A w \in workflows : w.job # req => w \in workflows'
        BY <1>2 DEF DeleteOwnedWorkflows, OwnedWorkflows
    <2> QED
        BY <1>2, <2>1
<1>3. CASE DeleteFailed /\ req # j
    <2>1. /\ \A w \in workflows' : w \in workflows
          /\ \A w \in workflows : w.job # req => w \in workflows'
        BY <1>3 DEF DeleteFailed, IsWorkflowOf
    <2> QED
        BY <1>3, <2>1
<1>4. CASE workflows' = workflows \cup {NewWorkflow} /\ req # j
    <2>1. NewWorkflow.job # j
        BY <1>4 DEF NewWorkflow
    <2> QED
        BY <1>4, <2>1
<1>5. ASSUME NEW v \in workflows, NEW p \in ArgoPhases,
             v.phase \notin CompletedPhases, SetWorkflowPhase(v, p)
      PROVE  /\ \A w \in workflows' : w.job = j =>
                   \E u \in workflows :
                      /\ u.job = j /\ u.attempt = w.attempt
                      /\ u.phase \in CompletedPhases => w = u
             /\ \A u \in workflows : u.job = j =>
                   \E w \in workflows' : w.job = j /\ w.attempt = u.attempt
    <2> DEFINE x == [v EXCEPT !.phase = p]
    <2>1. v \in Workflow
        BY DEF TypeOK
    <2>2. x.job = v.job /\ x.attempt = v.attempt
        BY <2>1 DEF Workflow
    <2>3. workflows' = (workflows \ {v}) \cup {x}
        BY <1>5 DEF SetWorkflowPhase
    <2> HIDE DEF x
    <2> QED
        BY <1>5, <2>2, <2>3
<1> QED
    BY <1>1, <1>2, <1>3, <1>4, <1>5, WorkflowChanges

\* So a status that is true of a job stays true while the worker is busy with
\* other jobs, and while Argo is busy with its Workflow.
LEMMA MatchesKept ==
    ASSUME Synced, TypeOK, [Next]_vars, NEW j \in Jobs, NEW s,
           Matches(workflows, j, s),
           req = j => ~DeleteOwnedWorkflows /\ ~DeleteFailed
                      /\ (CreateWorkflow => UNCHANGED workflows)
    PROVE  Matches(workflows', j, s)
<1>1. /\ \A w \in workflows' : w.job = j =>
            \E v \in workflows :
               /\ v.job = j /\ v.attempt = w.attempt
               /\ v.phase \in CompletedPhases => w = v
      /\ \A v \in workflows : v.job = j =>
            \E w \in workflows' : w.job = j /\ w.attempt = v.attempt
    BY OthersKept
<1> QED
    BY <1>1 DEF Matches, IsWorkflowOf

\* Only phase and attempts matter.
LEMMA MatchesSame ==
    ASSUME NEW W, NEW j, NEW s, NEW t, Matches(W, j, s),
           t.phase = s.phase, t.attempts = s.attempts
    PROVE  Matches(W, j, t)
BY DEF Matches, NeedsQuota, IsTerminal

\* A count changes with a create or with the job.
LEMMA CreatedKept ==
    ASSUME Synced, TypeOK, [Next]_vars, NEW j \in Jobs, ~CreateJob(j),
           CreateWorkflow => req # j \/ UNCHANGED created
    PROVE  created'[j] = created[j]
<1> USE DEF wfVars
<1>1. CASE UNCHANGED created
    BY <1>1
<1>2. CASE CreateWorkflow
    BY <1>2 DEF CreateWorkflow, CountCreated, TypeOK
<1>3. ASSUME NEW k \in Jobs, CreateJob(k), k # j
      PROVE  created'[j] = created[j]
    BY <1>3 DEF CreateJob, TypeOK
<1>4. ASSUME NEW k \in Jobs,
             \/ BeginReconcile(k) \/ DeleteJob(k) \/ DeliverWorkflowEvent(k)
             \/ ElapseTTL(k) \/ TimerFires(k)
      PROVE  UNCHANGED created
    BY <1>4 DEF BeginReconcile, ReconcileGone, ReconcileDeletion,
           ReconcileFinalizer, ReconcileTTL, ReconcileDenied,
           ReconcileAttempt, Dequeue, DeleteJob, DeliverWorkflowEvent,
           ElapseTTL, TimerFires
<1>5. ASSUME \/ DeleteOwnedWorkflows \/ RemoveFinalizer \/ AddFinalizer
             \/ DeleteExpired \/ GetWorkflow \/ DeleteFailed
             \/ StatusUpdate \/ UpdateQuotaStatus
      PROVE  UNCHANGED created
    BY <1>5 DEF DeleteOwnedWorkflows, RemoveFinalizer,
           AddFinalizer, DeleteExpired, GetWorkflow,
           DeleteFailed, StatusUpdate, UpdateQuotaStatus
<1>6. ASSUME \/ EditQuota \/ DeliverJob \/ DeliverQuota
             \/ \E w \in workflows : ArgoStarts(w) \/ ArgoEnds(w)
      PROVE  UNCHANGED created
    BY <1>6 DEF EditQuota, DeliverJob, DeliverQuota, ArgoStarts, ArgoEnds,
                SetWorkflowPhase
<1>7. CASE UNCHANGED vars
    BY <1>1, <1>7 DEF vars
<1> QED
    BY <1>1, <1>2, <1>3, <1>4, <1>5, <1>6, <1>7, NoFaults
    DEF Next, OperatorNext, WorkerStep

-----------------------------------------------------------------------------
(* SyncedInv, part by part.                                                *)

\* What has been proved of the operator without any hypothesis.
Known ==
    /\ TypeOK /\ BudgetInv /\ StableInv /\ FreshInv
    /\ VersionsGuarded /\ WorkflowsGuarded

LEMMA OneKept ==
    ASSUME Synced, TypeOK, SyncedInv, [Next]_vars
    PROVE  OneWorkflow'
<1>1. CASE workflows' \subseteq workflows
    BY <1>1 DEF SyncedInv, OneWorkflow
<1>2. CASE DeleteOwnedWorkflows \/ DeleteFailed
    BY <1>1, <1>2 DEF DeleteOwnedWorkflows, DeleteFailed
<1>3. CASE CreateWorkflow /\ workflows' = workflows \cup {NewWorkflow}
    <2>1. \A w \in workflows : w.job # req
        BY <1>3 DEF CreateWorkflow, SyncedInv, WorkerTrue
    <2>2. NewWorkflow.job = req
        BY DEF NewWorkflow
    <2> QED
        BY <1>3, <2>1, <2>2 DEF SyncedInv, OneWorkflow
<1>4. ASSUME NEW v \in workflows, NEW p \in ArgoPhases, SetWorkflowPhase(v, p)
      PROVE  OneWorkflow'
    <2> DEFINE x == [v EXCEPT !.phase = p]
    <2>1. v \in Workflow
        BY DEF TypeOK
    <2>2. x.job = v.job
        BY <2>1 DEF Workflow
    <2>3. workflows' = (workflows \ {v}) \cup {x}
        BY <1>4 DEF SetWorkflowPhase
    <2> HIDE DEF x
    <2> QED
        BY <2>2, <2>3 DEF SyncedInv, OneWorkflow
<1> QED
    BY <1>1, <1>2, <1>3, <1>4, WorkflowChanges

\* What a step makes of one stored job.
LEMMA StoredSteps ==
    ASSUME TypeOK, FreshInv, [Next]_vars, NEW j \in Jobs
    PROVE  \/ jobs'[j] = jobs[j]
           \/ \E o \in TrainingJob : Writes(j, o) /\ jobs'[j] = o
<1>1. ASSUME NEW k \in Jobs, NEW o \in TrainingJob, Writes(k, o)
      PROVE  jobs'[k] = o /\ (k # j => jobs'[j] = jobs[j])
    BY <1>1, StoreEvents DEF Writes
<1> QED
    BY <1>1, StoreSteps DEF DeliverJob, Crash

LEMMA EmptyKept ==
    ASSUME TypeOK, FreshInv, UnguardedEmpty, [Next]_vars
    PROVE  UnguardedEmpty'
<1> SUFFICES ASSUME NEW j \in Jobs, ~jobs'[j].finalizer
             PROVE  jobs'[j].status = EmptyStatus
    BY DEF UnguardedEmpty
<1>1. ASSUME NEW o \in TrainingJob, Writes(j, o), jobs'[j] = o
      PROVE  o.status = EmptyStatus
    <2>1. ~o.finalizer
        BY <1>1
    <2>2. CASE Creates(j, o) \/ Protects(j, o) \/ Reports(j, o)
        BY <2>1, <2>2, WriteFields
    <2>3. CASE Deletes(j, o) \/ Releases(j, o)
        <3>1. o = NotFound(jobs[j].uid)
            BY <2>1, <2>3, WriteFields
        <3> QED
            BY <3>1, EmptyFields
    <2> QED
        BY <1>1, <2>2, <2>3 DEF Writes
<1> QED
    BY <1>1, StoredSteps DEF UnguardedEmpty

\* The worker is left alone but for a user's write: to its own job, or not.
LEMMA LeftAlone ==
    ASSUME TypeOK, [Next]_vars, ~WorkerStep, UNCHANGED <<pc, req, job>>,
           \A j \in Jobs : ~BeginReconcile(j), ~ApiFails, ~Crash,
           pc # "idle"
    PROVE  \/ current' = current /\ jobs'[req] = jobs[req]
           \/ ~current' /\ DeleteJob(req)
           \/ ~current' /\ CreateJob(req)
<1>1. CASE UNCHANGED <<jobs, current>>
    BY <1>1
<1>2. ASSUME NEW j \in Jobs, CreateJob(j) \/ DeleteJob(j), j # req
      PROVE  current' = current /\ jobs'[req] = jobs[req]
    BY <1>2 DEF CreateJob, DeleteJob, UserWritesJob, StoreJob, TypeOK
<1>3. ASSUME CreateJob(req) \/ DeleteJob(req)
      PROVE  ~current'
    BY <1>3 DEF CreateJob, DeleteJob, UserWritesJob
<1>4. CASE UNCHANGED vars
    BY <1>1, <1>4 DEF vars
<1> QED
    BY <1>1, <1>2, <1>3, <1>4, EnvironmentKinds
    DEF workerVars, DeliverJob

LEMMA InterruptedKept ==
    ASSUME Synced, Known, SyncedInv, [Next]_vars
    PROVE  InterruptedByDelete'
<1> USE DEF Known
<1>1. ~ApiFails /\ ~Crash
    BY NoFaults
<1>2. ASSUME NEW j \in Jobs, BeginReconcile(j) PROVE InterruptedByDelete'
    <2>1. pc = "idle" /\ cache[j] = jobs[j] /\ CacheCurrent(j) /\ jobs' = jobs
        BY <1>2, BeginReads
    <2>2. CASE UNCHANGED workerVars
        BY <2>1, <2>2 DEF workerVars, InterruptedByDelete
    <2> QED
        BY <1>2, <2>1, <2>2
        DEF BeginReconcile, ReconcileGone, ReconcileDeletion,
            ReconcileFinalizer, ReconcileTTL, ReconcileDenied,
            ReconcileAttempt, Load, workerVars, InterruptedByDelete
<1>3. CASE WorkerStep
    <2>1. CASE pc' \in {"idle", "quotaStatus"}
        BY <2>1 DEF InterruptedByDelete
    <2>2. CASE GetWorkflow
        BY <2>1, <2>2
        DEF GetWorkflow, WorkflowNotFound, WorkflowActive, WorkflowSucceeded,
            WorkflowFailed, Goto, Return, Stop, apiVars, SyncedInv,
            InterruptedByDelete
    <2>3. CASE CreateWorkflow \/ DeleteFailed \/ DeleteOwnedWorkflows
        BY <2>1, <2>3
        DEF CreateWorkflow, DeleteFailed, DeleteOwnedWorkflows, Goto, Return,
            Stop, apiVars, SyncedInv, InterruptedByDelete
    <2>4. CASE RemoveFinalizer \/ AddFinalizer \/ DeleteExpired
                 \/ StatusUpdate \/ UpdateQuotaStatus
        BY <2>1, <2>4
        DEF RemoveFinalizer, AddFinalizer, DeleteExpired, StatusUpdate,
            UpdateQuotaStatus, Return, Stop
    <2> QED
        BY <1>3, <2>2, <2>3, <2>4 DEF WorkerStep
<1>4. CASE /\ UNCHANGED <<pc, req, job>> /\ ~WorkerStep /\ pc # "idle"
           /\ \A j \in Jobs : ~BeginReconcile(j)
    <2>1. CASE current' = current /\ jobs'[req] = jobs[req]
        BY <1>4, <2>1 DEF SyncedInv, InterruptedByDelete
    <2>2. CASE DeleteJob(req)
        <3>1. req \in Jobs
            BY <1>4 DEF TypeOK
        <3>2. /\ jobs[req].exists /\ ~jobs[req].deleting
              /\ jobs'[req] = AfterDelete(jobs[req])
            BY <2>2, <3>1 DEF DeleteJob, UserWritesJob, StoreJob, TypeOK
        <3>3. ASSUME jobs[req].finalizer
              PROVE  jobs'[req].exists /\ jobs'[req].deleting
            <4>1. jobs[req] \in TrainingJob
                BY <3>1 DEF TypeOK
            <4> QED
                BY <3>2, <3>3, <4>1 DEF AfterDelete, TrainingJob
        <3>4. ASSUME pc \in {"getWorkflow", "createWorkflow", "deleteFailed",
                             "statusUpdate"}
              PROVE  jobs[req].finalizer
            <4>1. current
                BY <3>2, <3>4 DEF SyncedInv, InterruptedByDelete
            <4> QED
                BY <1>4, <3>4, <4>1 DEF FreshInv, IsActive
        <3>5. pc \notin {"deleteOwned", "removeFinalizer"}
            BY <3>2 DEF SyncedInv, InterruptedByDelete
        <3> QED
            BY <1>4, <3>3, <3>4, <3>5 DEF InterruptedByDelete
    <2>3. CASE CreateJob(req)
        <3>1. ~jobs[req].exists
            BY <2>3 DEF CreateJob
        <3>2. pc \notin {"deleteOwned", "removeFinalizer", "getWorkflow",
                         "createWorkflow", "deleteFailed", "statusUpdate"}
            BY <1>4, <3>1 DEF SyncedInv, InterruptedByDelete, StableInv, CopyInv
        <3> QED
            BY <1>4, <3>2 DEF InterruptedByDelete
    <2> QED
        BY <1>1, <1>4, <2>1, <2>2, <2>3, LeftAlone
<1>5. CASE UNCHANGED <<pc, req, job>> /\ pc = "idle"
    BY <1>5 DEF InterruptedByDelete
<1> QED
    BY <1>1, <1>2, <1>3, <1>4, <1>5, WorkerSteps

\* A name that was free is taken by a user and nobody else.
LEMMA OnlyUsersCreate ==
    ASSUME TypeOK, StableInv, [Next]_vars, NEW j \in Jobs,
           ~jobs[j].exists, jobs'[j].exists
    PROVE  CreateJob(j)
<1>1. jobs'[j] # jobs[j]
    OBVIOUS
<1>2. ASSUME NEW k \in Jobs, BeginReconcile(k) PROVE UNCHANGED jobs
    BY <1>2 DEF BeginReconcile, ReconcileGone, ReconcileDeletion,
           ReconcileFinalizer, ReconcileTTL, ReconcileDenied,
           ReconcileAttempt, Dequeue
<1>3. ASSUME WorkerStep PROVE jobs'[j] = jobs[j]
    <2>1. pc # "idle" /\ req \in Jobs
        BY <1>3 DEF TypeOK, WorkerStep, DeleteOwnedWorkflows, RemoveFinalizer,
               AddFinalizer, DeleteExpired, GetWorkflow, CreateWorkflow,
               DeleteFailed, StatusUpdate, UpdateQuotaStatus
    <2>2. \/ UNCHANGED jobs
          \/ jobs[req].exists /\ \E o : StoreJob(req, o)
        BY <1>3, <2>1
        DEF StableInv, CopyInv, WorkerStep, DeleteOwnedWorkflows,
            RemoveFinalizer, AddFinalizer, DeleteExpired, GetWorkflow,
            CreateWorkflow, DeleteFailed, StatusUpdate, UpdateQuotaStatus,
            apiVars
    <2> QED
        BY <2>1, <2>2 DEF StoreJob, TypeOK
<1>4. ASSUME NEW k \in Jobs, CreateJob(k) \/ DeleteJob(k),
             k # j \/ DeleteJob(k)
      PROVE  jobs'[j] = jobs[j]
    BY <1>4 DEF CreateJob, DeleteJob, UserWritesJob, StoreJob, TypeOK
<1> QED
    BY <1>1, <1>2, <1>3, <1>4, EnvironmentKinds
    DEF vars, DeliverJob, ApiFails, Crash, apiVars

LEMMA StoredKept ==
    ASSUME Synced, Known, SyncedInv, [Next]_vars
    PROVE  StoredTrue'
<1> USE DEF Known
<1> SUFFICES ASSUME NEW j \in Jobs, jobs'[j].exists, ~jobs'[j].deleting,
                    ~(pc' = "statusUpdate" /\ req' = j)
             PROVE  /\ Matches(workflows', j, jobs'[j].status)
                    /\ created'[j] = jobs'[j].status.attempts
    BY DEF StoredTrue
<1>1. CASE CreateJob(j)
    <2>1. /\ jobs'[j] = [NotFound(jobs[j].uid + 1) EXCEPT !.exists = TRUE]
          /\ workflows' = workflows /\ created'[j] = 0 /\ ~jobs[j].exists
        BY <1>1 DEF CreateJob, UserWritesJob, StoreJob, TypeOK
    <2>2. /\ jobs'[j].status = EmptyStatus
          /\ jobs'[j].status.phase = "" /\ jobs'[j].status.attempts = 0
        BY <2>1, EmptyFields
    <2>3. \A w \in workflows' : w.job # j
        BY <2>1 DEF WorkflowsGuarded, NoOrphanWorkflow
    <2> QED
        BY <2>1, <2>2, <2>3 DEF Matches, IsTerminal
<1>2. CASE StatusUpdate /\ req = j
    <2>1. pc = "statusUpdate" /\ UNCHANGED <<workflows, created>>
        BY <1>2 DEF StatusUpdate, wfVars
    <2>2. CASE current
        <3>1. jobs'[j].status = job.status
            <4>1. CASE job.status = jobs[req].status
                BY <1>2, <2>2, <4>1 DEF StatusUpdate, apiVars
            <4>2. CASE job.status # jobs[req].status
                BY <1>2, <2>2, <4>2
                DEF StatusUpdate, StoreJob, TypeOK, TrainingJob
            <4> QED
                BY <4>1, <4>2
        <3>2. /\ Matches(workflows, j, job.status)
              /\ created[j] = job.status.attempts
            BY <1>2, <2>1, <2>2 DEF SyncedInv, WorkerTrue
        <3> QED
            BY <2>1, <3>1, <3>2
    <2>3. CASE ~current
        <3>1. jobs' = jobs /\ jobs[j].deleting
            BY <1>2, <2>1, <2>3
            DEF StatusUpdate, apiVars, SyncedInv, InterruptedByDelete
        <3> QED
            BY <3>1
    <2> QED
        BY <2>2, <2>3
<1>3. CASE ~CreateJob(j) /\ ~(StatusUpdate /\ req = j)
    <2>1. /\ jobs[j].exists /\ ~jobs[j].deleting
          /\ jobs'[j].status = jobs[j].status
        <3>1. ASSUME NEW o \in TrainingJob, Writes(j, o), jobs'[j] = o
              PROVE  Protects(j, o)
            <4>1. ~Creates(j, o)
                BY <1>3, OnlyUsersCreate DEF Creates
            <4>2. ~Deletes(j, o) /\ ~Releases(j, o)
                BY <3>1, WriteFields DEF NotFound
            <4>3. ~Reports(j, o)
                BY <1>3 DEF Reports
            <4> QED
                BY <3>1, <4>1, <4>2, <4>3 DEF Writes
        <3> QED
            BY <3>1, StoredSteps, WriteFields DEF Protects
    <2>2. ~(pc = "statusUpdate" /\ req = j)
        <3> SUFFICES ASSUME pc = "statusUpdate", req = j PROVE FALSE
            OBVIOUS
        <3>1. ~WorkerStep
            BY <1>3 DEF WorkerStep, DeleteOwnedWorkflows, RemoveFinalizer,
               AddFinalizer, DeleteExpired, GetWorkflow, CreateWorkflow,
               DeleteFailed, StatusUpdate, UpdateQuotaStatus
        <3>2. ~\E k \in Jobs : BeginReconcile(k)
            BY BeginReads
        <3> QED
            BY <3>1, <3>2, NoFaults, WorkerSteps
    <2>3. /\ Matches(workflows, j, jobs[j].status)
          /\ created[j] = jobs[j].status.attempts
        BY <2>1, <2>2 DEF SyncedInv, StoredTrue
    <2>4. ASSUME req = j
          PROVE  /\ ~DeleteOwnedWorkflows /\ ~DeleteFailed
                 /\ CreateWorkflow => UNCHANGED <<workflows, created>>
        <3>1. ~DeleteOwnedWorkflows
            BY <2>1, <2>4
            DEF DeleteOwnedWorkflows, SyncedInv, InterruptedByDelete
        <3>2. ~DeleteFailed
            BY <2>4 DEF DeleteFailed, Goto
        <3>3. CreateWorkflow => UNCHANGED <<workflows, created>>
            BY <2>4 DEF CreateWorkflow, Goto, wfVars
        <3> QED
            BY <3>1, <3>2, <3>3
    <2>5. Matches(workflows', j, jobs[j].status)
        BY <2>3, <2>4, MatchesKept
    <2>6. created'[j] = created[j]
        BY <1>3, <2>4, CreatedKept
    <2> QED
        BY <2>1, <2>3, <2>5, <2>6
<1> QED
    BY <1>1, <1>2, <1>3

\* A reconcile that starts from the cache holds what is true.
LEMMA BeginTrue ==
    ASSUME Synced, Known, SyncedInv, NEW j \in Jobs, BeginReconcile(j)
    PROVE  WorkerTrue'
<1> USE DEF Known
<1> DEFINE s == jobs[j].status
<1>1. /\ pc = "idle" /\ cache[j] = jobs[j] /\ jobs[j] \in TrainingJob
      /\ s \in TrainingJobStatus /\ UNCHANGED <<jobs, workflows, created>>
    BY BeginReads, ObjectType DEF TypeOK
<1>2. ASSUME IsActive(jobs[j])
      PROVE  Matches(workflows, j, s) /\ created[j] = s.attempts
    BY <1>1, <1>2 DEF SyncedInv, StoredTrue, IsActive
<1>3. CASE ReconcileDenied(j)
    <2>1. /\ pc' = "statusUpdate" /\ req' = j /\ outcome' = "queued"
          /\ job' = [jobs[j] EXCEPT !.status = Park(s)]
          /\ IsActive(jobs[j]) /\ NeedsQuota(s)
        BY <1>1, <1>3 DEF ReconcileDenied, Load
    <2>2. job'.status = Park(s)
        BY <1>1, <2>1 DEF TrainingJob
    <2>3. job'.status.phase = "Queued" /\ job'.status.attempts = s.attempts
        BY <1>1, <2>2, StatusFields
    <2>4. Matches(workflows', j, job'.status)
        BY <1>1, <1>2, <2>1, <2>3 DEF Matches, IsTerminal
    <2> HIDE DEF s
    <2> QED
        BY <1>1, <1>2, <2>1, <2>3, <2>4 DEF WorkerTrue, s
<1>4. CASE ReconcileAttempt(j)
    <2>1. /\ pc' = "getWorkflow" /\ req' = j /\ IsActive(jobs[j])
          /\ job' = [jobs[j] EXCEPT !.status = Granted(s)]
        BY <1>1, <1>4 DEF ReconcileAttempt, Load
    <2>2. job'.status = Granted(s)
        BY <1>1, <2>1 DEF TrainingJob
    <2>3. job'.status.phase = s.phase /\ job'.status.attempts = s.attempts
        BY <1>1, <2>2, StatusFields
    <2>4. Matches(workflows', j, job'.status)
        BY <1>1, <1>2, <2>1, <2>3, MatchesSame
    <2> QED
        BY <2>1, <2>4 DEF WorkerTrue
<1>5. CASE pc' \notin {"getWorkflow", "createWorkflow", "deleteFailed",
                       "statusUpdate"}
    BY <1>5 DEF WorkerTrue
<1> QED
    BY <1>1, <1>3, <1>4, <1>5
    DEF BeginReconcile, ReconcileGone, ReconcileDeletion, ReconcileFinalizer,
        ReconcileTTL, Load, workerVars

\* The stored status of a job that the worker is at with a current copy.
LEMMA CopyTrue ==
    ASSUME Known, SyncedInv, current,
           pc \in {"getWorkflow", "createWorkflow", "deleteFailed"}
    PROVE  /\ jobs[req].status.phase = job.status.phase
           /\ jobs[req].status.attempts = job.status.attempts
           /\ created[req] = job.status.attempts
           /\ Matches(workflows, req, job.status)
<1> USE DEF Known
<1>1. /\ req \in Jobs /\ IsActive(jobs[req])
      /\ jobs[req].status.phase = job.status.phase
      /\ jobs[req].status.attempts = job.status.attempts
    BY DEF TypeOK, FreshInv
<1>2. /\ Matches(workflows, req, jobs[req].status)
      /\ created[req] = jobs[req].status.attempts
    BY <1>1 DEF SyncedInv, StoredTrue, IsActive
<1> QED
    BY <1>1, <1>2, MatchesSame

\* r.Get of the Workflow, and what the switch makes of it.
LEMMA GetTrue ==
    ASSUME Synced, Known, SyncedInv, GetWorkflow
    PROVE  WorkerTrue'
<1> USE DEF Known
<1> DEFINE s == job.status
<1>1. /\ pc = "getWorkflow" /\ req \in Jobs /\ job \in TrainingJob
      /\ s \in TrainingJobStatus /\ s.phase \in TrainingJobPhase
      /\ \A t : [job EXCEPT !.status = t].status = t
      /\ UNCHANGED <<jobs, workflows, created>>
    BY ObjectType
    DEF GetWorkflow, TypeOK, TrainingJob, TrainingJobStatus, apiVars, wfVars
<1>2. Matches(workflows, req, s) /\ ~IsTerminal(s)
    BY <1>1 DEF SyncedInv, WorkerTrue, BudgetInv
<1>3. s.phase = "Running" \/ NeedsQuota(s)
    BY <1>1, <1>2 DEF IsTerminal, NeedsQuota, TrainingJobPhase
<1>4. s.phase = "Running" => Attempt(s) = s.attempts
    BY <1>2 DEF Matches, Attempt, Creating
<1>5. CASE WorkflowNotFound
    <2>1. pc' = "createWorkflow" /\ req' = req /\ job' = job
        BY <1>5 DEF WorkflowNotFound, Goto
    <2>2. NeedsQuota(s)
        BY <1>2, <1>3, <1>4, <1>5 DEF WorkflowNotFound, Matches
    <2> QED
        BY <1>1, <1>2, <2>1, <2>2 DEF WorkerTrue, Matches
<1>6. ASSUME NEW w \in workflows, IsWorkflowOf(w, req, Attempt(s)),
             WorkflowActive(w) \/ WorkflowSucceeded(w) \/ WorkflowFailed(w)
      PROVE  WorkerTrue'
    <2>1. s.phase = "Running" /\ w.job = req
        BY <1>2, <1>3, <1>6 DEF Matches, IsWorkflowOf
    <2>2. ASSUME NEW t, NEW path,
                 Goto("statusUpdate", [job EXCEPT !.status = t], path),
                 path \notin {"queued", "submitted"},
                 t.attempts = s.attempts, Matches(workflows, req, t)
          PROVE  WorkerTrue'
        <3>1. /\ pc' = "statusUpdate" /\ req' = req /\ job'.status = t
              /\ outcome' = path /\ current' = current
            BY <1>1, <2>2 DEF Goto
        <3>2. current => /\ jobs[req].status.phase = "Running"
                         /\ created[req] = s.attempts
            BY <1>1, <2>1, CopyTrue
        <3> HIDE DEF s
        <3> QED
            BY <1>1, <2>2, <3>1, <3>2 DEF WorkerTrue
    <2>3. CASE WorkflowActive(w)
        <3>1. CASE pc' = "idle"
            BY <3>1 DEF WorkerTrue
        <3>2. CASE Goto("statusUpdate", [job EXCEPT !.status = Propagate(s)],
                        "propagated")
            <4>1. /\ Propagate(s).phase = s.phase
                  /\ Propagate(s).attempts = s.attempts
                BY <1>1, <2>1, StatusFields
            <4>2. Matches(workflows, req, Propagate(s))
                BY <1>2, <4>1, MatchesSame
            <4> QED
                BY <2>2, <3>2, <4>1, <4>2
        <3> QED
            BY <2>3, <3>1, <3>2 DEF WorkflowActive, Return, Stop
    <2>4. ASSUME NEW t, t.phase \in {"Succeeded", "Failed"},
                 w.phase \in CompletedPhases
          PROVE  Matches(workflows, req, t)
        <3>1. \A v \in workflows : v.job = req => v = w
            BY <2>1 DEF SyncedInv, OneWorkflow
        <3> QED
            BY <2>4, <3>1 DEF Matches, NeedsQuota
    <2>5. CASE WorkflowSucceeded(w)
        <3>1. w.phase \in CompletedPhases
            BY <2>5 DEF WorkflowSucceeded, MapWorkflowPhase, CompletedPhases
        <3>2. Succeed(s).phase = "Succeeded" /\ Succeed(s).attempts = s.attempts
            BY <1>1, StatusFields
        <3>3. Goto("statusUpdate", [job EXCEPT !.status = Succeed(s)],
                   "finished")
            BY <2>5 DEF WorkflowSucceeded
        <3> QED
            BY <2>2, <2>4, <3>1, <3>2, <3>3
    <2>6. CASE WorkflowFailed(w)
        <3>1. w.phase \in CompletedPhases
            BY <2>6 DEF WorkflowFailed, MapWorkflowPhase, CompletedPhases
        <3>2. Fail(s).phase = "Failed" /\ Fail(s).attempts = s.attempts
            BY <1>1, StatusFields
        <3>3. CASE Goto("statusUpdate", [job EXCEPT !.status = Fail(s)],
                        "finished")
            BY <2>2, <2>4, <3>1, <3>2, <3>3
        <3>4. CASE Goto("deleteFailed", job, "none")
            BY <2>1, <3>4 DEF Goto, WorkerTrue
        <3> QED
            BY <2>6, <3>3, <3>4 DEF WorkflowFailed
    <2> QED
        BY <1>6, <2>3, <2>5, <2>6
<1> QED
    BY <1>5, <1>6 DEF GetWorkflow

\* r.Create: the new Workflow is the only one, and is counted.
LEMMA CreateTrue ==
    ASSUME Synced, Known, SyncedInv, CreateWorkflow
    PROVE  WorkerTrue'
<1> USE DEF Known
<1> DEFINE s == job.status
<1>1. /\ pc = "createWorkflow" /\ req \in Jobs /\ job \in TrainingJob
      /\ s \in TrainingJobStatus /\ s.attempts \in Nat
      /\ \A t : [job EXCEPT !.status = t].status = t
      /\ NeedsQuota(s) /\ jobs' = jobs
    BY ObjectType
    DEF CreateWorkflow, TypeOK, TrainingJob, TrainingJobStatus, apiVars,
        SyncedInv, WorkerTrue
<1>2. CASE pc' = "idle"
    BY <1>2 DEF WorkerTrue
<1>3. CASE /\ workflows' = workflows \cup {NewWorkflow} /\ CountCreated
           /\ Goto("statusUpdate", [job EXCEPT !.status = Submitted(s)],
                   "submitted")
    <2>1. /\ pc' = "statusUpdate" /\ req' = req /\ outcome' = "submitted"
          /\ current' = current /\ job'.status = Submitted(s)
        BY <1>1, <1>3 DEF Goto
    <2>2. Creating(s) /\ Attempt(s) = s.attempts + 1
        BY <1>1 DEF NeedsQuota, Creating, Attempt
    <2>3. job'.status.phase = "Running" /\ job'.status.attempts = s.attempts + 1
        BY <1>1, <2>1, <2>2, StatusFields
    <2>4. Matches(workflows', req, job'.status)
        <3>1. IsWorkflowOf(NewWorkflow, req, s.attempts + 1)
            BY <2>2 DEF NewWorkflow, IsWorkflowOf
        <3>2. s.attempts + 1 > 0
            BY <1>1
        <3> HIDE DEF s
        <3> QED
            BY <1>3, <2>3, <3>1, <3>2 DEF Matches, NeedsQuota, IsTerminal
    <2>5. ASSUME current
          PROVE  created'[req] = s.attempts + 1 /\ NeedsQuota(jobs[req].status)
        <3>1. /\ jobs[req].status.phase = s.phase /\ created[req] = s.attempts
            BY <1>1, <2>5, CopyTrue
        <3>2. job.uid = jobs[req].uid
            BY <1>1 DEF VersionsGuarded, Guards
        <3>3. s.attempts <= BackoffLimit[req] /\ BackoffLimit[req] \in Nat
            BY <1>1, SpecAssumption DEF BudgetInv, WithinBudget
        <3>4. s.attempts < BackoffLimit[req] + 2
            BY <1>1, <3>3
        <3>5. created'[req] = s.attempts + 1
            BY <1>1, <1>3, <3>1, <3>2, <3>4 DEF CountCreated, TypeOK
        <3>6. NeedsQuota(jobs[req].status)
            BY <1>1, <3>1 DEF NeedsQuota
        <3> QED
            BY <3>5, <3>6
    <2> QED
        BY <1>1, <2>1, <2>3, <2>4, <2>5 DEF WorkerTrue
<1> QED
    BY <1>2, <1>3 DEF CreateWorkflow, Return, Stop

\* The delete that precedes a retry leaves no Workflow of the job.
LEMMA DeleteTrue ==
    ASSUME Synced, Known, SyncedInv, DeleteFailed
    PROVE  WorkerTrue'
<1> USE DEF Known
<1> DEFINE s == job.status
<1>1. /\ pc = "deleteFailed" /\ req \in Jobs /\ job \in TrainingJob
      /\ s \in TrainingJobStatus /\ s.phase = "Running"
      /\ UNCHANGED <<jobs, created>>
      /\ workflows' = {w \in workflows : ~IsWorkflowOf(w, req, Attempt(s))}
    BY ObjectType DEF DeleteFailed, TypeOK, apiVars, SyncedInv, WorkerTrue
<1>2. /\ pc' = "statusUpdate" /\ req' = req /\ outcome' = "retrying"
      /\ current' = current /\ job'.status = Retry(s)
    BY <1>1 DEF DeleteFailed, Goto, TrainingJob
<1>3. job'.status.phase = "Pending" /\ job'.status.attempts = s.attempts
    BY <1>1, <1>2, StatusFields
<1>4. ASSUME current
      PROVE  /\ Matches(workflows', req, job'.status)
             /\ created[req] = s.attempts /\ jobs[req].status.phase = "Running"
    <2>1. /\ Matches(workflows, req, s) /\ created[req] = s.attempts
          /\ jobs[req].status.phase = "Running"
        BY <1>1, <1>4, CopyTrue
    <2>2. PICK w \in workflows : IsWorkflowOf(w, req, s.attempts)
        BY <1>1, <2>1 DEF Matches
    <2>3. Attempt(s) = s.attempts
        BY <1>1, <2>1 DEF Matches, Attempt, Creating
    <2>4. \A v \in workflows : v.job = req => v = w
        BY <2>2 DEF SyncedInv, OneWorkflow, IsWorkflowOf
    <2>5. \A v \in workflows' : v.job # req
        BY <1>1, <2>2, <2>3, <2>4
    <2> QED
        BY <1>3, <2>1, <2>5 DEF Matches, IsTerminal
<1> QED
    BY <1>1, <1>2, <1>3, <1>4 DEF WorkerTrue

LEMMA WorkerKept ==
    ASSUME Synced, Known, SyncedInv, [Next]_vars
    PROVE  WorkerTrue'
<1> USE DEF Known
<1>1. ~ApiFails /\ ~Crash
    BY NoFaults
<1>2. ASSUME \/ RemoveFinalizer \/ AddFinalizer \/ DeleteExpired
             \/ StatusUpdate \/ UpdateQuotaStatus \/ DeleteOwnedWorkflows
      PROVE  WorkerTrue'
    <2>1. pc' \in {"idle", "quotaStatus", "removeFinalizer"}
        BY <1>2 DEF RemoveFinalizer, AddFinalizer, DeleteExpired,
                    StatusUpdate, UpdateQuotaStatus, DeleteOwnedWorkflows,
                    Return, Stop, Goto
    <2> QED
        BY <2>1 DEF WorkerTrue
<1>3. CASE UNCHANGED <<pc, req, job, outcome>> /\ pc = "idle"
    BY <1>3 DEF WorkerTrue
<1>4. CASE /\ UNCHANGED <<pc, req, job, outcome>> /\ ~WorkerStep /\ pc # "idle"
           /\ \A j \in Jobs : ~BeginReconcile(j)
    <2>1. /\ req \in Jobs
          /\ ~DeleteOwnedWorkflows /\ ~DeleteFailed /\ ~CreateWorkflow
        BY <1>4 DEF TypeOK, WorkerStep
    <2>2. Matches(workflows, req, job.status) =>
              Matches(workflows', req, job.status)
        BY <2>1, MatchesKept
    <2>3. CASE pc = "getWorkflow"
        BY <1>4, <2>2, <2>3 DEF SyncedInv, WorkerTrue
    <2>4. CASE pc = "createWorkflow"
        <3>1. Matches(workflows, req, job.status) /\ NeedsQuota(job.status)
            BY <2>4 DEF SyncedInv, WorkerTrue, Matches, NeedsQuota, IsTerminal
        <3>2. \A w \in workflows' : w.job # req
            BY <2>2, <3>1 DEF Matches
        <3> QED
            BY <1>4, <2>4, <3>1, <3>2 DEF WorkerTrue
    <2>5. CASE pc = "deleteFailed"
        BY <1>4, <2>5 DEF SyncedInv, WorkerTrue
    <2>6. CASE pc = "statusUpdate" /\ current'
        <3>1. current /\ jobs'[req] = jobs[req] /\ ~CreateJob(req)
            <4>1. ~CreateJob(req)
                BY <2>6 DEF CreateJob, UserWritesJob
            <4> QED
                BY <1>1, <1>4, <2>6, <4>1, LeftAlone
        <3>2. created'[req] = created[req]
            BY <2>1, <3>1, CreatedKept
        <3> QED
            BY <1>4, <2>2, <2>6, <3>1, <3>2 DEF SyncedInv, WorkerTrue
    <2> QED
        BY <1>4, <2>3, <2>4, <2>5, <2>6 DEF WorkerTrue
<1> QED
    BY <1>1, <1>2, <1>3, <1>4, WorkerSteps, BeginTrue, GetTrue, CreateTrue,
       DeleteTrue
    DEF WorkerStep

\* As long as caches are up to date and nothing fails, every status says what
\* is so, whatever users and Argo do in between.
THEOREM SyncedInvariant == ASSUME Synced PROVE Spec => []SyncedInv
<1>1. Init => SyncedInv
    <2> SUFFICES ASSUME Init PROVE SyncedInv
        OBVIOUS
    <2>1. \A j \in Jobs : jobs[j] = NotFound(0)
        BY DEF Init
    <2>2. UnguardedEmpty
        BY <2>1, EmptyFields DEF UnguardedEmpty
    <2>3. StoredTrue
        BY <2>1 DEF StoredTrue, NotFound
    <2> QED
        BY <2>2, <2>3 DEF Init, SyncedInv, OneWorkflow, InterruptedByDelete,
                          WorkerTrue
<1>2. Known /\ SyncedInv /\ [Next]_vars => SyncedInv'
    BY OneKept, StoredKept, EmptyKept, InterruptedKept, WorkerKept
    DEF Known, SyncedInv
<1> QED
    BY <1>1, <1>2, TypeCorrect, BudgetInvariant, StableInvariant,
       FreshInvariant, GuardInvariant, PTL
    DEF Spec, Known

\* No job has two Workflows going at once.
THEOREM SingleLiveWorkflowHolds ==
    ASSUME Synced PROVE Spec => []SingleLiveWorkflow
<1>1. SyncedInv => SingleLiveWorkflow
    <2> SUFFICES ASSUME SyncedInv, NEW j \in Jobs
                 PROVE  Cardinality(LiveWorkflows(j)) <= 1
        BY DEF SingleLiveWorkflow
    <2>1. CASE LiveWorkflows(j) = {}
        BY <2>1, FS_EmptySet
    <2>2. ASSUME NEW w \in LiveWorkflows(j)
          PROVE  Cardinality(LiveWorkflows(j)) <= 1
        <3>1. LiveWorkflows(j) = {w}
            BY <2>2 DEF SyncedInv, OneWorkflow, LiveWorkflows
        <3>2. Cardinality({w}) = 1
            BY FS_Singleton
        <3> QED
            BY <3>1, <3>2
    <2> QED
        BY <2>1, <2>2
<1> QED
    BY <1>1, SyncedInvariant, PTL

\* status.attempts is the number of Workflows that were created for the job.
THEOREM AttemptsCountWorkflowsHolds ==
    ASSUME Synced PROVE Spec => []AttemptsCountWorkflows
<1>1. SyncedInv => AttemptsCountWorkflows
    BY DEF SyncedInv, StoredTrue, AttemptsCountWorkflows
<1> QED
    BY <1>1, SyncedInvariant, PTL

-----------------------------------------------------------------------------
(* The strict lifecycle.                                                   *)

\* With the stored status true, a write never adopts or restarts anything.
LEMMA StrictReport ==
    ASSUME TypeOK, BudgetInv, SyncedInv, NEW j \in Jobs, ShowsReport(j)
    PROVE  Strict!LifecycleStep(j) \/ View' = View
<1> DEFINE s == jobs[j].status
           t == job.status
<1>1. /\ s.attempts \in Nat /\ BackoffLimit[j] \in Nat /\ WithinBudget(j, s)
      /\ StatusStep(j, s, t, outcome)
      /\ IF outcome \in {"queued", "submitted"} THEN NeedsQuota(s)
         ELSE s.phase = "Running"
    BY ObjectType, SpecAssumption
    DEF TypeOK, TrainingJobStatus, BudgetInv, ShowsReport, SyncedInv,
        WorkerTrue
<1>2. /\ View' = [View EXCEPT ![j] = [exists |-> TRUE, phase |-> t.phase,
                                      attempts |-> t.attempts]]
      /\ View[j].exists /\ View[j].phase = s.phase
      /\ View[j].attempts = s.attempts
      /\ View[j] = [exists |-> TRUE, phase |-> s.phase,
                    attempts |-> s.attempts]
      /\ View = [k \in Jobs |-> View[k]]
    <2>1. jobs[j].exists = TRUE
        BY ObjectType DEF TypeOK, ShowsReport
    <2>2. View[j] = [exists |-> TRUE, phase |-> s.phase,
                     attempts |-> s.attempts]
        BY <2>1 DEF View
    <2>3. View = [k \in Jobs |-> View[k]]
        BY DEF View
    <2> QED
        BY <2>2, <2>3 DEF ShowsReport
<1> HIDE DEF s, t
<1>3. ASSUME t.phase = s.phase, t.attempts = s.attempts
      PROVE  View' = View
    BY <1>2, <1>3
<1> USE DEF Strict!LifecycleStep, Strict!In, Strict!To, Strict!Waiting
<1>4. CASE outcome = "queued"
    <2>1. NeedsQuota(s) /\ t.phase = "Queued" /\ t.attempts = s.attempts
        BY <1>1, <1>4 DEF StatusStep
    <2>2. CASE s.phase = "Queued"
        BY <1>3, <2>1, <2>2
    <2>3. CASE s.phase \in {"", "Pending"}
        BY <1>2, <2>1, <2>3 DEF Strict!Queue
    <2> QED
        BY <2>1, <2>2, <2>3 DEF NeedsQuota
<1>5. CASE outcome = "submitted"
    <2>1. /\ t.phase = "Running" /\ t.attempts = s.attempts + 1
          /\ s.phase \in {"", "Pending", "Queued"}
        BY <1>1, <1>5 DEF StatusStep, NeedsQuota, Attempt, Creating
    <2>2. s.attempts <= BackoffLimit[j]
        BY <1>1, <1>5 DEF WithinBudget
    <2> QED
        BY <1>2, <2>1, <2>2 DEF Strict!Start
<1>6. CASE outcome = "propagated"
    BY <1>1, <1>3, <1>6 DEF StatusStep
<1>7. CASE outcome = "retrying"
    <2>1. /\ t.phase = "Pending" /\ t.attempts = s.attempts
          /\ s.attempts <= BackoffLimit[j] /\ s.phase = "Running"
        BY <1>1, <1>7 DEF StatusStep, MayRetry
    <2> QED
        BY <1>2, <2>1 DEF Strict!Resubmit
<1>8. CASE outcome = "finished"
    <2>1. /\ t.attempts = s.attempts /\ s.phase = "Running"
          /\ \/ t.phase = "Succeeded"
             \/ t.phase = "Failed" /\ ~(s.attempts <= BackoffLimit[j])
        BY <1>1, <1>8 DEF StatusStep, MayRetry
    <2>2. CASE t.phase = "Succeeded"
        BY <1>2, <2>1, <2>2 DEF Strict!Complete
    <2>3. CASE t.phase = "Failed" /\ ~(s.attempts <= BackoffLimit[j])
        <3>1. s.attempts = BackoffLimit[j] + 1
            BY <1>1, <2>3 DEF WithinBudget
        <3> QED
            BY <1>2, <2>1, <2>3, <3>1 DEF Strict!GiveUp
    <2> QED
        BY <2>1, <2>2, <2>3
<1> QED
    BY <1>1, <1>4, <1>5, <1>6, <1>7, <1>8 DEF StatusStep, Outcomes

\* Every status write is a transition of the abstract state machine, and
\* every attempt is counted when it starts: the reconciler implements the
\* strict lifecycle.
THEOREM StrictLifecycleHolds == ASSUME Synced PROVE Spec => StrictLifecycle
<1>1. Init => Strict!LifecycleInit
    <2> SUFFICES ASSUME Init PROVE View = [j \in Jobs |-> Strict!Absent]
        BY DEF Strict!LifecycleInit
    <2>1. \A j \in Jobs : jobs[j] = NotFound(0)
        BY DEF Init
    <2>2. \A j \in Jobs : jobs[j].exists = FALSE
        BY <2>1 DEF NotFound
    <2>3. \A j \in Jobs : /\ jobs[j].status.phase = ""
                          /\ jobs[j].status.attempts = 0
        BY <2>1, EmptyFields
    <2> QED
        BY <2>2, <2>3 DEF View, Strict!Absent
<1>2. TypeOK /\ FreshInv /\ BudgetInv /\ SyncedInv /\ [Next]_vars
          => [Strict!LifecycleNext]_View
    <2> SUFFICES ASSUME TypeOK, FreshInv, BudgetInv, SyncedInv, [Next]_vars
                 PROVE  Strict!LifecycleNext \/ View' = View
        OBVIOUS
    <2>1. ASSUME NEW j \in Jobs, Loose!Submit(j) \/ Loose!Remove(j)
          PROVE  Strict!LifecycleStep(j)
        BY <2>1 DEF Loose!Submit, Loose!Remove, Loose!To, Loose!Absent,
                    Strict!LifecycleStep, Strict!Submit, Strict!Remove,
                    Strict!To, Strict!Absent
    <2> QED
        BY <2>1, ViewSteps, StrictReport DEF Strict!LifecycleNext
<1> QED
    BY <1>1, <1>2, TypeCorrect, FreshInvariant, BudgetInvariant,
       SyncedInvariant, PTL
    DEF Spec, StrictLifecycle, Strict!Lifecycle

-----------------------------------------------------------------------------
(* The quota.                                                              *)

\* Without user edits the operator alone writes the GPUQuota.
LEMMA QuotaWrites ==
    ASSUME Synced, MaxQuotaEdits = 0, TypeOK, [Next]_vars
    PROVE  \/ UNCHANGED <<quota, quotaWatch, quotaCache>>
           \/ DeliverQuota
           \/ UpdateQuotaStatus
<1> USE DEF quotaVars
<1>1. ASSUME NEW j \in Jobs,
             \/ BeginReconcile(j) \/ CreateJob(j) \/ DeleteJob(j)
             \/ DeliverWorkflowEvent(j) \/ ElapseTTL(j) \/ TimerFires(j)
      PROVE  UNCHANGED quotaVars
    BY <1>1 DEF BeginReconcile, ReconcileGone, ReconcileDeletion,
           ReconcileFinalizer, ReconcileTTL, ReconcileDenied,
           ReconcileAttempt, Dequeue, CreateJob, DeleteJob,
           DeliverWorkflowEvent, ElapseTTL, TimerFires
<1>2. ASSUME \/ DeleteOwnedWorkflows \/ RemoveFinalizer \/ AddFinalizer
             \/ DeleteExpired \/ GetWorkflow \/ CreateWorkflow
             \/ DeleteFailed \/ StatusUpdate \/ DeliverJob
             \/ \E w \in workflows : ArgoStarts(w) \/ ArgoEnds(w)
      PROVE  UNCHANGED quotaVars
    BY <1>2 DEF DeleteOwnedWorkflows, RemoveFinalizer, AddFinalizer,
           DeleteExpired, GetWorkflow, CreateWorkflow, DeleteFailed,
           StatusUpdate, DeliverJob, ArgoStarts, ArgoEnds, SetWorkflowPhase
<1>3. ~EditQuota
    <2>1. quotaEdits \in Nat
        BY DEF TypeOK
    <2>2. ~(quotaEdits < MaxQuotaEdits)
        BY <2>1
    <2> QED
        BY <2>2 DEF EditQuota
<1>4. CASE UNCHANGED vars
    BY <1>4 DEF vars
<1> QED
    BY <1>1, <1>2, <1>3, <1>4, NoFaults DEF Next, OperatorNext, WorkerStep

\* Every version has the limit that was set first; the operator writes the
\* usage only.
LEMMA QuotaSameKept ==
    ASSUME Synced, MaxQuotaEdits = 0, TypeOK, QuotaSame, [Next]_vars
    PROVE  /\ QuotaSame'
           /\ quota'.exists = quota.exists /\ quota'.hardGPUs = quota.hardGPUs
<1>1. /\ quotaCache \in GPUQuota /\ quota \in GPUQuota
      /\ quotaWatch \in Seq(GPUQuota)
    BY DEF TypeOK
<1>2. CASE UNCHANGED <<quota, quotaWatch, quotaCache>>
    BY <1>2 DEF QuotaSame
<1>3. CASE DeliverQuota
    <2>1. /\ quotaCache' = Head(quotaWatch) /\ quotaWatch' = Tail(quotaWatch)
          /\ quotaWatch # <<>> /\ quota' = quota
        BY <1>3 DEF DeliverQuota
    <2>2. /\ 1 \in DOMAIN quotaWatch /\ quotaCache' = quotaWatch[1]
          /\ \A i \in DOMAIN quotaWatch' :
                i + 1 \in DOMAIN quotaWatch /\ quotaWatch'[i] = quotaWatch[i + 1]
        BY <1>1, <2>1
    <2> QED
        BY <2>1, <2>2 DEF QuotaSame
<1>4. ASSUME NEW q, WriteQuota(q), quotaCache' = quotaCache,
             q.exists = quota.exists, q.hardGPUs = quota.hardGPUs,
             q \in GPUQuota
      PROVE  /\ QuotaSame'
             /\ quota'.exists = quota.exists
             /\ quota'.hardGPUs = quota.hardGPUs
    <2>1. quota' = q /\ quotaWatch' = Append(quotaWatch, q)
        BY <1>4 DEF WriteQuota
    <2>2. \A i \in DOMAIN quotaWatch' :
              \/ quotaWatch'[i] = q
              \/ i \in DOMAIN quotaWatch /\ quotaWatch'[i] = quotaWatch[i]
        BY <1>1, <1>4, <2>1
    <2> QED
        BY <1>4, <2>1, <2>2 DEF QuotaSame
<1>5. CASE UpdateQuotaStatus
    <2>1. /\ RefreshedQuota.exists = quotaCache.exists
          /\ RefreshedQuota.hardGPUs = quotaCache.hardGPUs
        BY <1>1 DEF RefreshedQuota, GPUQuota
    <2>2. /\ quotaCache.exists = quota.exists
          /\ quotaCache.hardGPUs = quota.hardGPUs
        BY DEF QuotaSame
    <2>3. RefreshedQuota \in GPUQuota
        BY <1>1, UsageType DEF RefreshedQuota, GPUQuota
    <2> QED
        BY <1>2, <1>4, <1>5, <2>1, <2>2, <2>3 DEF UpdateQuotaStatus
<1> QED
    BY <1>2, <1>3, <1>5, QuotaWrites

\* A job becomes Running only as one the worker was let through with.
LEMMA RunningSteps ==
    ASSUME Synced, Known, SyncedInv, [Next]_vars, NEW j \in Jobs,
           j \in InPhase(jobs', "Running")
    PROVE  j \in Committed
<1> USE DEF Known
<1>1. jobs'[j].exists /\ jobs'[j].status.phase = "Running"
    BY DEF InPhase
<1>2. CASE jobs'[j] = jobs[j]
    BY <1>1, <1>2 DEF InPhase, Committed
<1>3. ASSUME NEW o \in TrainingJob, Writes(j, o), jobs'[j] = o
      PROVE  j \in Committed
    <2>1. jobs[j] \in TrainingJob /\ o.exists /\ o.status.phase = "Running"
        BY <1>1, <1>3 DEF TypeOK
    <2>2. ~Creates(j, o)
        BY <2>1, EmptyFields DEF Creates
    <2>3. ASSUME Deletes(j, o) \/ Protects(j, o)
          PROVE  jobs[j].exists /\ jobs[j].status.phase = "Running"
        BY <2>1, <2>3
        DEF Deletes, Protects, AfterDelete, NotFound, TrainingJob
    <2>4. ~Releases(j, o)
        BY <2>1 DEF Releases, NotFound
    <2>5. ASSUME Reports(j, o) PROVE j \in Committed
        <3>1. /\ pc = "statusUpdate" /\ current /\ req = j /\ jobs[j].exists
              /\ job.status.phase = "Running"
            BY <2>1, <2>5 DEF Reports, StatusUpdate, IsActive, TrainingJob
        <3>2. \/ outcome = "submitted"
              \/ outcome = "queued"
              \/ jobs[j].status.phase = "Running"
            BY <3>1 DEF SyncedInv, WorkerTrue
        <3>3. outcome # "queued"
            BY <2>5, <3>1 DEF Reports, StatusStep
        <3> QED
            BY <3>1, <3>2, <3>3 DEF Committed, InPhase
    <2> QED
        BY <1>3, <2>2, <2>3, <2>4, <2>5 DEF Writes, Committed, InPhase
<1> QED
    BY <1>2, <1>3, StoredSteps

\* Only the gate lets a job through.
LEMMA CommittedSteps ==
    ASSUME Synced, Known, SyncedInv, [Next]_vars, NEW j \in Committed'
    PROVE  j \in Committed \/ ReconcileAttempt(j)
<1> USE DEF Known
<1>1. j \in Jobs
    BY DEF Committed, InPhase
<1>2. CASE j \in InPhase(jobs', "Running")
    BY <1>1, <1>2, RunningSteps
<1>3. CASE /\ req' = j
           /\ \/ pc' \in {"getWorkflow", "createWorkflow"}
              \/ pc' = "statusUpdate" /\ outcome' = "submitted"
    <2>1. ASSUME NEW k \in Jobs, BeginReconcile(k)
          PROVE  ReconcileAttempt(j)
        <3>1. pc = "idle"
            BY <2>1, BeginReads
        <3>2. ~UNCHANGED workerVars
            BY <1>3, <3>1 DEF workerVars
        <3> QED
            BY <1>3, <2>1, <3>2
            DEF BeginReconcile, ReconcileGone, ReconcileDeletion,
                ReconcileFinalizer, ReconcileTTL, ReconcileDenied,
                ReconcileAttempt, Load
    <2>2. CASE WorkerStep
        <3>1. CASE GetWorkflow
            BY <1>1, <1>3, <3>1
            DEF GetWorkflow, WorkflowNotFound, WorkflowActive,
                WorkflowSucceeded, WorkflowFailed, Goto, Return, Stop,
                Committed
        <3>2. CASE CreateWorkflow
            BY <1>1, <1>3, <3>2
            DEF CreateWorkflow, Goto, Return, Stop, Committed
        <3>3. ~(DeleteFailed \/ DeleteOwnedWorkflows)
            BY <1>3 DEF DeleteFailed, DeleteOwnedWorkflows, Goto
        <3>4. ~(RemoveFinalizer \/ AddFinalizer \/ DeleteExpired
                   \/ StatusUpdate \/ UpdateQuotaStatus)
            BY <1>3 DEF RemoveFinalizer, AddFinalizer, DeleteExpired,
                   StatusUpdate, UpdateQuotaStatus, Return, Stop
        <3> QED
            BY <2>2, <3>1, <3>2, <3>3, <3>4 DEF WorkerStep
    <2>3. CASE UNCHANGED <<pc, req, job, outcome>>
        BY <1>1, <1>3, <2>3 DEF Committed
    <2> QED
        BY <2>1, <2>2, <2>3, NoFaults, WorkerSteps
<1> QED
    BY <1>2, <1>3 DEF Committed

\* The gate adds a job's request to those of the others that run, and the
\* stored jobs are the ones it sees.
LEMMA AttemptFits ==
    ASSUME Synced, SumGPUs(Jobs) <= MaxInt32, Known, CommittedInv,
           NEW j \in Jobs, ReconcileAttempt(j), quota.exists
    PROVE  SumGPUs(InPhase(jobs, "Running") \cup {j}) <= quota.hardGPUs
<1> USE DEF Known
<1> DEFINE S == InPhase(jobs, "Running") \ {j}
<1>1. /\ pc = "idle" /\ \A k \in Jobs : cache[k] = jobs[k]
      /\ jobs[j] \in TrainingJob
    BY BeginReads DEF BeginReconcile, TypeOK
<1>2. S \in SUBSET Jobs /\ j \notin S
      /\ InPhase(jobs, "Running") \cup {j} = S \cup {j}
    BY DEF InPhase
<1>3. CASE NeedsQuota(jobs[j].status)
    <2>1. QuotaAdmits(j)
        BY <1>1, <1>3 DEF ReconcileAttempt
    <2>2. /\ quotaCache.exists /\ quotaCache.hardGPUs = quota.hardGPUs
          /\ quota.hardGPUs \in Nat
        BY DEF CommittedInv, QuotaSame, TypeOK, GPUQuota
    <2>3. InPhase(cache, "Running") = InPhase(jobs, "Running")
        BY <1>1 DEF InPhase
    <2>4. ~ExceedsQuota(j, cache, quotaCache)
        BY <2>1, <2>2 DEF QuotaAdmits
    <2>5. ExceedsQuota(j, cache, quotaCache)
             <=> SumGPUs(S) + GPUs[j] > quotaCache.hardGPUs
        BY <2>3, GateIsExact
    <2>6. SumGPUs(S) \in Int /\ GPUs[j] \in Int
        BY <1>2, SumGPUsType, SpecAssumption
    <2>7. SumGPUs(S \cup {j}) = SumGPUs(S) + GPUs[j]
        BY <1>2, SumAdds
    <2> HIDE DEF S
    <2> QED
        BY <1>2, <2>2, <2>4, <2>5, <2>6, <2>7
<1>4. CASE ~NeedsQuota(jobs[j].status)
    <2>1. /\ jobs[j].exists /\ ~IsTerminal(jobs[j].status)
          /\ jobs[j].status.phase \in TrainingJobPhase
        BY <1>1, ObjectType
        DEF ReconcileAttempt, IsActive, TrainingJobStatus
    <2>2. jobs[j].status.phase = "Running"
        BY <1>4, <2>1 DEF NeedsQuota, IsTerminal, TrainingJobPhase
    <2>3. InPhase(jobs, "Running") \cup {j} \in SUBSET Committed
        BY <2>1, <2>2 DEF InPhase, Committed
    <2>4. Committed \in SUBSET Jobs
        BY DEF Committed, InPhase
    <2>5. SumGPUs(InPhase(jobs, "Running") \cup {j}) <= SumGPUs(Committed)
        BY <2>3, <2>4, SumMonotone
    <2>6. SumGPUs(InPhase(jobs, "Running") \cup {j}) \in Int
          /\ SumGPUs(Committed) \in Int /\ quota.hardGPUs \in Int
        BY <2>3, <2>4, SumGPUsType DEF TypeOK, GPUQuota
    <2> QED
        BY <2>5, <2>6 DEF CommittedInv
<1> QED
    BY <1>3, <1>4

LEMMA CommittedKept ==
    ASSUME Synced, MaxQuotaEdits = 0, SumGPUs(Jobs) <= MaxInt32,
           Known, SyncedInv, CommittedInv, [Next]_vars
    PROVE  CommittedInv'
<1> USE DEF Known
<1>1. /\ QuotaSame'
      /\ quota'.exists = quota.exists /\ quota'.hardGPUs = quota.hardGPUs
    BY QuotaSameKept DEF CommittedInv
<1> SUFFICES ASSUME quota.exists
             PROVE  SumGPUs(Committed') <= quota.hardGPUs
    BY <1>1 DEF CommittedInv
<1>2. PICK T \in SUBSET Jobs :
          Committed' \in SUBSET T /\ SumGPUs(T) <= quota.hardGPUs
    <2>1. CASE \E j \in Jobs : ReconcileAttempt(j)
        <3>1. PICK j \in Jobs : ReconcileAttempt(j)
            BY <2>1
        <3>2. pc = "idle" /\ jobs' = jobs /\ req' = j
            BY <3>1, BeginReads DEF BeginReconcile, ReconcileAttempt, Load
        <3>3. Committed' \in SUBSET (InPhase(jobs, "Running") \cup {j})
            BY <3>2 DEF Committed, InPhase
        <3>4. InPhase(jobs, "Running") \cup {j} \in SUBSET Jobs
            BY DEF InPhase
        <3> QED
            BY <3>1, <3>3, <3>4, AttemptFits
    <2>2. CASE ~\E j \in Jobs : ReconcileAttempt(j)
        <3>1. Committed \in SUBSET Jobs /\ Committed' \in SUBSET Jobs
            BY DEF Committed, InPhase
        <3>2. Committed' \in SUBSET Committed
            BY <2>2, <3>1, CommittedSteps
        <3> QED
            BY <3>1, <3>2 DEF CommittedInv
    <2> QED
        BY <2>1, <2>2
<1>3. SumGPUs(Committed') <= SumGPUs(T)
    BY <1>2, SumMonotone
<1>4. SumGPUs(Committed') \in Int /\ SumGPUs(T) \in Int /\ quota.hardGPUs \in Int
    <2>1. Committed' \in SUBSET Jobs
        BY <1>2
    <2> QED
        BY <2>1, SumGPUsType DEF TypeOK, GPUQuota
<1> QED
    BY <1>2, <1>3, <1>4

\* While users leave the quota alone and all requests together fit into an
\* int32, what quotaGate has let through stays within hardGPUs.
THEOREM CommittedInvariant ==
    ASSUME Synced, MaxQuotaEdits = 0, SumGPUs(Jobs) <= MaxInt32
    PROVE  Spec => []CommittedInv
<1>1. Init => CommittedInv
    <2> SUFFICES ASSUME Init PROVE CommittedInv
        OBVIOUS
    <2>1. QuotaSame
        <3>1. quotaWatch = <<>> /\ quotaCache = quota
            BY DEF Init
        <3> QED
            BY <3>1 DEF QuotaSame
    <2>2. \A j \in Jobs : jobs[j] = NotFound(0)
        BY DEF Init
    <2>3. Committed = {}
        BY <2>2 DEF Init, Committed, InPhase, NotFound
    <2>4. RequestedGPUs({}) = {}
        BY DEF RequestedGPUs
    <2>5. SumGPUs({}) = 0
        BY <2>4, FS_EmptySet DEF SumGPUs
    <2>6. quota.hardGPUs \in Nat
        BY InitType DEF TypeOK, GPUQuota
    <2> QED
        BY <2>1, <2>3, <2>5, <2>6 DEF CommittedInv
<1>2. Known /\ SyncedInv /\ CommittedInv /\ [Next]_vars => CommittedInv'
    BY CommittedKept
<1> QED
    BY <1>1, <1>2, TypeCorrect, BudgetInvariant, StableInvariant,
       FreshInvariant, GuardInvariant, SyncedInvariant, PTL
    DEF Spec, Known

\* A job with a live Workflow, and that is not being deleted, was let through.
LEMMA HoldersCommitted ==
    ASSUME Known, SyncedInv, NEW j \in Jobs, ~jobs[j].deleting,
           NEW w \in LiveWorkflows(j)
    PROVE  j \in Committed
<1> USE DEF Known
<1>1. w \in workflows /\ w.job = j /\ w.phase \notin CompletedPhases
    BY DEF LiveWorkflows
<1>2. jobs[j].exists /\ jobs[j] \in TrainingJob /\ job \in TrainingJob
    BY <1>1 DEF WorkflowsGuarded, NoOrphanWorkflow, TypeOK
<1>3. ASSUME NEW s \in TrainingJobStatus, Matches(workflows, j, s)
      PROVE  s.phase = "Running"
    <2>1. ~NeedsQuota(s) /\ ~IsTerminal(s)
        BY <1>1, <1>3 DEF Matches
    <2> QED
        BY <2>1
        DEF NeedsQuota, IsTerminal, TrainingJobStatus, TrainingJobPhase
<1>4. CASE pc = "statusUpdate" /\ req = j
    <2>1. current
        BY <1>4 DEF SyncedInv, InterruptedByDelete
    <2>2. /\ Matches(workflows, j, job.status)
          /\ IF outcome \in {"queued", "submitted"}
             THEN NeedsQuota(jobs[j].status)
             ELSE jobs[j].status.phase = "Running"
        BY <1>4, <2>1 DEF SyncedInv, WorkerTrue
    <2>3. job.status.phase = "Running"
        BY <1>2, <1>3, <2>2, ObjectType
    <2>4. outcome # "queued"
        BY <1>4, <2>1, <2>3 DEF FreshInv, StatusStep
    <2> QED
        BY <1>2, <1>4, <2>2, <2>4 DEF Committed, InPhase
<1>5. CASE ~(pc = "statusUpdate" /\ req = j)
    <2>1. Matches(workflows, j, jobs[j].status)
        BY <1>2, <1>5 DEF SyncedInv, StoredTrue
    <2>2. jobs[j].status.phase = "Running"
        BY <1>2, <1>3, <2>1, ObjectType
    <2> QED
        BY <1>2, <2>2 DEF Committed, InPhase
<1> QED
    BY <1>4, <1>5

\* quotaGate does its work: the GPUs of jobs with a live Workflow never
\* exceed hardGPUs, between any two calls of the reconciler and not only at
\* the end of a reconcile.
THEOREM QuotaRespectedHolds ==
    ASSUME Synced, MaxQuotaEdits = 0, SumGPUs(Jobs) <= MaxInt32
    PROVE  Spec => []QuotaRespected
<1>1. Known /\ SyncedInv /\ CommittedInv => QuotaRespected
    <2> SUFFICES ASSUME Known, SyncedInv, CommittedInv, quota.exists
                 PROVE  SumGPUs({j \in Jobs : /\ ~jobs[j].deleting
                                              /\ LiveWorkflows(j) # {}})
                            <= quota.hardGPUs
        BY DEF QuotaRespected
    <2> DEFINE H == {j \in Jobs : ~jobs[j].deleting /\ LiveWorkflows(j) # {}}
    <2>1. H \in SUBSET Committed
        BY HoldersCommitted
    <2>2. Committed \in SUBSET Jobs
        BY DEF Committed, InPhase
    <2> HIDE DEF H
    <2>3. SumGPUs(H) <= SumGPUs(Committed)
        BY <2>1, <2>2, SumMonotone
    <2>4. SumGPUs(H) \in Int /\ SumGPUs(Committed) \in Int
          /\ quota.hardGPUs \in Int
        BY <2>1, <2>2, SumGPUsType DEF Known, TypeOK, GPUQuota
    <2>5. SumGPUs(H) <= quota.hardGPUs
        BY <2>3, <2>4 DEF CommittedInv
    <2> QED
        BY <2>5 DEF H
<1> QED
    BY <1>1, TypeCorrect, BudgetInvariant, StableInvariant, FreshInvariant,
       GuardInvariant, SyncedInvariant, CommittedInvariant, PTL
    DEF Known
=============================================================================
