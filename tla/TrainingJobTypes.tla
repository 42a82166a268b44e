-------------------------- MODULE TrainingJobTypes --------------------------
(***************************************************************************)
(* The TrainingJob and GPUQuota objects of operator/api/v1alpha1 and the   *)
(* pure functions of the reconciler: phase mapping, attempt numbering, the *)
(* retry decision, quota arithmetic.  No state: TrainingJobController      *)
(* builds the reconciler out of these operators.                           *)
(***************************************************************************)
EXTENDS Integers, FiniteSets

CONSTANTS
    Jobs,          \* names of the TrainingJobs of one namespace
    GPUs,          \* GPUs[j]: spec.gpus, immutable
    BackoffLimit,  \* BackoffLimit[j]: spec.retry.backoffLimit, immutable
    HasTTL,        \* HasTTL[j]: spec.ttlSecondsAfterFinished is set
    MaxInt32       \* largest int32; 2^31 - 1 in the code, small for TLC

ASSUME JobsAssumption == IsFiniteSet(Jobs)

ASSUME SpecAssumption ==
    /\ MaxInt32 \in Nat
    /\ GPUs \in [Jobs -> 0 .. MaxInt32]
    /\ BackoffLimit \in [Jobs -> Nat]
    /\ HasTTL \in [Jobs -> BOOLEAN]

-----------------------------------------------------------------------------
(* Phases, conditions, status.                                             *)

\* A fresh object has no phase: the zero value is the empty string.
TrainingJobPhase ==
    {"", "Pending", "Queued", "Running", "Succeeded", "Failed"}

ConditionTypes == {"QuotaGranted", "WorkflowSubmitted", "Complete"}

ConditionStatus == {"Unset", "True", "False"}

\* Times and the model URI are abstracted to whether they are set;
\* workflowName to the attempt number it ends in, 0 when it is empty.
TrainingJobStatus ==
    [phase          : TrainingJobPhase,
     attempts       : Nat,
     workflowName   : Nat,
     modelURI       : BOOLEAN,
     startTime      : BOOLEAN,
     completionTime : BOOLEAN,
     conditions     : [ConditionTypes -> ConditionStatus]]

EmptyStatus ==
    [phase          |-> "",
     attempts       |-> 0,
     workflowName   |-> 0,
     modelURI       |-> FALSE,
     startTime      |-> FALSE,
     completionTime |-> FALSE,
     conditions     |-> [c \in ConditionTypes |-> "Unset"]]

\* One version of a TrainingJob in the API server.  uid counts incarnations
\* of the name; a version with exists = FALSE stands for "not found".
TrainingJob ==
    [exists    : BOOLEAN,
     uid       : Nat,
     deleting  : BOOLEAN,
     finalizer : BOOLEAN,
     status    : TrainingJobStatus]

NotFound(uid) ==
    [exists |-> FALSE, uid |-> uid, deleting |-> FALSE,
     finalizer |-> FALSE, status |-> EmptyStatus]

\* The namespace's GPUQuota named "default".
GPUQuota ==
    [exists : BOOLEAN, hardGPUs : Nat, usedGPUs : Int, queuedJobs : Nat]

NoQuota == [exists |-> FALSE, hardGPUs |-> 0, usedGPUs |-> 0, queuedJobs |-> 0]

IsTerminal(status) == status.phase \in {"Succeeded", "Failed"}

setCondition(status, type, value) ==
    [status EXCEPT !.conditions[type] = value]

-----------------------------------------------------------------------------
(* Argo workflow phases as the operator reads them.                        *)

\* "" is a Workflow Argo has not written a status for yet.
WorkflowPhases == {"", "Running", "Succeeded", "Failed", "Error"}

CompletedPhases == {"Succeeded", "Failed", "Error"}

\* Mutation: a Workflow without a status is taken for a finished one.
MapWorkflowPhaseUnset(wfPhase) ==
    CASE wfPhase \in {"", "Succeeded"}   -> "Succeeded"
      [] wfPhase \in {"Failed", "Error"} -> "Failed"
      [] OTHER                           -> "Running"

\* Mutation: a phase the mapping does not know is taken for a failure.
MapWorkflowPhaseUnknown(wfPhase) ==
    CASE wfPhase = "Succeeded" -> "Succeeded"
      [] wfPhase = "Running"   -> "Running"
      [] OTHER                 -> "Failed"

MapWorkflowPhase(wfPhase) ==
    CASE wfPhase = "Succeeded"          -> "Succeeded"
      [] wfPhase \in {"Failed", "Error"} -> "Failed"
      [] OTHER                           -> "Running"

-----------------------------------------------------------------------------
(* Attempts and retries.                                                   *)

\* Mutation: a retry is not sent through the gate again.
NeedsQuotaOnce(status) == status.phase \in {"", "Queued"}

NeedsQuota(status) == status.phase \in {"", "Pending", "Queued"}

\* Mutation: attempt++ on every reconcile.
CreatingAlways(status) == TRUE

\* A status that is not Running starts a new attempt; so does a Running one
\* whose attempts counter was never written.
Creating(status) == status.phase # "Running" \/ status.attempts = 0

Attempt(status) ==
    IF Creating(status) THEN status.attempts + 1 ELSE status.attempts

\* Mutation: the comparison of the architecture document.
MayRetryOnceMore(j, status) == status.attempts <= BackoffLimit[j] + 1

\* Mutation: off by one the other way.
MayRetryOnceLess(j, status) == status.attempts < BackoffLimit[j]

MayRetry(j, status) == status.attempts <= BackoffLimit[j]

-----------------------------------------------------------------------------
(* Quota arithmetic.                                                       *)

\* Two's complement truncation to the width of a Go int32.
Int32(n) == ((n + MaxInt32 + 1) % (2 * (MaxInt32 + 1))) - (MaxInt32 + 1)

\* The GPUs a set of jobs asks for, each job's numbered from 1.
RequestedGPUs(S) == {g \in S \X (1 .. MaxInt32) : g[2] <= GPUs[g[1]]}

\* The exact sum of spec.gpus over S.
SumGPUs(S) == Cardinality(RequestedGPUs(S))

InPhase(list, phase) ==
    {j \in Jobs : list[j].exists /\ list[j].status.phase = phase}

\* Mutation: jobs that wait are counted as users, and block one another.
UsedGPUsParked(list, exclude) ==
    Int32(SumGPUs((InPhase(list, "Running") \cup InPhase(list, "Queued"))
                      \ exclude))

\* used += j.Spec.GPUs wraps at every addition, which is the sum wrapped once.
UsedGPUs(list, exclude) == Int32(SumGPUs(InPhase(list, "Running") \ exclude))

CountQueued(list) == Cardinality(InPhase(list, "Queued"))

\* The gate's comparison: used+job.Spec.GPUs > quota.Spec.HardGPUs.
ExceedsQuota(j, list, q) ==
    Int32(UsedGPUs(list, {j}) + GPUs[j]) > q.hardGPUs
=============================================================================
