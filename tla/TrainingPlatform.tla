-------------------------- MODULE TrainingPlatform --------------------------
(***************************************************************************)
(* Operator, training pipeline, object store and serving together, and     *)
(* what the platform promises about the models it publishes.               *)
(***************************************************************************)
EXTENDS TrainingPipeline, ModelServer

platformVars == <<vars, pipelineVars, server>>

\* The controller's TypeOK follows from ImplementsController.
PlatformTypeOK == PipelineTypeOK /\ ServerTypeOK

PlatformInit == Init /\ PipelineInit /\ ServerInit

PlatformNext ==
    \/ OperatorNext /\ FollowWorkflows /\ UNCHANGED server
    \/ PipelineNext /\ UNCHANGED server
    \/ ServerNext /\ UNCHANGED <<vars, pipelineVars>>

PlatformSpec == PlatformInit /\ [][PlatformNext]_platformVars

-----------------------------------------------------------------------------

\* The operator's view of Argo is right: operator and pipeline together
\* behave as TrainingJobController says, which knows no steps and no pods.
ImplementsController == Spec

\* evaluate.py is a gate: whatever is deleted, retried, cut off or late, only
\* a model that passed the threshold is stored under a job's URI or served.
OnlyEvaluatedModels ==
    \A j \in Jobs :
        /\ \A f \in Files :
              store[S3Path(j)][f] # NoObject =>
                  store[S3Path(j)][f].checkpoint = "good"
        /\ server[j] \in {"down", "good"}

\* Why: an upload pod, within its Workflow or outliving it, only ever holds
\* a model that passed.  The inductive invariant of TrainingPlatformProofs.
EvaluatedInv ==
    /\ \A i \in DOMAIN runs : runs[i].step = "upload" => runs[i].model = "good"
    /\ \A s \in strays : s.model = "good"
    /\ OnlyEvaluatedModels

\* The two retry layers do not interfere: the operator deletes a Workflow to
\* retry the job only when its pipeline is over, never while a step runs or
\* Argo retries one, although the phase was read by an earlier call and the
\* delete goes by name.
RetryLayersIsolated ==
    pc = "deleteFailed" =>
        \A w \in workflows :
            IsWorkflowOf(w, req, Attempt(job.status)) =>
                runs[WorkflowId(w)].step = "over"

\* Why: a name stands for one Workflow, the phase that was read is final, and
\* a final phase is written with the end of the pipeline.  The inductive
\* invariant of TrainingPlatformProofs.
IsolationInv ==
    /\ \A v, w \in workflows :
          (v.job = w.job /\ v.attempt = w.attempt) => v = w
    /\ \A w \in workflows :
          w.phase \in CompletedPhases => runs[WorkflowId(w)].step = "over"
    /\ pc = "deleteFailed" =>
          \A w \in workflows :
              IsWorkflowOf(w, req, Attempt(job.status)) =>
                  w.phase \in CompletedPhases

\* In the store S the prefix of j has model.pt and metrics.json of incarnation
\* uid, both of one attempt, except for what a pod wrote that had outlived
\* its Workflow.
HasPair(S, j, uid) ==
    LET object == S[S3Path(j)] IN
    /\ \A f \in Files :
          /\ object[f] # NoObject
          /\ object[f].stray \/ object[f].uid = uid
    /\ \/ \E f \in Files : object[f].stray
       \/ object["model.pt"].attempt = object["metrics.json"].attempt

\* status.modelURI is good: a Succeeded job has model.pt and metrics.json
\* under its prefix, both of one and the same attempt of this incarnation;
\* only a pod that outlived its Workflow can have replaced one of them.
SucceededPublishesPair ==
    \A j \in Jobs :
        jobs[j].status.phase = "Succeeded" => HasPair(store, j, jobs[j].uid)

\* A published model stays: while a job is Succeeded no attempt of it, and
\* nothing that the operator still does, replaces its objects.  Again only
\* a pod that outlived its Workflow can.
PublishedModelKept ==
    [][\A j \in Jobs : \A f \in Files :
          (/\ jobs[j].status.phase = "Succeeded"
           /\ store'[S3Path(j)][f] # store[S3Path(j)][f])
              => store'[S3Path(j)][f].stray]_platformVars

-----------------------------------------------------------------------------
(* Why these two hold as long as the operator's caches are up to date and  *)
(* nothing fails: the inductive invariant of TrainingPlatformProofs.       *)

\* Object f of j in S is that attempt's, or a stray pod's.
Published(S, j, uid, attempt, f) ==
    /\ S[S3Path(j)][f] # NoObject
    /\ \/ S[S3Path(j)][f].stray
       \/ S[S3Path(j)][f].uid = uid /\ S[S3Path(j)][f].attempt = attempt

\* A Workflow has published what its upload pod got to, and everything when
\* it has succeeded.
UploadsPublished ==
    \A w \in workflows : \A n \in 1 .. Len(UploadFiles) :
        (w.phase = "Succeeded" \/ n <= runs[WorkflowId(w)].uploaded) =>
            Published(store, w.job, w.uid, w.attempt, UploadFiles[n])

\* So has a job whose success the worker is about to report.
ReportPublished ==
    (pc = "statusUpdate" /\ current /\ job.status.phase = "Succeeded") =>
        HasPair(store, req, jobs[req].uid)

\* A job that the worker submits or watches has not succeeded.
BusyUnfinished ==
    pc \in {"getWorkflow", "createWorkflow", "deleteFailed", "statusUpdate"} =>
        jobs[req].status.phase # "Succeeded"

\* No Workflow of a Succeeded job is left that could upload, even while the
\* job is being deleted.
SucceededSafe ==
    \A j \in Jobs : jobs[j].status.phase = "Succeeded" =>
        /\ HasPair(store, j, jobs[j].uid)
        /\ \A w \in workflows : w.job = j => w.phase \in CompletedPhases

PublishInv ==
    UploadsPublished /\ ReportPublished /\ BusyUnfinished /\ SucceededSafe
=============================================================================
