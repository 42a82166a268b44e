-------------------------- MODULE TrainingPipeline --------------------------
(***************************************************************************)
(* The Workflows that the operator submits, run by Argo as the template    *)
(* training-pipeline says: train, evaluate and upload, one pod after the   *)
(* other, on one workspace volume per Workflow.  Together with the         *)
(* operator of TrainingJobController, whose ArgoStarts and ArgoEnds it     *)
(* replaces, and with the objects of ModelStore.                           *)
(***************************************************************************)
EXTENDS TrainingJobController, ModelStore

CONSTANT
    MaxStrays   \* bound: pods that outlive their Workflow at one time

ASSUME PipelineAssumption == MaxStrays \in Nat

VARIABLES
    runs,    \* runs[i]: the pipeline of the stored Workflow i
    strays   \* upload pods that outlived their Workflow

pipelineVars == <<runs, strays, store>>

\* A Workflow whatever its phase.
WorkflowId(w) == [job |-> w.job, attempt |-> w.attempt, uid |-> w.uid]

WorkflowIds == [job : Jobs, attempt : Nat, uid : Nat]

\* retryStrategy of the train step.
TrainRetryLimit == 1

\* --files of the upload step, in the order upload.py writes them.
UploadFiles == <<"model.pt", "metrics.json">>

\* The step that runs, the retries of train so far, model.pt on the
\* workspace, and how many files upload.py has written.
Run ==
    [step     : {"train", "evaluate", "upload", "over"},
     retries  : 0 .. TrainRetryLimit,
     model    : Checkpoints \cup {"none"},
     uploaded : 0 .. Len(UploadFiles)]

NewRun == [step |-> "train", retries |-> 0, model |-> "none", uploaded |-> 0]

Stray == [workflow : WorkflowIds, model : Checkpoints, uploaded : Nat]

PipelineTypeOK ==
    /\ runs \in [{WorkflowId(w) : w \in workflows} -> Run]
    /\ strays \subseteq Stray
    /\ StoreTypeOK

PipelineInit == runs = <<>> /\ strays = {} /\ StoreInit

-----------------------------------------------------------------------------
(* Pods and their Workflow.                                                *)

\* A pod is terminated with a grace period, in which upload.py goes on with
\* the files it has left.  Nothing is to be seen of a train or evaluate pod:
\* the workspace goes with the Workflow.
UploadPods(ids) ==
    {s \in {[workflow |-> i, model |-> runs[i].model,
             uploaded |-> runs[i].uploaded] :
                i \in {k \in ids : runs[k].step = "upload"}} :
        s.uploaded < Len(UploadFiles)}

\* The upload pods of Workflows that are gone or over linger on.
Linger(ids) ==
    strays' = IF Cardinality(strays \cup UploadPods(ids)) <= MaxStrays
              THEN strays \cup UploadPods(ids)
              ELSE strays

\* The operator and its users create and delete Workflows; Argo gives a new
\* one a workspace of its own, and the pods of a deleted one are collected.
FollowWorkflows ==
    LET ids == {WorkflowId(w) : w \in workflows'} IN
    /\ runs' = [i \in ids |-> IF i \in DOMAIN runs THEN runs[i] ELSE NewRun]
    /\ Linger(DOMAIN runs \ ids)
    /\ UNCHANGED store

\* The pipeline of w moves on; no object the operator reads is touched.
Step(w, run) ==
    /\ w.phase = "Running"
    /\ runs' = [runs EXCEPT ![WorkflowId(w)] = run]
    /\ UNCHANGED <<vars, strays>>

\* Argo writes the Workflow's final phase.
EndWorkflow(w, phase) ==
    /\ phase \in ArgoPhases
    /\ w.phase \notin CompletedPhases
    /\ SetWorkflowPhase(w, phase)
    /\ runs' = [runs EXCEPT ![WorkflowId(w)] = [NewRun EXCEPT !.step = "over"]]
    /\ UNCHANGED store

-----------------------------------------------------------------------------
(* The steps of the template.                                              *)

StartPipeline(w) == ArgoStarts(w) /\ UNCHANGED pipelineVars

\* train.py runs to its end; how well the model does is not determined here.
TrainSaves(w) ==
    LET run == runs[WorkflowId(w)] IN
    /\ run.step = "train"
    /\ \E quality \in {"poor", "good"} :
          Step(w, [run EXCEPT !.step = "evaluate", !.model = quality])
    /\ UNCHANGED store

\* Mutation: one retry more than the limit.
TrainRetriedAgain(w) ==
    LET run == runs[WorkflowId(w)] IN
    /\ run.step = "train"
    /\ run.retries <= TrainRetryLimit
    /\ \E left \in {run.model} \cup Checkpoints :
          Step(w, [run EXCEPT !.retries = @ + 1, !.model = left])
    /\ UNCHANGED store

\* The train pod is lost, with model.pt unsaved, cut off or saved, and
\* retryPolicy OnError starts another on the same workspace.
TrainRetried(w) ==
    LET run == runs[WorkflowId(w)] IN
    /\ run.step = "train"
    /\ run.retries < TrainRetryLimit
    /\ \E left \in {run.model} \cup Checkpoints :
          Step(w, [run EXCEPT !.retries = @ + 1, !.model = left])
    /\ UNCHANGED store

\* Mutation: the metrics are written and the exit code is not.
PassesAlways(model) == model # "partial"

\* evaluate.py exits zero: the file loads and is not below the threshold.
Passes(model) == model = "good"

EvaluatePasses(w) ==
    LET run == runs[WorkflowId(w)] IN
    /\ run.step = "evaluate"
    /\ Passes(run.model)
    /\ Step(w, [run EXCEPT !.step = "upload"])
    /\ UNCHANGED store

EvaluateFails(w) ==
    LET run == runs[WorkflowId(w)] IN
    /\ run.step = "evaluate"
    /\ ~Passes(run.model)
    /\ w.phase = "Running"
    /\ EndWorkflow(w, "Failed")
    /\ UNCHANGED strays

\* The next pass of upload.py's loop.
WriteFile(id, model, uploaded, stray) ==
    /\ uploaded < Len(UploadFiles)
    /\ upload_file(S3Path(id.job), UploadFiles[uploaded + 1],
                   [uid |-> id.uid, attempt |-> id.attempt, stray |-> stray,
                    checkpoint |-> model])

UploadFile(w) ==
    LET run == runs[WorkflowId(w)] IN
    /\ run.step = "upload"
    /\ Step(w, [run EXCEPT !.uploaded = @ + 1])
    /\ WriteFile(WorkflowId(w), run.model, run.uploaded, FALSE)

\* Mutation: the pod is done once the model is up.
UploadedModel(run) == run.step = "upload" /\ run.uploaded >= 1

\* The loop is through and the pod exits zero.
Uploaded(run) == run.step = "upload" /\ run.uploaded = Len(UploadFiles)

PipelineSucceeds(w) ==
    /\ w.phase = "Running"
    /\ Uploaded(runs[WorkflowId(w)])
    /\ EndWorkflow(w, "Succeeded")
    /\ UNCHANGED strays

\* Mutation: the deadline strikes a Workflow that has ended.
PipelineAbortsLate(w) ==
    /\ SetWorkflowPhase(w, "Failed")
    /\ Linger({WorkflowId(w)})
    /\ UNCHANGED <<runs, store>>

\* The deadline passes, a pod exits non-zero or is lost with no retry left,
\* or the Workflow cannot be started; an upload pod may not be gone yet.
PipelineAborts(w) ==
    /\ \E phase \in {"Failed", "Error"} : EndWorkflow(w, phase)
    /\ Linger({WorkflowId(w)})

\* A stray pod writes its next file, and has ended after the last.
StrayUploads(s) ==
    /\ WriteFile(s.workflow, s.model, s.uploaded, TRUE)
    /\ strays' = (strays \ {s}) \cup
          {t \in {[s EXCEPT !.uploaded = @ + 1]} :
              t.uploaded < Len(UploadFiles)}
    /\ UNCHANGED <<vars, runs>>

StrayEnds(s) ==
    /\ strays' = strays \ {s}
    /\ UNCHANGED <<vars, runs, store>>

PipelineNext ==
    \/ \E w \in workflows :
          \/ StartPipeline(w) \/ TrainSaves(w) \/ TrainRetried(w)
          \/ EvaluatePasses(w) \/ EvaluateFails(w) \/ UploadFile(w)
          \/ PipelineSucceeds(w) \/ PipelineAborts(w)
    \/ \E s \in strays : StrayUploads(s) \/ StrayEnds(s)
=============================================================================
