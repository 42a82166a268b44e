----------------------- MODULE TrainingPlatformProofs -----------------------
(***************************************************************************)
(* Proofs about TrainingPlatform for any jobs, limits and bounds: operator *)
(* and pipeline together implement the operator's specification, so that   *)
(* what is proved of that holds of the platform; evaluate.py gates what is *)
(* stored and served; and a Succeeded job has its model and keeps it.      *)
(***************************************************************************)
EXTENDS TrainingPlatform, TrainingJobSyncedProofs

-----------------------------------------------------------------------------
(* The platform implements the controller.                                 *)

\* The end of a Workflow, whatever step it was in, is Argo ending it.
LEMMA EndIsArgoEnds ==
    ASSUME NEW w, NEW phase \in CompletedPhases, EndWorkflow(w, phase)
    PROVE  ArgoEnds(w)
BY DEF EndWorkflow, ArgoEnds

\* A step of the pipeline is a step of Argo or invisible to the operator.
LEMMA PipelineStepSimulates ==
    ASSUME PipelineNext
    PROVE  [Next]_vars
<1>1. ASSUME NEW w \in workflows, StartPipeline(w)
      PROVE  Next
    BY <1>1 DEF StartPipeline, Next
<1>2. ASSUME NEW w \in workflows,
             EvaluateFails(w) \/ PipelineSucceeds(w) \/ PipelineAborts(w)
      PROVE  Next
    <2>1. \E phase \in CompletedPhases : EndWorkflow(w, phase)
        BY <1>2
        DEF EvaluateFails, PipelineSucceeds, PipelineAborts, CompletedPhases
    <2>2. ArgoEnds(w)
        BY <2>1, EndIsArgoEnds
    <2> QED
        BY <2>2 DEF Next
<1>3. ASSUME NEW w \in workflows,
             \/ TrainSaves(w) \/ TrainRetried(w) \/ EvaluatePasses(w)
             \/ UploadFile(w)
      PROVE  UNCHANGED vars
    BY <1>3 DEF TrainSaves, TrainRetried, EvaluatePasses, UploadFile, Step
<1>4. ASSUME NEW s \in strays, StrayUploads(s) \/ StrayEnds(s)
      PROVE  UNCHANGED vars
    BY <1>4 DEF StrayUploads, StrayEnds
<1> QED
    BY <1>1, <1>2, <1>3, <1>4 DEF PipelineNext

LEMMA PlatformSteps ==
    ASSUME [PlatformNext]_platformVars
    PROVE  [Next]_vars
BY PipelineStepSimulates DEF PlatformNext, Next, platformVars

\* ImplementsController: with steps, pods, objects and predictors hidden, the
\* platform is the operator that TrainingJobController specifies.
THEOREM PlatformImplementsController == PlatformSpec => ImplementsController
<1>1. PlatformInit => Init
    BY DEF PlatformInit
<1>2. [PlatformNext]_platformVars => [Next]_vars
    BY PlatformSteps
<1> QED
    BY <1>1, <1>2, PTL DEF PlatformSpec, ImplementsController, Spec

\* What is proved of the operator carries over to the platform, in which
\* pipelines run step by step: the retry budget, finished jobs that stay as
\* they finished, no orphaned Workflow, no colliding create, no wrong TTL
\* delete, no lost wakeup, a model behind every Succeeded job, and the
\* lifecycle.
THEOREM PlatformKeepsOperator ==
    PlatformSpec =>
        /\ [](/\ RetryBudget /\ NoOrphanWorkflow /\ CreateNeverCollides
              /\ SucceededHasModel /\ NoStrandedJob)
        /\ TerminalStable /\ TTLDeletesOnlyExpired /\ LooseLifecycle
BY PlatformImplementsController, RetryBudgetHolds, NoOrphanWorkflowHolds,
   CreateNeverCollidesHolds, SucceededHasModelHolds, NoStrandedJobHolds,
   TerminalStableHolds, TTLDeletesOnlyExpiredHolds, LooseLifecycleHolds, PTL
DEF ImplementsController

\* With up-to-date caches and without faults that includes one Workflow at a
\* time, counted, and the lifecycle without adoption.
THEOREM SyncedPlatformKeepsOperator ==
    ASSUME Synced
    PROVE  PlatformSpec =>
               /\ [](SingleLiveWorkflow /\ AttemptsCountWorkflows)
               /\ StrictLifecycle
BY PlatformImplementsController, SingleLiveWorkflowHolds,
   AttemptsCountWorkflowsHolds, StrictLifecycleHolds, PTL
DEF ImplementsController

\* So does the quota, while users leave it alone and no sum wraps.
THEOREM SyncedPlatformKeepsQuota ==
    ASSUME Synced, MaxQuotaEdits = 0, SumGPUs(Jobs) <= MaxInt32
    PROVE  PlatformSpec => []QuotaRespected
BY PlatformImplementsController, QuotaRespectedHolds, PTL
DEF ImplementsController

-----------------------------------------------------------------------------
(* Only evaluated models are stored and served.                            *)

\* Runs, stray pods, objects and predictors are well formed, and what is
\* uploaded was evaluated.
PlatformInv == PlatformTypeOK /\ EvaluatedInv

\* The name of a stored Workflow has an identity.
LEMMA IdType ==
    ASSUME TypeOK, NEW w \in workflows
    PROVE  /\ WorkflowId(w) \in WorkflowIds
           /\ WorkflowId(w).job = w.job
           /\ w.job \in Jobs
BY DEF TypeOK, Workflow, WorkflowId, WorkflowIds

\* Every run belongs to a Workflow identity.
LEMMA RunsType ==
    ASSUME TypeOK, PlatformInv, NEW i \in DOMAIN runs
    PROVE  i \in WorkflowIds /\ runs[i] \in Run
BY IdType DEF PlatformInv, PlatformTypeOK, PipelineTypeOK

\* Pods that linger are stray pods, with a model that passed.
LEMMA LingerType ==
    ASSUME TypeOK, PlatformInv, NEW ids \in SUBSET DOMAIN runs, Linger(ids)
    PROVE  strays' \subseteq Stray /\ \A s \in strays' : s.model = "good"
<1>1. ASSUME NEW s \in UploadPods(ids)
      PROVE  s \in Stray /\ s.model = "good"
    <2>1. PICK i \in ids :
              /\ runs[i].step = "upload"
              /\ s = [workflow |-> i, model |-> runs[i].model,
                      uploaded |-> runs[i].uploaded]
        BY <1>1 DEF UploadPods
    <2>2. i \in WorkflowIds /\ runs[i] \in Run /\ runs[i].model = "good"
        BY <2>1, RunsType DEF PlatformInv, EvaluatedInv
    <2>3. runs[i].uploaded \in Nat
        BY <2>2 DEF Run, UploadFiles
    <2> QED
        BY <2>1, <2>2, <2>3 DEF Stray, Checkpoints
<1>2. strays \subseteq Stray /\ \A s \in strays : s.model = "good"
    BY DEF PlatformInv, PlatformTypeOK, PipelineTypeOK, EvaluatedInv
<1> QED
    BY <1>1, <1>2 DEF Linger

\* A new or an ended run is a run, and is not uploading.
LEMMA NewRunType ==
    /\ NewRun \in Run /\ NewRun.step = "train"
    /\ [NewRun EXCEPT !.step = "over"] \in Run
    /\ [NewRun EXCEPT !.step = "over"].step = "over"
BY DEF NewRun, Run, TrainRetryLimit, UploadFiles

\* Whatever the operator does with Workflows, Argo keeps up.
LEMMA FollowInv ==
    ASSUME TypeOK, TypeOK', PlatformInv, FollowWorkflows, UNCHANGED server
    PROVE  PlatformInv'
<1> DEFINE ids == {WorkflowId(w) : w \in workflows'}
<1>1. /\ runs' = [i \in ids |-> IF i \in DOMAIN runs THEN runs[i] ELSE NewRun]
      /\ Linger(DOMAIN runs \ ids)
      /\ UNCHANGED <<store, server>>
    BY DEF FollowWorkflows
<1>2. runs' \in [ids -> Run]
    BY <1>1, RunsType, NewRunType
<1>3. \A i \in DOMAIN runs' : runs'[i].step = "upload" => runs'[i].model = "good"
    BY <1>1, NewRunType DEF PlatformInv, EvaluatedInv
<1>4. strays' \subseteq Stray /\ \A s \in strays' : s.model = "good"
    BY <1>1, LingerType
<1> QED
    BY <1>1, <1>2, <1>3, <1>4
    DEF PlatformInv, PlatformTypeOK, PipelineTypeOK, StoreTypeOK,
        ServerTypeOK, EvaluatedInv, OnlyEvaluatedModels

\* A step that replaces one run by another of the same Workflow.
LEMMA RunChanges ==
    ASSUME TypeOK, PlatformInv, NEW w \in workflows,
           NEW run \in Run, run.step = "upload" => run.model = "good",
           runs' = [runs EXCEPT ![WorkflowId(w)] = run],
           {WorkflowId(v) : v \in workflows'} = {WorkflowId(v) : v \in workflows}
    PROVE  /\ runs' \in [{WorkflowId(v) : v \in workflows'} -> Run]
           /\ \A i \in DOMAIN runs' :
                 runs'[i].step = "upload" => runs'[i].model = "good"
<1>1. runs \in [{WorkflowId(v) : v \in workflows} -> Run]
    BY DEF PlatformInv, PlatformTypeOK, PipelineTypeOK
<1>2. \A i \in DOMAIN runs : runs[i].step = "upload" => runs[i].model = "good"
    BY DEF PlatformInv, EvaluatedInv
<1> QED
    BY <1>1, <1>2

\* An object written from a model that passed keeps the store as it should be.
LEMMA WriteInv ==
    ASSUME PlatformInv, NEW i \in WorkflowIds, NEW stray \in BOOLEAN,
           NEW n \in Nat, WriteFile(i, "good", n, stray)
    PROVE  /\ StoreTypeOK'
           /\ \A j \in Jobs : \A f \in Files :
                 store'[S3Path(j)][f] # NoObject =>
                     store'[S3Path(j)][f].checkpoint = "good"
<1> DEFINE a == [uid |-> i.uid, attempt |-> i.attempt, stray |-> stray,
                 checkpoint |-> "good"]
           p == S3Path(i.job)
           f == UploadFiles[n + 1]
<1>1. a \in Artifact /\ a.checkpoint = "good"
    BY DEF WorkflowIds, Artifact, Checkpoints
<1>2. f \in Files /\ p \in Prefixes
    BY DEF WriteFile, UploadFiles, Files, Prefixes, WorkflowIds
<1>3. store' = [store EXCEPT ![p][f] = a]
    BY DEF WriteFile, upload_file
<1>4. store \in [Prefixes -> [Files -> Artifact \cup {NoObject}]]
    BY DEF PlatformInv, PlatformTypeOK, PipelineTypeOK, StoreTypeOK
<1>5. StoreTypeOK'
    BY <1>1, <1>2, <1>3, <1>4 DEF StoreTypeOK
<1>6. ASSUME NEW j \in Jobs, NEW g \in Files,
             store'[S3Path(j)][g] # NoObject
      PROVE  store'[S3Path(j)][g].checkpoint = "good"
    <2>1. S3Path(j) \in Prefixes
        BY DEF Prefixes
    <2>2. CASE S3Path(j) = p /\ g = f
        BY <1>1, <1>2, <1>3, <1>4, <2>2
    <2>3. CASE ~(S3Path(j) = p /\ g = f)
        <3>1. store'[S3Path(j)][g] = store[S3Path(j)][g]
            BY <1>2, <1>3, <1>4, <2>1, <2>3
        <3> QED
            BY <1>6, <3>1 DEF PlatformInv, EvaluatedInv, OnlyEvaluatedModels
    <2> QED
        BY <2>2, <2>3
<1> QED
    BY <1>5, <1>6

\* A new phase leaves the identities of the Workflows as they are.
LEMMA SameIds ==
    ASSUME TypeOK, NEW w \in workflows, NEW phase, SetWorkflowPhase(w, phase)
    PROVE  {WorkflowId(v) : v \in workflows'} = {WorkflowId(v) : v \in workflows}
<1>1. [w EXCEPT !.phase = phase].job = w.job
      /\ [w EXCEPT !.phase = phase].attempt = w.attempt
      /\ [w EXCEPT !.phase = phase].uid = w.uid
    BY DEF TypeOK, Workflow
<1>2. WorkflowId([w EXCEPT !.phase = phase]) = WorkflowId(w)
    BY <1>1 DEF WorkflowId
<1>3. workflows' = (workflows \ {w}) \cup {[w EXCEPT !.phase = phase]}
    BY DEF SetWorkflowPhase
<1> QED
    BY <1>2, <1>3

\* The end of a Workflow leaves a run that is over.
LEMMA EndRun ==
    ASSUME TypeOK, PlatformInv, NEW w \in workflows, NEW phase,
           EndWorkflow(w, phase)
    PROVE  /\ runs' \in [{WorkflowId(v) : v \in workflows'} -> Run]
           /\ \A i \in DOMAIN runs' :
                 runs'[i].step = "upload" => runs'[i].model = "good"
           /\ store' = store
           /\ WorkflowId(w) \in DOMAIN runs
<1>1. {WorkflowId(v) : v \in workflows'} = {WorkflowId(v) : v \in workflows}
    BY SameIds DEF EndWorkflow
<1>2. runs' = [runs EXCEPT ![WorkflowId(w)] = [NewRun EXCEPT !.step = "over"]]
      /\ store' = store
    BY DEF EndWorkflow
<1>3. WorkflowId(w) \in DOMAIN runs
    BY DEF PlatformInv, PlatformTypeOK, PipelineTypeOK
<1> QED
    BY <1>1, <1>2, <1>3, NewRunType, RunChanges

\* One step of the pipeline.
LEMMA PipelineInv ==
    ASSUME TypeOK, PlatformInv, PipelineNext, UNCHANGED server
    PROVE  PlatformInv'
<1> DEFINE RunsGood ==
              /\ runs \in [{WorkflowId(v) : v \in workflows} -> Run]
              /\ \A i \in DOMAIN runs :
                    runs[i].step = "upload" => runs[i].model = "good"
           StraysGood ==
              strays \subseteq Stray /\ \A s \in strays : s.model = "good"
           StoreGood ==
              /\ StoreTypeOK
              /\ \A j \in Jobs : \A f \in Files :
                    store[S3Path(j)][f] # NoObject =>
                        store[S3Path(j)][f].checkpoint = "good"
           ServerGood ==
              ServerTypeOK /\ \A j \in Jobs : server[j] \in {"down", "good"}
<1>1. RunsGood /\ StraysGood /\ StoreGood /\ ServerGood'
    BY DEF PlatformInv, PlatformTypeOK, PipelineTypeOK, EvaluatedInv,
           OnlyEvaluatedModels, ServerTypeOK
<1>2. SUFFICES RunsGood' /\ StraysGood' /\ StoreGood'
    BY <1>1 DEF PlatformInv, PlatformTypeOK, PipelineTypeOK, EvaluatedInv,
                OnlyEvaluatedModels
<1>3. UNCHANGED store => StoreGood'
    BY <1>1 DEF StoreTypeOK
<1>4. UNCHANGED strays => StraysGood'
    BY <1>1
<1>5. ASSUME NEW w \in workflows
      PROVE  /\ runs[WorkflowId(w)] \in Run
             /\ WorkflowId(w) \in WorkflowIds
             /\ runs[WorkflowId(w)].step = "upload" =>
                    runs[WorkflowId(w)].model = "good"
    BY <1>1, IdType
<1>6. ASSUME NEW w \in workflows, NEW run \in Run, Step(w, run),
             run.step = "upload" => run.model = "good"
      PROVE  RunsGood' /\ StraysGood'
    <2>1. runs' = [runs EXCEPT ![WorkflowId(w)] = run]
          /\ strays' = strays /\ workflows' = workflows
        BY <1>6 DEF Step, vars
    <2> QED
        BY <1>4, <1>6, <2>1, RunChanges
<1>7. ASSUME NEW w \in workflows, StartPipeline(w)
      PROVE  RunsGood' /\ StraysGood' /\ StoreGood'
    <2>1. {WorkflowId(v) : v \in workflows'} = {WorkflowId(v) : v \in workflows}
        BY <1>7, SameIds DEF StartPipeline, ArgoStarts
    <2> QED
        BY <1>1, <1>3, <1>4, <1>7, <2>1 DEF StartPipeline, pipelineVars
<1>8. ASSUME NEW w \in workflows, TrainSaves(w)
      PROVE  RunsGood' /\ StraysGood' /\ StoreGood'
    <2> DEFINE run == runs[WorkflowId(w)]
    <2>1. PICK quality \in {"poor", "good"} :
              Step(w, [run EXCEPT !.step = "evaluate", !.model = quality])
        BY <1>8 DEF TrainSaves
    <2>2. [run EXCEPT !.step = "evaluate", !.model = quality] \in Run
        BY <1>5 DEF Run, Checkpoints
    <2>3. [run EXCEPT !.step = "evaluate", !.model = quality].step = "evaluate"
        BY <1>5 DEF Run
    <2> QED
        BY <1>3, <1>6, <1>8, <2>1, <2>2, <2>3 DEF TrainSaves
<1>9. ASSUME NEW w \in workflows, TrainRetried(w)
      PROVE  RunsGood' /\ StraysGood' /\ StoreGood'
    <2> DEFINE run == runs[WorkflowId(w)]
    <2>1. PICK left \in {run.model} \cup Checkpoints :
              Step(w, [run EXCEPT !.retries = @ + 1, !.model = left])
        BY <1>9 DEF TrainRetried
    <2>2. run.step = "train" /\ run.retries < TrainRetryLimit
        BY <1>9 DEF TrainRetried
    <2>3. [run EXCEPT !.retries = @ + 1, !.model = left] \in Run
        <3>1. run \in Run
            BY <1>5
        <3>2. run.retries + 1 \in 0 .. TrainRetryLimit
            BY <2>2, <3>1 DEF Run, TrainRetryLimit
        <3>3. left \in Checkpoints \cup {"none"}
            BY <3>1 DEF Run
        <3> QED
            BY <3>1, <3>2, <3>3 DEF Run
    <2>4. [run EXCEPT !.retries = @ + 1, !.model = left].step = "train"
        BY <1>5, <2>2 DEF Run
    <2> QED
        BY <1>3, <1>6, <1>9, <2>1, <2>3, <2>4 DEF TrainRetried
<1>10. ASSUME NEW w \in workflows, EvaluatePasses(w)
       PROVE  RunsGood' /\ StraysGood' /\ StoreGood'
    <2> DEFINE run == runs[WorkflowId(w)]
    <2>1. Step(w, [run EXCEPT !.step = "upload"]) /\ run.model = "good"
        BY <1>10 DEF EvaluatePasses, Passes
    <2>2. [run EXCEPT !.step = "upload"] \in Run
          /\ [run EXCEPT !.step = "upload"].model = "good"
        BY <1>5, <2>1 DEF Run
    <2> QED
        BY <1>3, <1>6, <1>10, <2>1, <2>2 DEF EvaluatePasses
<1>11. ASSUME NEW w \in workflows, EvaluateFails(w) \/ PipelineSucceeds(w)
       PROVE  RunsGood' /\ StraysGood' /\ StoreGood'
    <2>1. UNCHANGED strays /\ \E phase : EndWorkflow(w, phase)
        BY <1>11 DEF EvaluateFails, PipelineSucceeds
    <2> QED
        BY <1>3, <1>4, <2>1, EndRun
<1>12. ASSUME NEW w \in workflows, UploadFile(w)
       PROVE  RunsGood' /\ StraysGood' /\ StoreGood'
    <2> DEFINE run == runs[WorkflowId(w)]
    <2>1. /\ Step(w, [run EXCEPT !.uploaded = @ + 1])
          /\ run.model = "good"
          /\ WriteFile(WorkflowId(w), "good", run.uploaded, FALSE)
        BY <1>5, <1>12 DEF UploadFile
    <2>2. run.uploaded \in 0 .. 2 /\ run.uploaded < 2
        BY <1>5, <2>1 DEF Run, WriteFile, UploadFiles
    <2>3. [run EXCEPT !.uploaded = @ + 1] \in Run
          /\ [run EXCEPT !.uploaded = @ + 1].model = "good"
        BY <1>5, <2>1, <2>2 DEF Run, UploadFiles
    <2>4. StoreGood'
        <3>1. WorkflowId(w) \in WorkflowIds /\ run.uploaded \in Nat
            BY <1>5, <2>2
        <3> QED
            BY <2>1, <3>1, WriteInv
    <2> QED
        BY <1>6, <2>1, <2>3, <2>4
<1>13. ASSUME NEW w \in workflows, PipelineAborts(w)
       PROVE  RunsGood' /\ StraysGood' /\ StoreGood'
    <2>1. PICK phase : EndWorkflow(w, phase)
        BY <1>13 DEF PipelineAborts
    <2>2. {WorkflowId(w)} \in SUBSET DOMAIN runs /\ RunsGood' /\ UNCHANGED store
        BY <2>1, EndRun
    <2>3. StraysGood'
        BY <1>13, <2>2, LingerType DEF PipelineAborts
    <2> QED
        BY <1>3, <2>2, <2>3
<1>14. ASSUME NEW s \in strays, StrayUploads(s)
       PROVE  RunsGood' /\ StraysGood' /\ StoreGood'
    <2>1. s \in Stray /\ s.model = "good"
        BY <1>1
    <2>2. WriteFile(s.workflow, "good", s.uploaded, TRUE)
          /\ UNCHANGED <<runs, workflows>>
          /\ strays' \subseteq strays \cup {[s EXCEPT !.uploaded = @ + 1]}
        BY <1>14, <2>1 DEF StrayUploads, vars
    <2>3. s.workflow \in WorkflowIds /\ s.uploaded \in Nat
        BY <2>1 DEF Stray
    <2>4. [s EXCEPT !.uploaded = @ + 1] \in Stray
          /\ [s EXCEPT !.uploaded = @ + 1].model = "good"
        BY <2>1, <2>3 DEF Stray
    <2>5. StoreGood'
        BY <2>2, <2>3, WriteInv
    <2> QED
        BY <1>1, <2>2, <2>4, <2>5
<1>15. ASSUME NEW s \in strays, StrayEnds(s)
       PROVE  RunsGood' /\ StraysGood' /\ StoreGood'
    <2>1. UNCHANGED <<runs, workflows, store>> /\ strays' \subseteq strays
        BY <1>15 DEF StrayEnds, vars
    <2> QED
        BY <1>1, <1>3, <2>1
<1> QED
    BY <1>7, <1>8, <1>9, <1>10, <1>11, <1>12, <1>13, <1>14, <1>15
    DEF PipelineNext

\* One step of a predictor.
LEMMA ServerInv ==
    ASSUME PlatformInv, ServerNext, UNCHANGED <<vars, pipelineVars>>
    PROVE  PlatformInv'
<1>1. UNCHANGED <<workflows, runs, strays, store>>
    BY DEF vars, pipelineVars
<1>2. ASSUME NEW j \in Jobs, load(j) \/ ScaleDown(j)
      PROVE  /\ ServerTypeOK'
             /\ \A k \in Jobs : server'[k] \in {"down", "good"}
    <2>1. S3Path(j) \in Prefixes /\ "model.pt" \in Files
        BY DEF Prefixes, Files
    <2>2. load(j) => store[S3Path(j)]["model.pt"].checkpoint = "good"
        BY <2>1 DEF load, PlatformInv, EvaluatedInv, OnlyEvaluatedModels
    <2>3. \E v \in {"down", "good"} : server' = [server EXCEPT ![j] = v]
        BY <1>2, <2>2 DEF load, ScaleDown
    <2> QED
        BY <2>3 DEF PlatformInv, PlatformTypeOK, ServerTypeOK, Checkpoints,
                    EvaluatedInv, OnlyEvaluatedModels
<1> QED
    BY <1>1, <1>2
    DEF ServerNext, PlatformInv, PlatformTypeOK, PipelineTypeOK, StoreTypeOK,
        EvaluatedInv, OnlyEvaluatedModels

\* The inductive invariant holds.
LEMMA PlatformInvariant == PlatformSpec => []PlatformInv
<1>1. PlatformInit => PlatformInv
    <2> SUFFICES ASSUME PlatformInit PROVE PlatformInv
        OBVIOUS
    <2> USE DEF PlatformInit
    <2>1. runs = <<>> /\ strays = {} /\ workflows = {}
        BY DEF PipelineInit, Init
    <2>2. DOMAIN runs = {} /\ runs \in [{} -> Run]
        BY <2>1
    <2>3. {WorkflowId(w) : w \in workflows} = {}
        BY <2>1
    <2>4. store = [p \in Prefixes |-> [f \in Files |-> NoObject]]
        BY DEF PipelineInit, StoreInit
    <2>5. \A j \in Jobs : S3Path(j) \in Prefixes
        BY DEF Prefixes
    <2> QED
        BY <2>1, <2>2, <2>3, <2>4, <2>5
        DEF PlatformInv, PlatformTypeOK, PipelineTypeOK, StoreTypeOK,
            ServerTypeOK, ServerInit, EvaluatedInv, OnlyEvaluatedModels
<1>2. TypeOK /\ TypeOK' /\ PlatformInv /\ [PlatformNext]_platformVars
          => PlatformInv'
    <2>1. ASSUME PlatformInv, UNCHANGED platformVars
          PROVE  PlatformInv'
        <3>1. UNCHANGED <<workflows, runs, strays, store, server>>
            BY <2>1 DEF platformVars, vars, pipelineVars
        <3> QED
            BY <2>1, <3>1
            DEF PlatformInv, PlatformTypeOK, PipelineTypeOK, StoreTypeOK,
                ServerTypeOK, EvaluatedInv, OnlyEvaluatedModels
    <2> QED
        BY <2>1, FollowInv, PipelineInv, ServerInv DEF PlatformNext
<1>3. PlatformSpec => []TypeOK
    BY PlatformImplementsController, TypeCorrect, PTL DEF ImplementsController
<1> QED
    BY <1>1, <1>2, <1>3, PTL DEF PlatformSpec

\* Pipelines, stray pods, objects and predictors keep their types.
THEOREM PlatformTypeCorrect == PlatformSpec => []PlatformTypeOK
<1>1. PlatformInv => PlatformTypeOK
    BY DEF PlatformInv
<1> QED
    BY <1>1, PlatformInvariant, PTL

\* evaluate.py is a gate: with any interleaving of retries, deletions,
\* deadlines and late pods, what is stored under a job's URI and what is
\* served has passed the threshold.
THEOREM OnlyEvaluatedModelsHolds == PlatformSpec => []OnlyEvaluatedModels
<1>1. PlatformInv => OnlyEvaluatedModels
    BY DEF PlatformInv, EvaluatedInv
<1> QED
    BY <1>1, PlatformInvariant, PTL

-----------------------------------------------------------------------------
(* The two retry layers.                                                   *)

\* The phase that was read for the retry is final.
DeletesEnded ==
    pc = "deleteFailed" =>
        \A w \in workflows :
            IsWorkflowOf(w, req, Attempt(job.status)) =>
                w.phase \in CompletedPhases

\* A name stands for one Workflow.
UniqueNames ==
    \A v, w \in workflows : (v.job = w.job /\ v.attempt = w.attempt) => v = w

\* What the operator and its users do to Workflows: the only new ones are
\* without a phase and have a free name, and a retry was decided on a
\* Workflow that had ended.
LEMMA OperatorWorkflows ==
    ASSUME TypeOK, UniqueNames, DeletesEnded, OperatorNext
    PROVE  /\ \A w \in workflows' : w \in workflows \/ w.phase = ""
           /\ UniqueNames'
           /\ DeletesEnded'
<1> USE DEF wfVars, workerVars
<1>1. ASSUME workflows' \subseteq workflows, pc' # "deleteFailed"
      PROVE  /\ \A w \in workflows' : w \in workflows \/ w.phase = ""
             /\ UniqueNames'
             /\ DeletesEnded'
    BY <1>1 DEF UniqueNames, DeletesEnded
<1>2. ASSUME workflows' \subseteq workflows, UNCHANGED <<pc, req, job>>
      PROVE  /\ \A w \in workflows' : w \in workflows \/ w.phase = ""
             /\ UniqueNames'
             /\ DeletesEnded'
    BY <1>2 DEF UniqueNames, DeletesEnded, Attempt, Creating, IsWorkflowOf
<1>3. ASSUME NEW j \in Jobs, BeginReconcile(j)
      PROVE  workflows' \subseteq workflows /\ pc' # "deleteFailed"
    BY <1>3 DEF BeginReconcile, ReconcileGone, ReconcileDeletion,
                ReconcileFinalizer, ReconcileTTL, ReconcileDenied,
                ReconcileAttempt, Dequeue, Load
<1>4. CASE GetWorkflow
    <2>1. UNCHANGED workflows
        BY <1>4 DEF GetWorkflow
    <2>2. CASE pc' # "deleteFailed"
        BY <1>1, <2>1, <2>2
    <2>3. CASE pc' = "deleteFailed"
        <3>1. PICK w \in workflows :
                  /\ IsWorkflowOf(w, req, Attempt(job.status))
                  /\ WorkflowFailed(w) /\ Goto("deleteFailed", job, "none")
            BY <1>4, <2>3 DEF GetWorkflow, WorkflowNotFound, WorkflowActive,
                              WorkflowSucceeded, WorkflowFailed, Goto, Return,
                              Stop
        <3>2. w.phase \in CompletedPhases
            BY <3>1 DEF WorkflowFailed, MapWorkflowPhase, CompletedPhases
        <3>3. \A v \in workflows :
                  IsWorkflowOf(v, req, Attempt(job.status)) => v = w
            BY <3>1 DEF IsWorkflowOf, UniqueNames
        <3>4. UNCHANGED <<req, job>>
            BY <3>1 DEF Goto
        <3>5. DeletesEnded'
            BY <2>1, <3>2, <3>3, <3>4
            DEF DeletesEnded, Attempt, Creating, IsWorkflowOf
        <3> QED
            BY <2>1, <3>5 DEF UniqueNames
    <2> QED
        BY <2>2, <2>3
<1>5. CASE CreateWorkflow
    <2>1. pc' # "deleteFailed"
        BY <1>5 DEF CreateWorkflow, Return, Stop, Goto
    <2>2. CASE UNCHANGED workflows
        BY <1>1, <2>1, <2>2
    <2>3. CASE /\ workflows' = workflows \cup {NewWorkflow}
               /\ ~\E w \in workflows : IsWorkflowOf(w, req, Attempt(job.status))
        <3>1. /\ NewWorkflow.job = req /\ NewWorkflow.phase = ""
              /\ NewWorkflow.attempt = Attempt(job.status)
            BY DEF NewWorkflow
        <3>2. \A w \in workflows :
                  ~(w.job = req /\ w.attempt = Attempt(job.status))
            BY <2>3 DEF IsWorkflowOf
        <3>3. UniqueNames'
            BY <2>3, <3>1, <3>2 DEF UniqueNames
        <3> QED
            BY <2>1, <2>3, <3>1, <3>3 DEF DeletesEnded
    <2> QED
        BY <1>5, <2>2, <2>3 DEF CreateWorkflow
<1>6. CASE DeleteOwnedWorkflows \/ DeleteFailed
    <2>1. workflows' \subseteq workflows /\ pc' # "deleteFailed"
        BY <1>6 DEF DeleteOwnedWorkflows, DeleteFailed, Goto
    <2> QED
        BY <1>1, <2>1
<1>7. CASE \/ RemoveFinalizer \/ AddFinalizer \/ DeleteExpired
           \/ StatusUpdate \/ UpdateQuotaStatus
    <2>1. workflows' \subseteq workflows /\ pc' # "deleteFailed"
        BY <1>7 DEF RemoveFinalizer, AddFinalizer, DeleteExpired, StatusUpdate,
                    UpdateQuotaStatus, Return, Stop
    <2> QED
        BY <1>1, <2>1
<1>8. CASE ApiFails \/ Crash
    <2>1. workflows' \subseteq workflows /\ pc' # "deleteFailed"
        BY <1>8 DEF ApiFails, Crash, Return, Stop
    <2> QED
        BY <1>1, <2>1
<1>9. ASSUME NEW w \in workflows, VanishWorkflow(w)
      PROVE  workflows' \subseteq workflows /\ UNCHANGED <<pc, req, job>>
    BY <1>9 DEF VanishWorkflow
<1>10. ASSUME NEW j \in Jobs,
              \/ CreateJob(j) \/ DeleteJob(j) \/ DeliverWorkflowEvent(j)
              \/ ElapseTTL(j) \/ TimerFires(j)
       PROVE  workflows' \subseteq workflows /\ UNCHANGED <<pc, req, job>>
    BY <1>10 DEF CreateJob, DeleteJob, DeliverWorkflowEvent, ElapseTTL,
                 TimerFires
<1>11. ASSUME EditQuota \/ DeliverJob \/ DeliverQuota
       PROVE  workflows' \subseteq workflows /\ UNCHANGED <<pc, req, job>>
    BY <1>11 DEF EditQuota, DeliverJob, DeliverQuota
<1> QED
    BY <1>1, <1>2, <1>3, <1>4, <1>5, <1>6, <1>7, <1>8, <1>9, <1>10, <1>11
    DEF OperatorNext, WorkerStep

\* A Workflow that has ended keeps its pipeline over while the operator acts.
LEMMA OperatorIsolation ==
    ASSUME TypeOK, TypeOK', PlatformInv, IsolationInv, OperatorNext,
           FollowWorkflows
    PROVE  IsolationInv'
<1>1. /\ \A w \in workflows' : w \in workflows \/ w.phase = ""
      /\ UniqueNames' /\ DeletesEnded'
    BY OperatorWorkflows DEF IsolationInv, UniqueNames, DeletesEnded
<1>2. ASSUME NEW w \in workflows', w.phase \in CompletedPhases
      PROVE  runs'[WorkflowId(w)].step = "over"
    <2>1. w \in workflows
        BY <1>1, <1>2 DEF CompletedPhases
    <2>2. WorkflowId(w) \in DOMAIN runs /\ runs[WorkflowId(w)].step = "over"
        BY <1>2, <2>1
        DEF IsolationInv, PlatformInv, PlatformTypeOK, PipelineTypeOK
    <2>3. runs'[WorkflowId(w)] = runs[WorkflowId(w)]
        BY <1>2, <2>2 DEF FollowWorkflows
    <2> QED
        BY <2>2, <2>3
<1> QED
    BY <1>1, <1>2 DEF IsolationInv, UniqueNames, DeletesEnded

\* A pipeline that moves on is not one that has ended.
LEMMA PipelineIsolation ==
    ASSUME TypeOK, PlatformInv, IsolationInv, PipelineNext
    PROVE  IsolationInv'
<1> USE DEF IsolationInv
<1>1. runs \in [{WorkflowId(v) : v \in workflows} -> Run]
    BY DEF PlatformInv, PlatformTypeOK, PipelineTypeOK
<1>2. ASSUME NEW v \in workflows, NEW w \in workflows,
             WorkflowId(v) = WorkflowId(w)
      PROVE  v = w
    BY <1>2 DEF WorkflowId
<1>3. ASSUME UNCHANGED <<workflows, pc, req, job, runs>>
      PROVE  IsolationInv'
    BY <1>3 DEF Attempt, Creating, IsWorkflowOf
<1>4. ASSUME NEW w \in workflows, NEW run, Step(w, run)
      PROVE  IsolationInv'
    <2>1. /\ UNCHANGED <<workflows, pc, req, job>>
          /\ w.phase \notin CompletedPhases
          /\ runs' = [runs EXCEPT ![WorkflowId(w)] = run]
        BY <1>4 DEF Step, vars, CompletedPhases
    <2>2. \A v \in workflows :
              v.phase \in CompletedPhases => runs'[WorkflowId(v)].step = "over"
        BY <1>1, <1>2, <2>1
    <2> QED
        BY <2>1, <2>2 DEF Attempt, Creating, IsWorkflowOf
<1>5. ASSUME NEW w \in workflows, NEW p, SetWorkflowPhase(w, p),
             w.phase \notin CompletedPhases,
             p \in CompletedPhases => /\ WorkflowId(w) \in DOMAIN runs
                                     /\ runs'[WorkflowId(w)].step = "over",
             \A i \in DOMAIN runs \ {WorkflowId(w)} : runs'[i] = runs[i]
      PROVE  IsolationInv'
    <2> DEFINE e == [w EXCEPT !.phase = p]
    <2>1. e.job = w.job /\ e.attempt = w.attempt /\ e.uid = w.uid /\ e.phase = p
        BY DEF TypeOK, Workflow
    <2>2. workflows' = (workflows \ {w}) \cup {e} /\ UNCHANGED <<pc, req, job>>
        BY <1>5 DEF SetWorkflowPhase, workerVars
    <2> HIDE DEF e
    <2>3. UniqueNames'
        BY <2>1, <2>2 DEF UniqueNames
    <2>4. ASSUME NEW v \in workflows', v.phase \in CompletedPhases
          PROVE  runs'[WorkflowId(v)].step = "over"
        <3>1. CASE v = e
            BY <1>5, <2>1, <2>4, <3>1 DEF WorkflowId
        <3>2. CASE v \in workflows \ {w}
            <4>1. WorkflowId(v) # WorkflowId(w)
                BY <1>2, <3>2
            <4>2. WorkflowId(v) \in DOMAIN runs
                BY <1>1, <3>2
            <4> QED
                BY <1>5, <2>4, <3>2, <4>1, <4>2
        <3> QED
            BY <2>2, <3>1, <3>2
    <2>5. DeletesEnded'
        <3>1. ASSUME pc = "deleteFailed"
              PROVE  ~IsWorkflowOf(w, req, Attempt(job.status))
            BY <1>5, <3>1
        <3> QED
            BY <2>1, <2>2, <3>1
            DEF DeletesEnded, IsWorkflowOf, Attempt, Creating
    <2> QED
        BY <2>3, <2>4, <2>5 DEF UniqueNames, DeletesEnded
<1>6. ASSUME NEW w \in workflows, NEW p, EndWorkflow(w, p)
      PROVE  IsolationInv'
    <2>1. /\ SetWorkflowPhase(w, p)
          /\ w.phase \notin CompletedPhases
          /\ runs' = [runs EXCEPT
                         ![WorkflowId(w)] = [NewRun EXCEPT !.step = "over"]]
        BY <1>6 DEF EndWorkflow
    <2>2. WorkflowId(w) \in DOMAIN runs
        BY <1>1
    <2>3. /\ runs'[WorkflowId(w)].step = "over"
          /\ \A i \in DOMAIN runs \ {WorkflowId(w)} : runs'[i] = runs[i]
        BY <1>1, <2>1, <2>2, NewRunType
    <2> QED
        BY <1>5, <2>1, <2>2, <2>3
<1>7. ASSUME NEW w \in workflows, StartPipeline(w)
      PROVE  IsolationInv'
    <2>1. PICK p \in ArgoPhases \ CompletedPhases : SetWorkflowPhase(w, p)
        BY <1>7 DEF StartPipeline, ArgoStarts
    <2>2. UNCHANGED runs /\ w.phase \notin CompletedPhases
        BY <1>7 DEF StartPipeline, ArgoStarts, pipelineVars, CompletedPhases
    <2> QED
        BY <1>5, <2>1, <2>2
<1>8. ASSUME NEW w \in workflows,
             \/ TrainSaves(w) \/ TrainRetried(w) \/ EvaluatePasses(w)
             \/ UploadFile(w)
      PROVE  IsolationInv'
    <2>1. \E run : Step(w, run)
        BY <1>8 DEF TrainSaves, TrainRetried, EvaluatePasses, UploadFile
    <2> QED
        BY <1>4, <2>1
<1>9. ASSUME NEW w \in workflows,
             EvaluateFails(w) \/ PipelineSucceeds(w) \/ PipelineAborts(w)
      PROVE  IsolationInv'
    <2>1. \E p : EndWorkflow(w, p)
        BY <1>9 DEF EvaluateFails, PipelineSucceeds, PipelineAborts
    <2> QED
        BY <1>6, <2>1
<1>10. ASSUME NEW s \in strays, StrayUploads(s) \/ StrayEnds(s)
       PROVE  IsolationInv'
    BY <1>3, <1>10 DEF StrayUploads, StrayEnds, vars
<1> QED
    BY <1>7, <1>8, <1>9, <1>10 DEF PipelineNext

LEMMA IsolationInvariant == PlatformSpec => []IsolationInv
<1>1. PlatformInit => IsolationInv
    BY DEF PlatformInit, Init, IsolationInv
<1>2. TypeOK /\ TypeOK' /\ PlatformInv /\ IsolationInv
          /\ [PlatformNext]_platformVars => IsolationInv'
    <2>1. ASSUME IsolationInv, UNCHANGED <<workflows, runs, pc, req, job>>
          PROVE  IsolationInv'
        BY <2>1 DEF IsolationInv, IsWorkflowOf, Attempt, Creating
    <2>2. UNCHANGED platformVars => UNCHANGED <<workflows, runs, pc, req, job>>
        BY DEF platformVars, vars, pipelineVars
    <2>3. UNCHANGED <<vars, pipelineVars>> =>
              UNCHANGED <<workflows, runs, pc, req, job>>
        BY DEF vars, pipelineVars
    <2> QED
        BY <2>1, <2>2, <2>3, OperatorIsolation, PipelineIsolation
        DEF PlatformNext
<1>3. PlatformSpec => []TypeOK
    BY PlatformImplementsController, TypeCorrect, PTL DEF ImplementsController
<1>4. PlatformSpec => []PlatformInv
    BY PlatformInvariant
<1> QED
    BY <1>1, <1>2, <1>3, <1>4, PTL DEF PlatformSpec

\* RetryLayersIsolated: whatever lags, fails or crashes, the operator deletes a
\* Workflow for a retry only when Argo is done with all of its steps.
THEOREM RetryLayersIsolatedHolds == PlatformSpec => []RetryLayersIsolated
<1>1. IsolationInv => RetryLayersIsolated
    BY DEF IsolationInv, RetryLayersIsolated
<1> QED
    BY <1>1, IsolationInvariant, PTL

-----------------------------------------------------------------------------
(* What a Succeeded job has published.                                     *)

\* An upload replaces one object of one job.
LEMMA UploadReplaces ==
    ASSUME PlatformInv, NEW i \in Jobs, NEW g \in Files, NEW a,
           upload_file(S3Path(i), g, a), NEW j \in Jobs, NEW f \in Files
    PROVE  store'[S3Path(j)][f] =
               IF j = i /\ f = g THEN a ELSE store[S3Path(j)][f]
<1> DEFINE p == S3Path(i)
<1>1. store \in [Prefixes -> [Files -> Artifact \cup {NoObject}]]
    BY DEF PlatformInv, PlatformTypeOK, PipelineTypeOK, StoreTypeOK
<1>2. store' = [store EXCEPT ![p][g] = a]
    BY DEF upload_file
<1>3. p \in Prefixes /\ S3Path(j) \in Prefixes
    BY DEF Prefixes
<1>4. S3Path(j) = p <=> j = i
    BY DEF S3Path
<1> HIDE DEF p
<1>5. store'[S3Path(j)][f] =
          IF S3Path(j) = p /\ f = g THEN a ELSE store[S3Path(j)][f]
    BY <1>1, <1>2, <1>3
<1> QED
    BY <1>4, <1>5

\* The upload pod of a running Workflow writes its next object.
LEMMA UploadWrites ==
    ASSUME TypeOK, PlatformInv, NEW w \in workflows, UploadFile(w)
    PROVE  LET n == runs[WorkflowId(w)].uploaded IN
           /\ w.phase = "Running" /\ w.job \in Jobs
           /\ n \in 0 .. 1 /\ UploadFiles[n + 1] \in Files
           /\ \E a \in Artifact :
                 /\ a.uid = w.uid /\ a.attempt = w.attempt
                 /\ upload_file(S3Path(w.job), UploadFiles[n + 1], a)
<1> DEFINE run == runs[WorkflowId(w)]
           i == WorkflowId(w)
           a == [uid |-> i.uid, attempt |-> i.attempt, stray |-> FALSE,
                 checkpoint |-> run.model]
           n == run.uploaded
<1>1. /\ n < Len(UploadFiles)
      /\ upload_file(S3Path(i.job), UploadFiles[n + 1], a)
      /\ w.phase = "Running" /\ run.step = "upload"
    BY DEF UploadFile, Step, WriteFile
<1>2. i \in WorkflowIds /\ i \in DOMAIN runs /\ w.job \in Jobs
    BY IdType DEF PlatformInv, PlatformTypeOK, PipelineTypeOK
<1>3. run \in Run /\ run.model = "good"
    BY <1>1, <1>2, RunsType DEF PlatformInv, EvaluatedInv
<1>4. n \in 0 .. 1
    BY <1>1, <1>3 DEF Run, UploadFiles
<1>5. UploadFiles[n + 1] \in Files
    BY <1>4 DEF UploadFiles, Files
<1>6. a \in Artifact /\ a.uid = i.uid /\ a.attempt = i.attempt
    BY <1>2, <1>3 DEF WorkflowIds, Artifact, Checkpoints
<1>7. i.job = w.job /\ i.uid = w.uid /\ i.attempt = w.attempt
    BY DEF WorkflowId
<1> HIDE DEF a, run, i
<1>8. /\ a \in Artifact /\ a.uid = w.uid /\ a.attempt = w.attempt
      /\ upload_file(S3Path(w.job), UploadFiles[n + 1], a)
    BY <1>1, <1>6, <1>7
<1> QED
    BY <1>1, <1>2, <1>4, <1>5, <1>8 DEF run

\* So does a pod that outlived its Workflow, and marks it.
LEMMA StrayWrites ==
    ASSUME TypeOK, PlatformInv, NEW s \in strays, StrayUploads(s)
    PROVE  \E a \in Artifact, i \in Jobs, g \in Files :
              a.stray /\ upload_file(S3Path(i), g, a)
<1> DEFINE a == [uid |-> s.workflow.uid, attempt |-> s.workflow.attempt,
                 stray |-> TRUE, checkpoint |-> s.model]
           i == s.workflow.job
           g == UploadFiles[s.uploaded + 1]
<1>1. s \in Stray
    BY DEF PlatformInv, PlatformTypeOK, PipelineTypeOK
<1>2. s.uploaded < Len(UploadFiles) /\ upload_file(S3Path(i), g, a)
    BY DEF StrayUploads, WriteFile
<1>3. i \in Jobs /\ a \in Artifact /\ a.stray
    BY <1>1 DEF Stray, WorkflowIds, Artifact
<1>4. g \in Files
    BY <1>1, <1>2 DEF Stray, UploadFiles, Files
<1> HIDE DEF a, i, g
<1> QED
    BY <1>2, <1>3, <1>4

\* Who writes objects: the upload pod of a running Workflow, or one that
\* outlived its Workflow.
LEMMA StoreWrites ==
    ASSUME TypeOK, PlatformInv, [PlatformNext]_platformVars,
           NEW j \in Jobs, NEW f \in Files,
           store'[S3Path(j)][f] # store[S3Path(j)][f]
    PROVE  /\ store'[S3Path(j)][f] # NoObject
           /\ \/ store'[S3Path(j)][f].stray
              \/ \E w \in workflows :
                    /\ UploadFile(w) /\ w.job = j /\ w.phase = "Running"
                    /\ f = UploadFiles[runs[WorkflowId(w)].uploaded + 1]
                    /\ store'[S3Path(j)][f].uid = w.uid
                    /\ store'[S3Path(j)][f].attempt = w.attempt
<1>1. ASSUME NEW w \in workflows, UploadFile(w)
      PROVE  /\ store'[S3Path(j)][f] # NoObject
             /\ w.job = j /\ w.phase = "Running"
             /\ f = UploadFiles[runs[WorkflowId(w)].uploaded + 1]
             /\ store'[S3Path(j)][f].uid = w.uid
             /\ store'[S3Path(j)][f].attempt = w.attempt
    <2> DEFINE g == UploadFiles[runs[WorkflowId(w)].uploaded + 1]
    <2>1. w.phase = "Running" /\ w.job \in Jobs /\ g \in Files
        BY <1>1, UploadWrites
    <2>2. PICK a \in Artifact : /\ a.uid = w.uid /\ a.attempt = w.attempt
                                /\ upload_file(S3Path(w.job), g, a)
        BY <1>1, UploadWrites
    <2> HIDE DEF g
    <2>3. store'[S3Path(j)][f] = IF j = w.job /\ f = g THEN a
                                 ELSE store[S3Path(j)][f]
        BY <2>1, <2>2, UploadReplaces
    <2>4. j = w.job /\ f = g /\ store'[S3Path(j)][f] = a
        BY <2>3
    <2> QED
        BY <2>1, <2>2, <2>4, StoreAssumption DEF g
<1>2. ASSUME NEW s \in strays, StrayUploads(s)
      PROVE  store'[S3Path(j)][f] # NoObject /\ store'[S3Path(j)][f].stray
    <2>1. PICK a \in Artifact, i \in Jobs, g \in Files :
              a.stray /\ upload_file(S3Path(i), g, a)
        BY <1>2, StrayWrites
    <2>2. store'[S3Path(j)][f] = IF j = i /\ f = g THEN a
                                 ELSE store[S3Path(j)][f]
        BY <2>1, UploadReplaces
    <2> QED
        BY <2>1, <2>2, StoreAssumption
<1>3. store' # store
    OBVIOUS
<1>4. ASSUME NEW w \in workflows,
             \/ StartPipeline(w) \/ TrainSaves(w) \/ TrainRetried(w)
             \/ EvaluatePasses(w) \/ EvaluateFails(w)
             \/ PipelineSucceeds(w) \/ PipelineAborts(w)
      PROVE  store' = store
    BY <1>4 DEF StartPipeline, TrainSaves, TrainRetried, EvaluatePasses,
           EvaluateFails, PipelineSucceeds, PipelineAborts, EndWorkflow,
           pipelineVars
<1>5. ASSUME NEW s \in strays, StrayEnds(s) PROVE store' = store
    BY <1>5 DEF StrayEnds
<1>6. ~FollowWorkflows /\ ~UNCHANGED pipelineVars /\ ~UNCHANGED platformVars
    BY <1>3 DEF FollowWorkflows, pipelineVars, platformVars
<1> QED
    BY <1>1, <1>2, <1>3, <1>4, <1>5, <1>6 DEF PlatformNext, PipelineNext

\* An object stays while nobody but its own attempt, or a stray pod, writes.
LEMMA PublishedKept ==
    ASSUME TypeOK, PlatformInv, [PlatformNext]_platformVars,
           NEW j \in Jobs, NEW uid, NEW attempt, NEW f \in Files,
           Published(store, j, uid, attempt, f),
           \A w \in workflows : (w.job = j /\ w.phase = "Running") =>
               w.uid = uid /\ w.attempt = attempt
    PROVE  Published(store', j, uid, attempt, f)
<1>1. CASE store'[S3Path(j)][f] = store[S3Path(j)][f]
    BY <1>1 DEF Published
<1>2. CASE store'[S3Path(j)][f] # store[S3Path(j)][f]
    BY <1>2, StoreWrites DEF Published
<1> QED
    BY <1>1, <1>2

\* What changes while no Workflow of a job runs is a stray pod's.
LEMMA StrayReplaces ==
    ASSUME TypeOK, PlatformInv, [PlatformNext]_platformVars,
           NEW j \in Jobs, NEW f \in Files,
           \A w \in workflows : w.job = j => w.phase # "Running"
    PROVE  \/ store'[S3Path(j)][f] = store[S3Path(j)][f]
           \/ store'[S3Path(j)][f] # NoObject /\ store'[S3Path(j)][f].stray
BY StoreWrites

\* So a published pair stays one.
LEMMA PairKept ==
    ASSUME TypeOK, PlatformInv, [PlatformNext]_platformVars,
           NEW j \in Jobs, NEW uid, HasPair(store, j, uid),
           \A w \in workflows : w.job = j => w.phase # "Running"
    PROVE  HasPair(store', j, uid)
<1> DEFINE old == store[S3Path(j)]
           new == store'[S3Path(j)]
<1>1. \A f \in Files : \/ new[f] = old[f]
                       \/ new[f] # NoObject /\ new[f].stray
    BY StrayReplaces
<1>2. /\ \A f \in Files : old[f] # NoObject /\ (old[f].stray \/ old[f].uid = uid)
      /\ \/ \E f \in Files : old[f].stray
         \/ old["model.pt"].attempt = old["metrics.json"].attempt
    BY DEF HasPair
<1> HIDE DEF old, new
<1>3. \A f \in Files : new[f] # NoObject /\ (new[f].stray \/ new[f].uid = uid)
    BY <1>1, <1>2
<1>4. \/ \E f \in Files : new[f].stray
      \/ new["model.pt"].attempt = new["metrics.json"].attempt
    <2>1. CASE \E f \in Files : new[f] # old[f]
        BY <1>1, <2>1
    <2>2. CASE \A f \in Files : new[f] = old[f]
        <3>1. "model.pt" \in Files /\ "metrics.json" \in Files
            BY DEF Files
        <3> QED
            BY <1>2, <2>2, <3>1
    <2> QED
        BY <2>1, <2>2
<1> QED
    BY <1>3, <1>4 DEF HasPair, new

\* The files of an attempt make a pair.
LEMMA PublishedPair ==
    ASSUME NEW S, NEW j, NEW uid, NEW attempt,
           \A n \in 1 .. Len(UploadFiles) :
               Published(S, j, uid, attempt, UploadFiles[n])
    PROVE  HasPair(S, j, uid)
<1>1. \A f \in Files : Published(S, j, uid, attempt, f)
    <2>1. Len(UploadFiles) = 2 /\ UploadFiles[1] = "model.pt"
          /\ UploadFiles[2] = "metrics.json"
        BY DEF UploadFiles
    <2>2. /\ Published(S, j, uid, attempt, UploadFiles[1])
          /\ Published(S, j, uid, attempt, UploadFiles[2])
        BY <2>1
    <2> QED
        BY <2>1, <2>2 DEF Files
<1>2. "model.pt" \in Files /\ "metrics.json" \in Files
    BY DEF Files
<1> QED
    BY <1>1, <1>2 DEF HasPair, Published

\* The same Workflow before a step, and what the step may have made of it: it
\* succeeds once everything is uploaded, and uploads one file at a time.
Continues(v, w) ==
    LET old == runs[WorkflowId(v)].uploaded
        new == runs'[WorkflowId(w)].uploaded
    IN
    /\ v.job = w.job /\ v.uid = w.uid /\ v.attempt = w.attempt
    /\ w.phase = "Succeeded" =>
          v.phase = "Succeeded" \/ old = Len(UploadFiles)
    /\ new <= old \/ (UploadFile(v) /\ new = old + 1)

\* A step of the pipeline continues every Workflow.
LEMMA PipelineContinues ==
    ASSUME TypeOK, PlatformInv, IsolationInv, PipelineNext,
           NEW w \in workflows'
    PROVE  \E v \in workflows : Continues(v, w)
<1>0. \A u, v \in workflows : WorkflowId(u) = WorkflowId(v) => u = v
    BY DEF IsolationInv, WorkflowId
<1>1. /\ runs \in [{WorkflowId(v) : v \in workflows} -> Run]
      /\ \A v \in workflows : WorkflowId(v) \in DOMAIN runs
    BY DEF PlatformInv, PlatformTypeOK, PipelineTypeOK
<1>2. ASSUME NEW v \in workflows
      PROVE  runs[WorkflowId(v)] \in Run /\ runs[WorkflowId(v)].uploaded \in Nat
    BY <1>1 DEF Run, UploadFiles
<1>3. ASSUME UNCHANGED <<workflows, runs>>
      PROVE  Continues(w, w) /\ w \in workflows
    BY <1>2, <1>3 DEF Continues
<1>4. ASSUME NEW v \in workflows, NEW run, Step(v, run),
             \/ run.uploaded = runs[WorkflowId(v)].uploaded
             \/ /\ UploadFile(v)
                /\ run.uploaded = runs[WorkflowId(v)].uploaded + 1
      PROVE  \E u \in workflows : Continues(u, w)
    <2>1. workflows' = workflows /\ runs' = [runs EXCEPT ![WorkflowId(v)] = run]
        BY <1>4 DEF Step, vars
    <2>2. w \in workflows /\ runs[WorkflowId(w)].uploaded \in Nat
        BY <1>2, <2>1
    <2>3. CASE w = v
        <3>1. runs'[WorkflowId(w)] = run
            BY <1>1, <2>1, <2>3
        <3>2. Continues(v, w)
            BY <1>4, <2>2, <2>3, <3>1 DEF Continues
        <3> QED
            BY <3>2
    <2>4. CASE WorkflowId(w) # WorkflowId(v)
        <3>1. runs'[WorkflowId(w)] = runs[WorkflowId(w)]
            BY <1>1, <2>1, <2>2, <2>4
        <3>2. Continues(w, w)
            BY <2>2, <3>1 DEF Continues
        <3> QED
            BY <2>2, <3>2
    <2> QED
        BY <1>0, <2>2, <2>3, <2>4
<1>5. ASSUME NEW v \in workflows, NEW p, SetWorkflowPhase(v, p),
             p = "Succeeded" =>
                 runs[WorkflowId(v)].uploaded = Len(UploadFiles),
             \A i \in DOMAIN runs :
                 runs'[i].uploaded \in {0, runs[i].uploaded}
      PROVE  \E u \in workflows : Continues(u, w)
    <2> DEFINE e == [v EXCEPT !.phase = p]
    <2>1. e.job = v.job /\ e.attempt = v.attempt /\ e.uid = v.uid /\ e.phase = p
        BY DEF TypeOK, Workflow
    <2>2. w \in workflows \/ w = e
        BY <1>5 DEF SetWorkflowPhase
    <2> HIDE DEF e
    <2>3. ASSUME NEW u \in workflows
          PROVE  runs'[WorkflowId(u)].uploaded <= runs[WorkflowId(u)].uploaded
        <3>1. WorkflowId(u) \in DOMAIN runs
              /\ runs[WorkflowId(u)].uploaded \in Nat
            BY <1>1, <1>2
        <3> QED
            BY <1>5, <3>1
    <2>4. CASE w \in workflows
        <3>1. Continues(w, w)
            BY <2>3, <2>4 DEF Continues
        <3> QED
            BY <2>4, <3>1
    <2>5. CASE w = e
        <3>1. WorkflowId(w) = WorkflowId(v)
            BY <2>1, <2>5 DEF WorkflowId
        <3>2. Continues(v, w)
            BY <1>5, <2>1, <2>3, <2>5, <3>1 DEF Continues
        <3> QED
            BY <3>2
    <2> QED
        BY <2>2, <2>4, <2>5
<1>6. ASSUME NEW v \in workflows, NEW p, EndWorkflow(v, p),
             p = "Succeeded" =>
                 runs[WorkflowId(v)].uploaded = Len(UploadFiles)
      PROVE  \E u \in workflows : Continues(u, w)
    <2>1. /\ SetWorkflowPhase(v, p)
          /\ runs' = [runs EXCEPT
                         ![WorkflowId(v)] = [NewRun EXCEPT !.step = "over"]]
        BY <1>6 DEF EndWorkflow
    <2>2. [NewRun EXCEPT !.step = "over"].uploaded = 0
        BY DEF NewRun
    <2>3. \A i \in DOMAIN runs : runs'[i].uploaded \in {0, runs[i].uploaded}
        BY <1>1, <2>1, <2>2
    <2> QED
        BY <1>5, <1>6, <2>1, <2>3
<1>7. ASSUME NEW v \in workflows, StartPipeline(v)
      PROVE  \E u \in workflows : Continues(u, w)
    <2>1. PICK p \in ArgoPhases \ CompletedPhases : SetWorkflowPhase(v, p)
        BY <1>7 DEF StartPipeline, ArgoStarts
    <2>2. UNCHANGED runs /\ p # "Succeeded"
        BY <1>7 DEF StartPipeline, pipelineVars, CompletedPhases
    <2> QED
        BY <1>5, <2>1, <2>2
<1>8. ASSUME NEW v \in workflows, EvaluateFails(v) \/ PipelineAborts(v)
      PROVE  \E u \in workflows : Continues(u, w)
    <2>1. \E p \in {"Failed", "Error"} : EndWorkflow(v, p)
        BY <1>8 DEF EvaluateFails, PipelineAborts
    <2> QED
        BY <1>6, <2>1
<1>9. ASSUME NEW v \in workflows, PipelineSucceeds(v)
      PROVE  \E u \in workflows : Continues(u, w)
    BY <1>6, <1>9 DEF PipelineSucceeds, Uploaded
<1>10. ASSUME NEW v \in workflows,
             TrainSaves(v) \/ TrainRetried(v) \/ EvaluatePasses(v)
      PROVE  \E u \in workflows : Continues(u, w)
    <2> DEFINE run == runs[WorkflowId(v)]
    <2>1. run \in Run
        BY <1>2
    <2>2. \A q, r : /\ [run EXCEPT !.step = q, !.model = r].uploaded
                          = run.uploaded
                    /\ [run EXCEPT !.retries = q, !.model = r].uploaded
                          = run.uploaded
                    /\ [run EXCEPT !.step = q].uploaded = run.uploaded
        BY <2>1 DEF Run
    <2>3. CASE TrainSaves(v)
        <3>1. \E q : Step(v, [run EXCEPT !.step = "evaluate", !.model = q])
            BY <2>3 DEF TrainSaves
        <3> QED
            BY <1>4, <2>2, <3>1
    <2>4. CASE TrainRetried(v)
        <3>1. \E r : Step(v, [run EXCEPT !.retries = run.retries + 1,
                                        !.model = r])
            BY <2>4 DEF TrainRetried
        <3> QED
            BY <1>4, <2>2, <3>1
    <2>5. CASE EvaluatePasses(v)
        <3>1. Step(v, [run EXCEPT !.step = "upload"])
            BY <2>5 DEF EvaluatePasses
        <3> QED
            BY <1>4, <2>2, <3>1
    <2> QED
        BY <1>10, <2>3, <2>4, <2>5
<1>11. ASSUME NEW v \in workflows, UploadFile(v)
       PROVE  \E u \in workflows : Continues(u, w)
    <2> DEFINE run == runs[WorkflowId(v)]
               new == [run EXCEPT !.uploaded = @ + 1]
    <2>1. run \in Run
        BY <1>2
    <2>2. new.uploaded = run.uploaded + 1
        BY <2>1 DEF Run
    <2>3. Step(v, new)
        BY <1>11 DEF UploadFile
    <2> QED
        BY <1>4, <1>11, <2>2, <2>3
<1>12. ASSUME NEW s \in strays, StrayUploads(s) \/ StrayEnds(s)
       PROVE  Continues(w, w) /\ w \in workflows
    BY <1>3, <1>12 DEF StrayUploads, StrayEnds, vars
<1> QED
    BY <1>7, <1>8, <1>9, <1>10, <1>11, <1>12 DEF PipelineNext

\* A step of the operator continues a Workflow or creates it.
LEMMA OperatorContinues ==
    ASSUME TypeOK, PlatformInv, IsolationInv, OperatorNext, FollowWorkflows,
           NEW w \in workflows'
    PROVE  \/ w.phase = "" /\ runs'[WorkflowId(w)].uploaded = 0
           \/ \E v \in workflows : Continues(v, w)
<1>1. /\ \A v \in workflows : WorkflowId(v) \in DOMAIN runs
      /\ runs \in [{WorkflowId(v) : v \in workflows} -> Run]
    BY DEF PlatformInv, PlatformTypeOK, PipelineTypeOK
<1>2. runs'[WorkflowId(w)] = IF WorkflowId(w) \in DOMAIN runs
                             THEN runs[WorkflowId(w)] ELSE NewRun
    BY DEF FollowWorkflows
<1>3. CASE w \in workflows
    <2>1. runs[WorkflowId(w)].uploaded \in Nat
        BY <1>1, <1>3 DEF Run, UploadFiles
    <2>2. Continues(w, w)
        BY <1>1, <1>2, <1>3, <2>1 DEF Continues
    <2> QED
        BY <1>3, <2>2
<1>4. CASE w \notin workflows
    <2>1. w.phase = ""
        BY <1>4, OperatorWorkflows DEF IsolationInv, UniqueNames, DeletesEnded
    <2>2. CASE \E v \in workflows : WorkflowId(v) = WorkflowId(w)
        <3>1. PICK v \in workflows : WorkflowId(v) = WorkflowId(w)
            BY <2>2
        <3>2. v.job = w.job /\ v.uid = w.uid /\ v.attempt = w.attempt
            BY <3>1 DEF WorkflowId
        <3>3. runs[WorkflowId(v)].uploaded \in Nat
            BY <1>1 DEF Run, UploadFiles
        <3>4. runs'[WorkflowId(w)].uploaded = runs[WorkflowId(v)].uploaded
            BY <1>1, <1>2, <3>1
        <3>5. Continues(v, w)
            <4>1. runs'[WorkflowId(w)].uploaded <= runs[WorkflowId(v)].uploaded
                BY <3>3, <3>4
            <4>2. w.phase # "Succeeded"
                BY <2>1
            <4> QED
                BY <3>2, <4>1, <4>2 DEF Continues
        <3> QED
            BY <3>5
    <2>3. CASE ~\E v \in workflows : WorkflowId(v) = WorkflowId(w)
        <3>1. runs'[WorkflowId(w)] = NewRun
            BY <1>1, <1>2, <2>3
        <3>2. runs'[WorkflowId(w)].uploaded = 0
            BY <3>1 DEF NewRun
        <3> QED
            BY <2>1, <3>2
    <2> QED
        BY <2>2, <2>3
<1> QED
    BY <1>3, <1>4

\* Every Workflow is new or goes on.
LEMMA WorkflowContinues ==
    ASSUME TypeOK, PlatformInv, IsolationInv, [PlatformNext]_platformVars,
           NEW w \in workflows'
    PROVE  \/ w.phase = "" /\ runs'[WorkflowId(w)].uploaded = 0
           \/ \E v \in workflows : Continues(v, w)
<1>1. ASSUME UNCHANGED <<vars, pipelineVars>>
      PROVE  w \in workflows /\ Continues(w, w)
    <2>1. UNCHANGED <<workflows, runs>>
        BY <1>1 DEF vars, pipelineVars
    <2>2. runs[WorkflowId(w)].uploaded \in Nat
        BY <2>1 DEF PlatformInv, PlatformTypeOK, PipelineTypeOK, Run, UploadFiles
    <2> QED
        BY <2>1, <2>2 DEF Continues
<1> QED
    BY <1>1, PipelineContinues, OperatorContinues DEF PlatformNext, platformVars

\* What upload.py has written for a Workflow stays there as long as it.
LEMMA UploadsKept ==
    ASSUME TypeOK, SyncedInv, PlatformInv, PlatformInv', IsolationInv,
           PublishInv, [PlatformNext]_platformVars
    PROVE  UploadsPublished'
<1>0. Len(UploadFiles) = 2
    BY DEF UploadFiles
<1> SUFFICES ASSUME NEW w \in workflows', NEW n \in 1 .. 2,
                    \/ w.phase = "Succeeded"
                    \/ n <= runs'[WorkflowId(w)].uploaded
             PROVE  Published(store', w.job, w.uid, w.attempt, UploadFiles[n])
    BY <1>0 DEF UploadsPublished
<1>1. Len(UploadFiles) = 2 /\ UploadFiles[n] \in Files
    BY DEF UploadFiles, Files
<1>2. PICK v \in workflows : Continues(v, w)
    <2> DEFINE up == runs'[WorkflowId(w)].uploaded
    <2> HIDE DEF up
    <2>1. n <= up => up # 0
        OBVIOUS
    <2>2. w.phase = "Succeeded" => w.phase # ""
        OBVIOUS
    <2>3. w.phase = "Succeeded" \/ n <= up
        BY DEF up
    <2>4. ~(w.phase = "" /\ runs'[WorkflowId(w)].uploaded = 0)
        BY <2>1, <2>2, <2>3 DEF up
    <2> QED
        BY <2>4, WorkflowContinues
<1> DEFINE old == runs[WorkflowId(v)].uploaded
           new == runs'[WorkflowId(w)].uploaded
           f == UploadFiles[n]
<1>3. /\ v.job = w.job /\ v.uid = w.uid /\ v.attempt = w.attempt
      /\ w.phase = "Succeeded" => v.phase = "Succeeded" \/ old = 2
      /\ new <= old \/ (UploadFile(v) /\ new = old + 1)
    BY <1>1, <1>2 DEF Continues
<1>4. v.job \in Jobs /\ old \in Nat
    BY IdType DEF PlatformInv, PlatformTypeOK, PipelineTypeOK, Run, UploadFiles
<1>5. \A u \in workflows : (u.job = v.job /\ u.phase = "Running") =>
          u.uid = v.uid /\ u.attempt = v.attempt
    BY DEF SyncedInv, OneWorkflow
<1>6. CASE v.phase = "Succeeded" \/ n <= old
    <2>1. Published(store, v.job, v.uid, v.attempt, f)
        BY <1>0, <1>6 DEF PublishInv, UploadsPublished
    <2>2. Published(store', v.job, v.uid, v.attempt, f)
        BY <1>1, <1>4, <1>5, <2>1, PublishedKept
    <2> QED
        BY <1>3, <2>2
<1>7. CASE UploadFile(v) /\ n = old + 1
    <2>1. PICK a \in Artifact : /\ a.uid = v.uid /\ a.attempt = v.attempt
                                /\ upload_file(S3Path(v.job), f, a)
        BY <1>7, UploadWrites
    <2>2. store'[S3Path(v.job)][f] = a
        BY <1>1, <1>4, <2>1, UploadReplaces
    <2> QED
        BY <1>3, <2>1, <2>2, StoreAssumption DEF Published
<1>8. n \in Nat /\ n <= 2
    BY <1>1
<1>9. new \in Nat
    BY DEF PlatformInv, PlatformTypeOK, PipelineTypeOK, Run, UploadFiles
<1>10. CASE w.phase = "Succeeded"
    BY <1>3, <1>6, <1>8, <1>10
<1>11. CASE n <= new
    BY <1>3, <1>4, <1>6, <1>7, <1>8, <1>9, <1>11
<1> QED
    BY <1>10, <1>11

\* A published pair is safe once the Workflows of its job have ended and the
\* worker is not about to submit another.
LEMMA SafeKept ==
    ASSUME Synced, TypeOK, PlatformInv, [PlatformNext]_platformVars,
           NEW j \in Jobs, NEW uid, HasPair(store, j, uid),
           \A w \in workflows : w.job = j => w.phase \in CompletedPhases,
           req = j => pc \notin {"createWorkflow", "deleteFailed"}
    PROVE  /\ HasPair(store', j, uid)
           /\ \A w \in workflows' : w.job = j => w.phase \in CompletedPhases
<1>1. [Next]_vars
    BY PlatformSteps
<1>2. HasPair(store', j, uid)
    BY PairKept DEF CompletedPhases
<1>3. CASE DeleteOwnedWorkflows
    BY <1>2, <1>3 DEF DeleteOwnedWorkflows
<1>4. CASE ~DeleteOwnedWorkflows
    <2>1. req = j => ~CreateWorkflow /\ ~DeleteFailed
        BY DEF CreateWorkflow, DeleteFailed
    <2>2. \A w \in workflows' : w.job = j =>
              \E v \in workflows :
                  v.job = j /\ (v.phase \in CompletedPhases => w = v)
        BY <1>1, <1>4, <2>1, OthersKept
    <2> QED
        BY <1>2, <2>2
<1> QED
    BY <1>3, <1>4

\* The worker does not take on a job that has succeeded, and users do not
\* make one succeed.
LEMMA BusyKept ==
    ASSUME Synced, Known, BusyUnfinished, [Next]_vars
    PROVE  BusyUnfinished'
<1> DEFINE busy == {"getWorkflow", "createWorkflow", "deleteFailed",
                    "statusUpdate"}
<1> SUFFICES ASSUME pc' \in busy
             PROVE  jobs'[req'].status.phase # "Succeeded"
    BY DEF BusyUnfinished
<1>1. TypeOK /\ StableInv
    BY DEF Known
<1>2. ASSUME NEW j \in Jobs, BeginReconcile(j)
      PROVE  jobs'[req'].status.phase # "Succeeded"
    <2>1. pc = "idle" /\ cache[j] = jobs[j] /\ UNCHANGED jobs
        BY <1>1, <1>2, BeginReads
    <2>2. req' = j /\ ~IsTerminal(cache[j].status)
        BY <1>2, <2>1
        DEF BeginReconcile, ReconcileGone, ReconcileDeletion,
            ReconcileFinalizer, ReconcileTTL, ReconcileDenied,
            ReconcileAttempt, Load, workerVars, NeedsQuota, IsTerminal
    <2> QED
        BY <2>1, <2>2 DEF IsTerminal
<1>3. CASE WorkerStep
    <2>1. pc \in busy /\ UNCHANGED <<req, jobs>>
        <3>1. CASE GetWorkflow \/ CreateWorkflow \/ DeleteFailed
            BY <3>1 DEF GetWorkflow, CreateWorkflow, DeleteFailed, apiVars,
                        WorkflowNotFound, WorkflowActive, WorkflowSucceeded,
                        WorkflowFailed, Goto, Return, Stop
        <3>2. CASE \/ DeleteOwnedWorkflows \/ RemoveFinalizer \/ AddFinalizer
                   \/ DeleteExpired \/ StatusUpdate \/ UpdateQuotaStatus
            BY <3>2 DEF DeleteOwnedWorkflows, RemoveFinalizer, AddFinalizer,
                        DeleteExpired, StatusUpdate, UpdateQuotaStatus, Goto,
                        Return, Stop
        <3> QED
            BY <1>3, <3>1, <3>2 DEF WorkerStep
    <2> QED
        BY <2>1 DEF BusyUnfinished
<1>4. CASE /\ UNCHANGED <<pc, req, job, outcome>> /\ ~WorkerStep
           /\ \A j \in Jobs : ~BeginReconcile(j)
    <2>1. pc \in busy /\ req \in Jobs /\ jobs[req].status.phase # "Succeeded"
        BY <1>1, <1>4 DEF BusyUnfinished, TypeOK
    <2>2. \/ jobs'[req] = jobs[req] \/ DeleteJob(req) \/ CreateJob(req)
        BY <1>1, <1>4, <2>1, LeftAlone, NoFaults
    <2>3. jobs[req] \in TrainingJob
        BY <1>1, <2>1 DEF TypeOK
    <2>4. CASE DeleteJob(req)
        <3>1. jobs'[req] = AfterDelete(jobs[req])
            BY <1>1, <2>1, <2>4 DEF DeleteJob, UserWritesJob, StoreJob, TypeOK
        <3>2. jobs'[req].status \in {jobs[req].status, EmptyStatus}
            BY <2>3, <3>1, EmptyFields DEF AfterDelete, TrainingJob
        <3> QED
            BY <1>4, <2>1, <3>2, EmptyFields
    <2>5. CASE CreateJob(req)
        <3>1. jobs'[req].status = EmptyStatus
            BY <1>1, <2>1, <2>5, EmptyFields
            DEF CreateJob, UserWritesJob, StoreJob, TypeOK
        <3> QED
            BY <1>4, <3>1, EmptyFields
    <2> QED
        BY <1>4, <2>1, <2>2, <2>4, <2>5
<1> QED
    BY <1>1, <1>2, <1>3, <1>4, WorkerSteps

\* A success that is about to be reported was read off a Workflow that has
\* uploaded everything, and stays published until it is.
LEMMA ReportKept ==
    ASSUME Synced, Known, SyncedInv, PlatformInv, PublishInv,
           [PlatformNext]_platformVars
    PROVE  ReportPublished'
<1> SUFFICES ASSUME pc' = "statusUpdate", current',
                    job'.status.phase = "Succeeded"
             PROVE  HasPair(store', req', jobs'[req'].uid)
    BY DEF ReportPublished
<1>1. TypeOK /\ [Next]_vars
    BY PlatformSteps DEF Known
<1>2. CASE WorkerStep \/ \E j \in Jobs : BeginReconcile(j)
    <2>1. PICK w \in workflows : /\ w.job = req /\ w.phase = "Succeeded"
                                 /\ WorkflowSucceeded(w)
        BY <1>1, <1>2, SuccessReported
    <2>2. GetWorkflow
        BY <1>1, <1>2, SuccessReported
    <2>3. UNCHANGED <<req, jobs>>
        BY <2>1, <2>2 DEF GetWorkflow, WorkflowSucceeded, Goto, apiVars
    <2>4. req \in Jobs /\ w.uid = jobs[req].uid
        BY <1>1, <2>1, IdType DEF Known, WorkflowsGuarded, NoOrphanWorkflow
    <2>5. \A n \in 1 .. Len(UploadFiles) :
              Published(store, w.job, w.uid, w.attempt, UploadFiles[n])
        BY <2>1 DEF PublishInv, UploadsPublished
    <2>6. HasPair(store, w.job, w.uid)
        BY <2>5, PublishedPair
    <2>7. \A v \in workflows : v.job = req => v.phase # "Running"
        BY <2>1 DEF SyncedInv, OneWorkflow
    <2>8. HasPair(store', w.job, w.uid)
        BY <1>1, <2>1, <2>4, <2>6, <2>7, PairKept
    <2> QED
        BY <2>1, <2>3, <2>4, <2>8
<1>3. CASE /\ UNCHANGED <<pc, req, job, outcome>> /\ (current' => current)
           /\ ~(WorkerStep \/ \E j \in Jobs : BeginReconcile(j))
    <2>1. /\ pc = "statusUpdate" /\ current /\ job.status.phase = "Succeeded"
          /\ req \in Jobs
        BY <1>1, <1>3 DEF TypeOK
    <2>2. jobs'[req] = jobs[req]
        BY <1>1, <1>3, <2>1, LeftAlone, NoFaults
    <2>3. HasPair(store, req, jobs[req].uid)
        BY <2>1 DEF PublishInv, ReportPublished
    <2>4. \A w \in workflows : w.job = req => w.phase \in CompletedPhases
        BY <2>1 DEF SyncedInv, WorkerTrue, Matches, IsTerminal
    <2>5. HasPair(store', req, jobs[req].uid)
        BY <1>1, <2>1, <2>3, <2>4, PairKept DEF CompletedPhases
    <2> QED
        BY <1>3, <2>2, <2>5
<1> QED
    BY <1>1, <1>2, <1>3, WorkerSteps

\* A job that has succeeded has published its pair, and nothing of it runs.
LEMMA SucceededKept ==
    ASSUME Synced, Known, SyncedInv, PlatformInv, PublishInv,
           [PlatformNext]_platformVars
    PROVE  SucceededSafe'
<1> SUFFICES ASSUME NEW j \in Jobs, jobs'[j].status.phase = "Succeeded"
             PROVE  /\ HasPair(store', j, jobs'[j].uid)
                    /\ \A w \in workflows' :
                          w.job = j => w.phase \in CompletedPhases
    BY DEF SucceededSafe
<1>1. TypeOK /\ FreshInv /\ [Next]_vars
    BY PlatformSteps DEF Known
<1>2. ASSUME jobs[j].status.phase = "Succeeded", jobs'[j].uid = jobs[j].uid
      PROVE  /\ HasPair(store', j, jobs'[j].uid)
             /\ \A w \in workflows' :
                   w.job = j => w.phase \in CompletedPhases
    <2>1. /\ HasPair(store, j, jobs[j].uid)
          /\ \A w \in workflows : w.job = j => w.phase \in CompletedPhases
        BY <1>2 DEF PublishInv, SucceededSafe
    <2>2. req = j => pc \notin {"createWorkflow", "deleteFailed"}
        BY <1>2 DEF PublishInv, BusyUnfinished
    <2>3. /\ HasPair(store', j, jobs[j].uid)
          /\ \A w \in workflows' : w.job = j => w.phase \in CompletedPhases
        BY <1>1, <2>1, <2>2, SafeKept
    <2> QED
        BY <1>2, <2>3
<1>3. CASE jobs'[j] = jobs[j]
    BY <1>2, <1>3
<1>4. ASSUME NEW o \in TrainingJob, Writes(j, o), jobs'[j] = o
      PROVE  /\ HasPair(store', j, jobs'[j].uid)
             /\ \A w \in workflows' :
                   w.job = j => w.phase \in CompletedPhases
    <2>1. o.status.phase = "Succeeded" /\ EmptyStatus.phase # "Succeeded"
        BY <1>4, EmptyFields
    <2>2. ~Creates(j, o) /\ ~Releases(j, o)
        BY <1>1, <2>1, WriteFields, EmptyFields
    <2>3. CASE Deletes(j, o) \/ Protects(j, o)
        <3>1. o.uid = jobs[j].uid
            BY <1>1, <2>3, WriteFields
        <3>2. o.status = jobs[j].status
            BY <1>1, <2>1, <2>3, WriteFields, EmptyFields
        <3> QED
            BY <1>2, <1>4, <2>1, <3>1, <3>2
    <2>4. CASE Reports(j, o)
        <3>1. o.status = job.status /\ o.uid = jobs[j].uid
            BY <1>1, <2>4, WriteFields
        <3>2. StatusUpdate /\ pc = "statusUpdate" /\ current /\ req = j
            BY <2>4 DEF Reports, StatusUpdate
        <3>3. job.status.phase = "Succeeded"
            BY <2>1, <3>1
        <3>4. HasPair(store, j, jobs[j].uid)
            BY <3>2, <3>3 DEF PublishInv, ReportPublished
        <3>5. \A w \in workflows : w.job = j => w.phase \in CompletedPhases
            BY <3>2, <3>3 DEF SyncedInv, WorkerTrue, Matches, IsTerminal
        <3>6. /\ HasPair(store', j, jobs[j].uid)
              /\ \A w \in workflows' : w.job = j => w.phase \in CompletedPhases
            BY <1>1, <3>2, <3>4, <3>5, SafeKept
        <3> QED
            BY <1>4, <3>1, <3>6
    <2> QED
        BY <1>4, <2>2, <2>3, <2>4 DEF Writes
<1> QED
    BY <1>1, <1>3, <1>4, StoredSteps

\* Everything that is known of the platform with up-to-date caches.
PlatformKnown == Known /\ SyncedInv /\ PlatformInv /\ IsolationInv

LEMMA PlatformKnownInvariant ==
    ASSUME Synced PROVE PlatformSpec => []PlatformKnown
BY PlatformImplementsController, TypeCorrect, BudgetInvariant, StableInvariant,
   FreshInvariant, GuardInvariant, SyncedInvariant, PlatformInvariant,
   IsolationInvariant, PTL
DEF ImplementsController, PlatformKnown, Known

\* With up-to-date caches and without faults a Workflow that succeeds has
\* uploaded both files, a reported success was read off such a Workflow, and
\* nothing of a succeeded job can upload again.
THEOREM PublishInvariant == ASSUME Synced PROVE PlatformSpec => []PublishInv
<1>1. PlatformInit => PublishInv
    <2> SUFFICES ASSUME PlatformInit PROVE PublishInv
        OBVIOUS
    <2>1. \A j \in Jobs : jobs[j].status.phase # "Succeeded"
        BY EmptyFields DEF PlatformInit, Init
    <2> QED
        BY <2>1 DEF PlatformInit, Init, PublishInv, UploadsPublished,
                    ReportPublished, BusyUnfinished, SucceededSafe
<1>2. PlatformKnown /\ PlatformKnown' /\ PublishInv
          /\ [PlatformNext]_platformVars => PublishInv'
    <2> SUFFICES ASSUME PlatformKnown, PlatformKnown', PublishInv,
                        [PlatformNext]_platformVars
                 PROVE  PublishInv'
        OBVIOUS
    <2>1. /\ Known /\ SyncedInv /\ PlatformInv /\ IsolationInv /\ PlatformInv'
          /\ TypeOK /\ BusyUnfinished /\ [Next]_vars
        BY PlatformSteps DEF PlatformKnown, Known, PublishInv
    <2>2. UploadsPublished'
        BY <2>1, UploadsKept
    <2>3. ReportPublished'
        BY <2>1, ReportKept
    <2>4. BusyUnfinished'
        BY <2>1, BusyKept
    <2>5. SucceededSafe'
        BY <2>1, SucceededKept
    <2> QED
        BY <2>2, <2>3, <2>4, <2>5 DEF PublishInv
<1> QED
    BY <1>1, <1>2, PlatformKnownInvariant, PTL DEF PlatformSpec

\* SucceededPublishesPair: status.modelURI of a Succeeded job leads to a
\* model.pt and a metrics.json of one attempt of this very incarnation, but
\* for what a pod wrote that had outlived its Workflow.
THEOREM SucceededPublishesPairHolds ==
    ASSUME Synced PROVE PlatformSpec => []SucceededPublishesPair
<1>1. PublishInv => SucceededPublishesPair
    BY DEF PublishInv, SucceededSafe, SucceededPublishesPair
<1> QED
    BY <1>1, PublishInvariant, PTL

\* PublishedModelKept: no attempt of a Succeeded job, and nothing that the
\* operator does about it, replaces what it has published.
THEOREM PublishedModelKeptHolds ==
    ASSUME Synced PROVE PlatformSpec => PublishedModelKept
<1>1. PlatformKnown /\ PublishInv /\ [PlatformNext]_platformVars =>
          [\A j \in Jobs : \A f \in Files :
              (/\ jobs[j].status.phase = "Succeeded"
               /\ store'[S3Path(j)][f] # store[S3Path(j)][f])
                  => store'[S3Path(j)][f].stray]_platformVars
    <2> SUFFICES ASSUME PlatformKnown, PublishInv,
                        [PlatformNext]_platformVars,
                        NEW j \in Jobs, NEW f \in Files,
                        jobs[j].status.phase = "Succeeded",
                        store'[S3Path(j)][f] # store[S3Path(j)][f]
                 PROVE  store'[S3Path(j)][f].stray
        OBVIOUS
    <2>1. TypeOK /\ PlatformInv
        BY DEF PlatformKnown, Known
    <2>2. \A w \in workflows : w.job = j => w.phase # "Running"
        BY DEF PublishInv, SucceededSafe, CompletedPhases
    <2> QED
        BY <2>1, <2>2, StrayReplaces
<1> QED
    BY <1>1, PublishInvariant, PlatformKnownInvariant, PTL
    DEF PlatformSpec, PublishedModelKept
=============================================================================
