----------------------------- MODULE ModelStore -----------------------------
(***************************************************************************)
(* The S3 (MinIO) objects that the training pipeline publishes and serving *)
(* reads: model.pt and metrics.json under one prefix per TrainingJob name. *)
(* Checkpoints are told apart by how they were made and how they score.    *)
(***************************************************************************)
EXTENDS TrainingJobTypes

CONSTANTS
    Bucket,    \* Bucket[j]: spec.output.bucket, immutable
    NoObject   \* what a key that was never written holds

VARIABLE
    store      \* store[p][f]: object f under prefix p

\* A checkpoint file: cut off while it was saved, or complete with an
\* accuracy below or not below the threshold of the template.
Checkpoints == {"partial", "poor", "good"}

\* Where an object comes from: the Workflow's job incarnation and attempt,
\* and whether its pod had outlived the Workflow when it wrote the object.
Artifact ==
    [uid : Nat, attempt : Nat, stray : BOOLEAN, checkpoint : Checkpoints]

\* A key that was never written is told apart from every object.
ASSUME StoreAssumption == NoObject \notin Artifact

Files == {"model.pt", "metrics.json"}

\* The prefix names bucket and job (of one namespace), not the attempt and
\* not the incarnation.
S3Path(j) == <<Bucket[j], j>>

Prefixes == {S3Path(j) : j \in Jobs}

StoreTypeOK == store \in [Prefixes -> [Files -> Artifact \cup {NoObject}]]

StoreInit == store = [p \in Prefixes |-> [f \in Files |-> NoObject]]

\* s3.upload_file: one object is replaced as a whole.
upload_file(p, f, artifact) == store' = [store EXCEPT ![p][f] = artifact]
=============================================================================
