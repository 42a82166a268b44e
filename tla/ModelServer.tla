---------------------------- MODULE ModelServer -----------------------------
(***************************************************************************)
(* One KServe predictor per TrainingJob name, on the prefix of that name.  *)
(* A pod downloads the prefix, loads model.pt once and then serves it; the *)
(* predictor scales to zero when it is idle and up again on demand.        *)
(***************************************************************************)
EXTENDS ModelStore

VARIABLE
    server   \* server[j]: "down", or the checkpoint that is served

ServerTypeOK == server \in [Jobs -> {"down"} \cup Checkpoints]

ServerInit == server = [j \in Jobs |-> "down"]

\* A pod starts: the storage-initializer finds model.pt and load() reads it.
\* Without the object, or on a file that does not load, the pod fails and is
\* started over: nothing changes.
load(j) ==
    LET model == store[S3Path(j)]["model.pt"] IN
    /\ server[j] = "down"
    /\ model # NoObject
    /\ model.checkpoint # "partial"
    /\ server' = [server EXCEPT ![j] = model.checkpoint]

\* Scaled to zero, or its pod is lost.
ScaleDown(j) ==
    /\ server[j] # "down"
    /\ server' = [server EXCEPT ![j] = "down"]

ServerNext == \E j \in Jobs : load(j) \/ ScaleDown(j)
=============================================================================
