----------------------------- MODULE MCPlatform -----------------------------
(* Instances of TrainingPlatform for TLC. *)
EXTENDS TrainingPlatform, TLC

CONSTANTS j1, models

OneJob == {j1}
OneGPU == j1 :> 1
RetryOnce == j1 :> 1
NoTTL == j1 :> FALSE
OneBucket == j1 :> models

AllArgoPhases == {"Running", "Succeeded", "Failed", "Error"}
=============================================================================
