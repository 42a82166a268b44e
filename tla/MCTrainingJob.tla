--------------------------- MODULE MCTrainingJob ---------------------------
(* Instances of TrainingJobProperties for TLC. *)
EXTENDS TrainingJobProperties, TLC

CONSTANTS j1, j2

OneJob == {j1}
TwoJobs == {j1, j2}

\* j1 and j2 do not fit together under a quota of 2.
MCGPUs == (j1 :> 1) @@ (j2 :> 2)
OneGPU == j1 :> 1

\* Each fits under a quota of 3; the sum is past the largest int32 of 3.
HalfRange == [j \in Jobs |-> 2]

NoRetry == [j \in Jobs |-> 0]
RetryOnce == j1 :> 1
RetryFirstOnly == (j1 :> 1) @@ (j2 :> 0)

AllTTL == [j \in Jobs |-> TRUE]
NoTTL == [j \in Jobs |-> FALSE]

Outcomes2 == {"Succeeded", "Failed"}
=============================================================================
