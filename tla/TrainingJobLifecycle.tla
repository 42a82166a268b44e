------------------------ MODULE TrainingJobLifecycle ------------------------
(***************************************************************************)
(* What a TrainingJob's owner may see of it: the life of each object's     *)
(* phase and attempts counter, with no queue, cache, worker or Workflow.   *)
(* docs/architecture.md draws it as the job state machine.                 *)
(*                                                                         *)
(* With Adoption = FALSE a status is written in step with the Workflow it  *)
(* reports.  With Adoption = TRUE the operator may also find a Workflow    *)
(* whose creation was never recorded, and take the job on from there.      *)
(***************************************************************************)
EXTENDS Integers

CONSTANTS Jobs, BackoffLimit, Adoption

VARIABLE view  \* view[j]: existence, phase and attempts of TrainingJob j

Absent == [exists |-> FALSE, phase |-> "", attempts |-> 0]

Waiting == {"", "Pending", "Queued"}

LifecycleInit == view = [j \in Jobs |-> Absent]

To(j, phase, attempts) ==
    view' = [view EXCEPT ![j] =
                [exists |-> TRUE, phase |-> phase, attempts |-> attempts]]

In(j, phases) == view[j].exists /\ view[j].phase \in phases

Submit(j) == ~view[j].exists /\ To(j, "", 0)

Remove(j) == view[j].exists /\ view' = [view EXCEPT ![j] = Absent]

Queue(j) == In(j, {"", "Pending"}) /\ To(j, "Queued", view[j].attempts)

\* A new attempt, one of the backoffLimit + 1.
Start(j) ==
    /\ In(j, Waiting)
    /\ view[j].attempts <= BackoffLimit[j]
    /\ To(j, "Running", view[j].attempts + 1)

\* The attempt failed and another one is left.
Resubmit(j) ==
    /\ In(j, {"Running"})
    /\ view[j].attempts <= BackoffLimit[j]
    /\ To(j, "Pending", view[j].attempts)

Complete(j) == In(j, {"Running"}) /\ To(j, "Succeeded", view[j].attempts)

\* Only the last attempt fails the job.
GiveUp(j) ==
    /\ In(j, {"Running"})
    /\ view[j].attempts = BackoffLimit[j] + 1
    /\ To(j, "Failed", view[j].attempts)

\* A Workflow nobody counted is found: running, succeeded, or failed.
Adopt(j) ==
    /\ In(j, Waiting)
    /\ view[j].attempts <= BackoffLimit[j]
    /\ \E phase \in {"Running", "Succeeded", "Pending"} :
          To(j, phase, view[j].attempts)

\* A Running job whose first attempt was never counted starts it again.
Restart(j) ==
    /\ In(j, {"Running"})
    /\ view[j].attempts = 0
    /\ To(j, "Running", 1)

LifecycleStep(j) ==
    \/ Submit(j) \/ Remove(j) \/ Queue(j) \/ Start(j)
    \/ Resubmit(j) \/ Complete(j) \/ GiveUp(j)
    \/ Adoption /\ (Adopt(j) \/ Restart(j))

LifecycleNext == \E j \in Jobs : LifecycleStep(j)

Lifecycle == LifecycleInit /\ [][LifecycleNext]_view
=============================================================================
