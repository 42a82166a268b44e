------------------------------ MODULE GpuFleet ------------------------------
(***************************************************************************)
(* class Fleet of components/fake-dcgm-exporter: simulated GPUs, given to  *)
(* pods first fit.  Both methods hold the lock throughout, so each is one  *)
(* step.  FakeDcgmWatcher is the thread that calls them, FakeDcgmMetrics   *)
(* the one that reads the result.                                          *)
(***************************************************************************)
EXTENDS Integers

CONSTANTS
    Pods,        \* pods labelled gpu.fyp/simulated, by uid
    NoPod,       \* what a free GPU holds
    GPU_COUNT    \* size of the fleet

ASSUME FleetAssumption == NoPod \notin Pods /\ GPU_COUNT \in Nat \ {0}

VARIABLES
    assignments,  \* assignments[i]: the pod that GPU i is given to
    pod_to_gpu    \* pod_to_gpu[p]: the GPU of p

fleetVars == <<assignments, pod_to_gpu>>

Devices == 0 .. GPU_COUNT - 1

NoGPU == -1

FleetTypeOK ==
    /\ assignments \in [Devices -> Pods \cup {NoPod}]
    /\ pod_to_gpu \in [Pods -> Devices \cup {NoGPU}]

NoAssignments == [i \in Devices |-> NoPod]

FleetInit ==
    /\ assignments = NoAssignments
    /\ pod_to_gpu = [p \in Pods |-> NoGPU]

Free == {i \in Devices : assignments[i] = NoPod}

\* Mutation: GPUs are numbered from 1.
FirstFreeFromOne == 1 + CHOOSE i \in Free : \A k \in Free : i <= k

FirstFree == CHOOSE i \in Free : \A k \in Free : i <= k

\* Mutation: the pod's earlier GPU is not looked up.
assignAgain(p) ==
    IF Free = {} THEN UNCHANGED fleetVars
    ELSE /\ assignments' = [assignments EXCEPT ![FirstFree] = p]
         /\ pod_to_gpu' = [pod_to_gpu EXCEPT ![p] = FirstFree]

\* Nothing happens if the pod has a GPU, or none is free.
assign(p) ==
    IF pod_to_gpu[p] # NoGPU \/ Free = {} THEN UNCHANGED fleetVars
    ELSE /\ assignments' = [assignments EXCEPT ![FirstFree] = p]
         /\ pod_to_gpu' = [pod_to_gpu EXCEPT ![p] = FirstFree]

release(p) ==
    IF pod_to_gpu[p] = NoGPU THEN UNCHANGED fleetVars
    ELSE /\ assignments' = [assignments EXCEPT ![pod_to_gpu[p]] = NoPod]
         /\ pod_to_gpu' = [pod_to_gpu EXCEPT ![p] = NoGPU]

\* The fleet of a process that was restarted: nothing is persisted.
FleetReset ==
    /\ assignments' = NoAssignments
    /\ pod_to_gpu' = [p \in Pods |-> NoGPU]

\* The two maps agree: no GPU is given to two pods, and no pod has two GPUs,
\* however often a pod is listed or announced.
FleetConsistent ==
    /\ \A i \in Devices :
          assignments[i] # NoPod => pod_to_gpu[assignments[i]] = i
    /\ \A p \in Pods :
          pod_to_gpu[p] # NoGPU => assignments[pod_to_gpu[p]] = p
=============================================================================
