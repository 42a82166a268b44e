--------------------------- MODULE GpuFleetProofs ---------------------------
(***************************************************************************)
(* What both threads of the exporter rely on: the methods of Fleet, for a  *)
(* fleet of any size and any set of pods.                                  *)
(***************************************************************************)
EXTENDS GpuFleet, WellFoundedInduction, TLAPS

\* First fit finds a free GPU whenever there is one.
LEMMA FirstFreeIsFree == Free # {} => FirstFree \in Free
<1> SUFFICES ASSUME Free # {} PROVE FirstFree \in Free
    OBVIOUS
<1> DEFINE R == OpToRel(<, Nat)
<1>1. Free \subseteq Nat
    BY FleetAssumption DEF Free, Devices
<1>2. \E i \in Free : \A k \in Free : ~(<<k, i>> \in R)
    BY <1>1, NatLessThanWellFounded, WFMin
<1>3. PICK i \in Free : \A k \in Free : ~(<<k, i>> \in R)
    BY <1>2
<1>4. ASSUME NEW k \in Free PROVE i <= k
    <2>1. ~(k < i)
        BY <1>1, <1>3, <1>4 DEF OpToRel
    <2>2. i \in Nat /\ k \in Nat
        BY <1>1, <1>3, <1>4
    <2> QED
        BY <2>1, <2>2
<1> QED
    BY <1>3, <1>4 DEF FirstFree

\* No device is the one that stands for none.
LEMMA DeviceType == Devices \subseteq Nat /\ NoGPU \notin Devices
BY FleetAssumption DEF Devices, NoGPU

\* assign and release keep the two maps typed and in agreement.
LEMMA FleetStepConsistent ==
    ASSUME FleetTypeOK, FleetConsistent, NEW p \in Pods,
           assign(p) \/ release(p)
    PROVE  FleetTypeOK' /\ FleetConsistent'
<1>1. NoPod \notin Pods /\ NoGPU \notin Devices
    BY FleetAssumption, DeviceType
<1>2. CASE UNCHANGED fleetVars
    BY <1>2 DEF fleetVars, FleetTypeOK, FleetConsistent
<1>3. CASE assign(p) /\ ~UNCHANGED fleetVars
    <2>1. pod_to_gpu[p] = NoGPU /\ Free # {}
        BY <1>3 DEF assign
    <2> DEFINE i == FirstFree
    <2>2. i \in Devices /\ assignments[i] = NoPod
        BY <2>1, FirstFreeIsFree DEF Free
    <2>3. /\ assignments' = [assignments EXCEPT ![i] = p]
          /\ pod_to_gpu' = [pod_to_gpu EXCEPT ![p] = i]
        BY <1>3 DEF assign
    <2> HIDE DEF i
    <2>4. FleetTypeOK'
        BY <2>2, <2>3 DEF FleetTypeOK
    <2>5. ASSUME NEW k \in Devices, assignments'[k] # NoPod
          PROVE  pod_to_gpu'[assignments'[k]] = k
        BY <1>1, <2>1, <2>2, <2>3, <2>5 DEF FleetTypeOK, FleetConsistent
    <2>6. ASSUME NEW q \in Pods, pod_to_gpu'[q] # NoGPU
          PROVE  assignments'[pod_to_gpu'[q]] = q
        BY <1>1, <2>1, <2>2, <2>3, <2>6 DEF FleetTypeOK, FleetConsistent
    <2> QED
        BY <2>4, <2>5, <2>6 DEF FleetConsistent
<1>4. CASE release(p) /\ ~UNCHANGED fleetVars
    <2> DEFINE i == pod_to_gpu[p]
    <2>1. i \in Devices /\ assignments[i] = p
        BY <1>4 DEF release, FleetTypeOK, FleetConsistent
    <2>2. /\ assignments' = [assignments EXCEPT ![i] = NoPod]
          /\ pod_to_gpu' = [pod_to_gpu EXCEPT ![p] = NoGPU]
        BY <1>4 DEF release
    <2>3. \A q \in Pods : pod_to_gpu[q] = i => q = p
        BY <1>1, <2>1 DEF FleetConsistent
    <2>4. FleetTypeOK'
        BY <2>1, <2>2 DEF FleetTypeOK
    <2>5. ASSUME NEW k \in Devices, assignments'[k] # NoPod
          PROVE  pod_to_gpu'[assignments'[k]] = k
        BY <1>1, <2>1, <2>2, <2>5 DEF FleetTypeOK, FleetConsistent
    <2>6. ASSUME NEW q \in Pods, pod_to_gpu'[q] # NoGPU
          PROVE  assignments'[pod_to_gpu'[q]] = q
        BY <1>1, <2>1, <2>2, <2>3, <2>6 DEF FleetTypeOK, FleetConsistent
    <2> QED
        BY <2>4, <2>5, <2>6 DEF FleetConsistent
<1> QED
    BY <1>2, <1>3, <1>4

\* assign gives no GPU to any other pod; it takes none from anybody.
LEMMA AssignHolders ==
    ASSUME FleetTypeOK, NEW p \in Pods, assign(p), NEW q \in Pods
    PROVE  /\ pod_to_gpu'[q] # NoGPU => q = p \/ pod_to_gpu[q] # NoGPU
           /\ pod_to_gpu[q] # NoGPU => pod_to_gpu'[q] = pod_to_gpu[q]
BY DEF assign, FleetTypeOK, fleetVars

\* release leaves the pod without a GPU, and every other pod's as it was.
LEMMA ReleaseHolders ==
    ASSUME FleetTypeOK, NEW p \in Pods, release(p), NEW q \in Pods
    PROVE  /\ pod_to_gpu'[p] = NoGPU
           /\ q # p => pod_to_gpu'[q] = pod_to_gpu[q]
BY DEF release, FleetTypeOK, fleetVars
=============================================================================
