--------------------------- MODULE FakeDcgmMetrics ---------------------------
(***************************************************************************)
(* update_metrics of components/fake-dcgm-exporter: the thread that        *)
(* re-emits the series of every GPU from a snapshot of GpuFleet, while the *)
(* watcher thread gives and takes GPUs (in any order: FakeDcgmWatcher is   *)
(* one way) and the Prometheus client may collect after any step.  A call  *)
(* to a gauge is one step, because each gauge has a lock of its own.       *)
(***************************************************************************)
EXTENDS GpuFleet

VARIABLES
    mpc,       \* the next call of update_metrics
    snap,      \* its snapshot of assignments
    gpu,       \* the GPU it is at
    ASSIGNED,  \* ASSIGNED[i]: the value of fyp_gpu_assigned, or Absent
    DCGM       \* <<gpu, pod>> labels of the series of a DCGM gauge; a uid
               \* stands for the namespace and name the code shows

metricVars == <<mpc, snap, gpu, ASSIGNED, DCGM>>
vars == <<assignments, pod_to_gpu, mpc, snap, gpu, ASSIGNED, DCGM>>

Absent == -1

NoSeries == [i \in Devices |-> Absent]

TypeOK ==
    /\ FleetTypeOK
    /\ mpc \in {"snapshot", "clearDCGM", "clearASSIGNED", "set", "emit"}
    /\ snap \in [Devices -> Pods \cup {NoPod}]
    /\ gpu \in Devices
    /\ ASSIGNED \in [Devices -> {Absent, 0, 1}]
    /\ DCGM \subseteq Devices \X (Pods \cup {NoPod})

MetricsInit ==
    /\ mpc = "snapshot"
    /\ snap = NoAssignments
    /\ gpu = 0
    /\ ASSIGNED = NoSeries
    /\ DCGM = {}

Init == FleetInit /\ MetricsInit

-----------------------------------------------------------------------------

\* Mutation: the snapshot of the first tick is kept.
SnapshotKept ==
    /\ mpc = "snapshot"
    /\ mpc' = "clearDCGM"
    /\ UNCHANGED <<fleetVars, snap, gpu, ASSIGNED, DCGM>>

Snapshot ==
    /\ mpc = "snapshot"
    /\ snap' = assignments
    /\ mpc' = "clearDCGM"
    /\ UNCHANGED <<fleetVars, gpu, ASSIGNED, DCGM>>

\* Mutation: the series of released pods are left to go stale.
KeepDCGM ==
    /\ mpc = "clearDCGM"
    /\ mpc' = "clearASSIGNED"
    /\ UNCHANGED <<fleetVars, snap, gpu, ASSIGNED, DCGM>>

ClearDCGM ==
    /\ mpc = "clearDCGM"
    /\ DCGM' = {}
    /\ mpc' = "clearASSIGNED"
    /\ UNCHANGED <<fleetVars, snap, gpu, ASSIGNED>>

ClearASSIGNED ==
    /\ mpc = "clearASSIGNED"
    /\ ASSIGNED' = NoSeries
    /\ gpu' = 0
    /\ mpc' = "set"
    /\ UNCHANGED <<fleetVars, snap, DCGM>>

SetASSIGNED ==
    /\ mpc = "set"
    /\ ASSIGNED' =
          [ASSIGNED EXCEPT ![gpu] = IF snap[gpu] = NoPod THEN 0 ELSE 1]
    /\ mpc' = "emit"
    /\ UNCHANGED <<fleetVars, snap, gpu, DCGM>>

\* Mutation: off by one at the end of the fleet.
EmitDCGMPastEnd ==
    /\ mpc = "emit"
    /\ DCGM' = DCGM \cup {<<gpu, snap[gpu]>>}
    /\ IF gpu + 1 <= GPU_COUNT
       THEN gpu' = gpu + 1 /\ mpc' = "set"
       ELSE gpu' = 0 /\ mpc' = "snapshot"
    /\ UNCHANGED <<fleetVars, snap, ASSIGNED>>

\* The DCGM gauges of one GPU, labelled with its pod; all six are treated
\* alike.  After the last GPU the thread sleeps until the next tick.
EmitDCGM ==
    /\ mpc = "emit"
    /\ DCGM' = DCGM \cup {<<gpu, snap[gpu]>>}
    /\ IF gpu + 1 \in Devices
       THEN gpu' = gpu + 1 /\ mpc' = "set"
       ELSE gpu' = 0 /\ mpc' = "snapshot"
    /\ UNCHANGED <<fleetVars, snap, ASSIGNED>>

MetricsStep ==
    Snapshot \/ ClearDCGM \/ ClearASSIGNED \/ SetASSIGNED \/ EmitDCGM

\* A step of the watcher thread.
FleetStep(p) == (assign(p) \/ release(p)) /\ UNCHANGED metricVars

\* A restart of the exporter puts both threads back to Init.
Next == MetricsStep \/ \E p \in Pods : FleetStep(p)

Spec == Init /\ [][Next]_vars

\* The thread ticks for ever.  No fairness for the fleet.
FairSpec == Spec /\ WF_vars(MetricsStep)

-----------------------------------------------------------------------------
(* What the series show.                                                   *)

\* No double counting: whenever the series are collected, each GPU has at
\* most one and each pod is on at most one GPU, although the fleet changes
\* while they are emitted.
UnambiguousSeries ==
    \A s, t \in DCGM :
        (s[1] = t[1] \/ (s[2] = t[2] /\ s[2] # NoPod)) => s = t

\* The series that show the assignments a.
Shows(a) ==
    /\ DCGM = {<<i, a[i]>> : i \in Devices}
    /\ ASSIGNED = [i \in Devices |-> IF a[i] = NoPod THEN 0 ELSE 1]

\* "clear() first so released pods' labeled series disappear": a fleet that
\* does not change is soon shown as it is, with nothing left of earlier ones.
SeriesFollowFleet ==
    \A a \in [Devices -> Pods \cup {NoPod}] :
        (assignments = a) ~> (Shows(a) \/ assignments # a)
=============================================================================
