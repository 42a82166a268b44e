--------------------------- MODULE FakeDcgmProofs ---------------------------
(***************************************************************************)
(* Proofs about the exporter for a fleet of any size and any set of pods,  *)
(* whatever the watcher thread does between two steps of the metrics       *)
(* thread.                                                                 *)
(***************************************************************************)
EXTENDS FakeDcgmMetrics, GpuFleetProofs

\* Why the series are unambiguous: a snapshot gives no pod two GPUs, and the
\* series are those of one snapshot, except while a new one waits for the
\* old series to be cleared.
SeriesInv ==
    /\ FleetConsistent
    /\ \A i, k \in Devices : snap[i] = snap[k] /\ snap[i] # NoPod => i = k
    /\ mpc # "clearDCGM" => \A s \in DCGM : s[2] = snap[s[1]]
    /\ UnambiguousSeries

\* The series of one snapshot are unambiguous.
LEMMA OneSnapshot ==
    ASSUME NEW D \in SUBSET (Devices \X (Pods \cup {NoPod})), NEW f,
           \A i, k \in Devices : f[i] = f[k] /\ f[i] # NoPod => i = k,
           \A s \in D : s[2] = f[s[1]]
    PROVE  \A s, t \in D :
              (s[1] = t[1] \/ (s[2] = t[2] /\ s[2] # NoPod)) => s = t
<1> SUFFICES ASSUME NEW s \in D, NEW t \in D,
                    s[1] = t[1] \/ (s[2] = t[2] /\ s[2] # NoPod)
             PROVE  s = t
    OBVIOUS
<1>1. s[1] \in Devices /\ t[1] \in Devices
    OBVIOUS
<1>2. s[1] = t[1]
    BY <1>1
<1>3. s[2] = t[2]
    BY <1>2
<1> QED
    BY <1>2, <1>3

\* The exporter's types are kept, and so is the invariant of its series.
THEOREM SeriesInvariant == Spec => [](TypeOK /\ SeriesInv)
<1>1. Init => TypeOK /\ SeriesInv
    <2> SUFFICES ASSUME Init PROVE TypeOK /\ SeriesInv
        OBVIOUS
    <2>1. 0 \in Devices
        BY FleetAssumption DEF Devices
    <2>2. TypeOK
        BY <2>1 DEF Init, FleetInit, MetricsInit, TypeOK, FleetTypeOK,
                    NoAssignments, NoSeries
    <2>3. SeriesInv
        BY DEF Init, FleetInit, MetricsInit, SeriesInv, FleetConsistent,
               UnambiguousSeries, NoAssignments
    <2> QED
        BY <2>2, <2>3
<1>2. (TypeOK /\ SeriesInv) /\ [Next]_vars => (TypeOK /\ SeriesInv)'
    <2> SUFFICES ASSUME TypeOK, SeriesInv, [Next]_vars
                 PROVE  TypeOK' /\ SeriesInv'
        OBVIOUS
    <2>1. ASSUME NEW p \in Pods, FleetStep(p)
          PROVE  TypeOK' /\ SeriesInv'
        <3>1. FleetTypeOK' /\ FleetConsistent' /\ UNCHANGED metricVars
            BY <2>1, FleetStepConsistent DEF FleetStep, TypeOK, SeriesInv
        <3> QED
            BY <3>1 DEF metricVars, TypeOK, SeriesInv, UnambiguousSeries
    <2>2. ASSUME UNCHANGED fleetVars
          PROVE  FleetTypeOK' /\ FleetConsistent'
        BY <2>2 DEF fleetVars, FleetTypeOK, FleetConsistent, TypeOK, SeriesInv
    <2>3. CASE Snapshot
        <3>1. \A i, k \in Devices :
                  assignments[i] = assignments[k] /\ assignments[i] # NoPod
                      => i = k
            BY DEF SeriesInv, FleetConsistent
        <3> QED
            BY <2>2, <2>3, <3>1
            DEF Snapshot, TypeOK, FleetTypeOK, SeriesInv, UnambiguousSeries
    <2>4. CASE ClearDCGM
        BY <2>2, <2>4 DEF ClearDCGM, TypeOK, SeriesInv, UnambiguousSeries
    <2>5. CASE ClearASSIGNED
        <3>1. 0 \in Devices /\ NoSeries \in [Devices -> {Absent, 0, 1}]
            BY FleetAssumption DEF Devices, NoSeries
        <3> QED
            BY <2>2, <2>5, <3>1
            DEF ClearASSIGNED, TypeOK, SeriesInv, UnambiguousSeries
    <2>6. CASE SetASSIGNED
        BY <2>2, <2>6 DEF SetASSIGNED, TypeOK, SeriesInv, UnambiguousSeries
    <2>7. CASE EmitDCGM
        <3>1. /\ DCGM' \in SUBSET (Devices \X (Pods \cup {NoPod}))
              /\ gpu \in Devices /\ snap[gpu] \in Pods \cup {NoPod}
            BY <2>7 DEF EmitDCGM, TypeOK
        <3>2. \A s \in DCGM' : s[2] = snap[s[1]]
            BY <2>7, <3>1 DEF EmitDCGM, SeriesInv
        <3>3. \A i, k \in Devices :
                  snap[i] = snap[k] /\ snap[i] # NoPod => i = k
            BY DEF SeriesInv
        <3>4. UnambiguousSeries'
            BY <3>1, <3>2, <3>3, OneSnapshot DEF UnambiguousSeries
        <3>5. 0 \in Devices
            BY FleetAssumption DEF Devices
        <3>6. TypeOK'
            BY <2>2, <2>7, <3>1, <3>5 DEF EmitDCGM, TypeOK
        <3> QED
            BY <2>2, <2>7, <3>2, <3>4, <3>6 DEF EmitDCGM, SeriesInv
    <2>8. CASE UNCHANGED vars
        <3>1. FleetTypeOK' /\ FleetConsistent'
            BY <2>2, <2>8 DEF vars, fleetVars
        <3> QED
            BY <2>8, <3>1 DEF vars, TypeOK, SeriesInv, UnambiguousSeries
    <2> QED
        BY <2>1, <2>3, <2>4, <2>5, <2>6, <2>7, <2>8 DEF Next, MetricsStep
<1> QED
    BY <1>1, <1>2, PTL DEF Spec

\* The fleet's two maps agree in every state, for any number of GPUs.
THEOREM FleetConsistentHolds == Spec => []FleetConsistent
<1>1. TypeOK /\ SeriesInv => FleetConsistent
    BY DEF SeriesInv
<1> QED
    BY <1>1, SeriesInvariant, PTL

\* Whenever the series are collected, no GPU has two and no pod is on two.
THEOREM UnambiguousSeriesHolds == Spec => []UnambiguousSeries
<1>1. TypeOK /\ SeriesInv => UnambiguousSeries
    BY DEF SeriesInv
<1> QED
    BY <1>1, SeriesInvariant, PTL
=============================================================================
