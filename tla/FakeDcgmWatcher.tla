--------------------------- MODULE FakeDcgmWatcher ---------------------------
(***************************************************************************)
(* watch_pods of components/fake-dcgm-exporter: the thread that lists the  *)
(* training pods, follows a watch from the list's version, and gives and   *)
(* takes the GPUs of GpuFleet accordingly.                                 *)
(***************************************************************************)
EXTENDS GpuFleet, Sequences

CONSTANT MaxRestarts   \* bound: restarts of the exporter

ASSUME WatcherAssumption == MaxRestarts \in Nat

VARIABLES
    pods,      \* pods[p]: the stored pod
    wpc,       \* where the thread is
    items,     \* listed pods that are still to be looked at
    seen,      \* listed pods that run
    stale,     \* holders of a GPU that were not seen
    stream,    \* watch events since the list
    restarts

watcherVars == <<wpc, items, seen, stale>>
vars == <<pods, wpc, items, seen, stale, stream, restarts, assignments,
          pod_to_gpu>>

\* "Finished" is Succeeded or Failed; "None" is a pod that is not stored.
Phases == {"None", "Pending", "Running", "Finished"}

Pod == [phase : Phases, deleting : BOOLEAN]

Item == [pod : Pods, phase : Phases, deleting : BOOLEAN]

Event == [type : {"ADDED", "MODIFIED", "DELETED"}, pod : Pods,
          phase : Phases, deleting : BOOLEAN]

TypeOK ==
    /\ FleetTypeOK
    /\ pods \in [Pods -> Pod]
    /\ wpc \in {"list", "assign", "release", "watch"}
    /\ items \subseteq Item
    /\ seen \subseteq Pods
    /\ stale \subseteq Pods
    /\ stream \in Seq(Event)
    /\ restarts \in Nat

\* The exporter starts in a cluster without training pods.
Init ==
    /\ FleetInit
    /\ pods = [p \in Pods |-> [phase |-> "None", deleting |-> FALSE]]
    /\ wpc = "list"
    /\ items = {}
    /\ seen = {}
    /\ stale = {}
    /\ stream = <<>>
    /\ restarts = 0

-----------------------------------------------------------------------------
(* watch_pods.                                                             *)

Stored == {p \in Pods : pods[p].phase # "None"}

Runs(o) == o.phase = "Running" /\ ~o.deleting

\* list_pod_for_all_namespaces; a list that fails is tried again.
ListPods ==
    /\ wpc = "list"
    /\ items' = {[pod |-> p, phase |-> pods[p].phase,
                  deleting |-> pods[p].deleting] : p \in Stored}
    /\ seen' = {}
    /\ stream' = <<>>
    /\ wpc' = "assign"
    /\ UNCHANGED <<pods, stale, fleetVars, restarts>>

AssignListed(o) ==
    /\ wpc = "assign"
    /\ items' = items \ {o}
    /\ IF Runs(o)
       THEN seen' = seen \cup {o.pod} /\ assign(o.pod)
       ELSE UNCHANGED <<seen, fleetVars>>
    /\ UNCHANGED <<pods, wpc, stale, stream, restarts>>

\* Mutation: a relist only assigns.
ListAssignedNone ==
    /\ wpc = "assign"
    /\ items = {}
    /\ stale' = {}
    /\ seen' = {}
    /\ wpc' = "release"
    /\ UNCHANGED <<pods, items, stream, fleetVars, restarts>>

\* for uid in list(fleet.pod_to_gpu): the uids are listed once.
ListAssigned ==
    /\ wpc = "assign"
    /\ items = {}
    /\ stale' = {p \in Pods : pod_to_gpu[p] # NoGPU} \ seen
    /\ seen' = {}
    /\ wpc' = "release"
    /\ UNCHANGED <<pods, items, stream, fleetVars, restarts>>

ReleaseStale(p) ==
    /\ wpc = "release"
    /\ stale' = stale \ {p}
    /\ release(p)
    /\ UNCHANGED <<pods, wpc, items, seen, stream, restarts>>

\* Mutation: the watch starts at the current version, not at the list's.
StartWatchNow ==
    /\ wpc = "release"
    /\ stale = {}
    /\ wpc' = "watch"
    /\ stream' = <<>>
    /\ UNCHANGED <<pods, items, seen, stale, fleetVars, restarts>>

StartWatch ==
    /\ wpc = "release"
    /\ stale = {}
    /\ wpc' = "watch"
    /\ UNCHANGED <<pods, items, seen, stale, stream, fleetVars, restarts>>

Gone(e) == e.type = "DELETED" \/ e.phase = "Finished"

HandleEvent ==
    /\ wpc = "watch"
    /\ stream # <<>>
    /\ stream' = Tail(stream)
    /\ IF Gone(Head(stream)) THEN release(Head(stream).pod)
       ELSE IF Runs(Head(stream)) THEN assign(Head(stream).pod)
       ELSE UNCHANGED fleetVars
    /\ UNCHANGED <<pods, watcherVars, restarts>>

\* Mutation: the watch is never given up.
WatchForever ==
    /\ wpc = "watch"
    /\ UNCHANGED vars

\* The stream ends, after timeout_seconds or with an exception: relist.
\* Events that were not read are lost.
EndWatch ==
    /\ wpc = "watch"
    /\ wpc' = "list"
    /\ stream' = <<>>
    /\ UNCHANGED <<pods, items, seen, stale, fleetVars, restarts>>

\* The exporter's pod is restarted: nothing is persisted.
Restart ==
    /\ restarts < MaxRestarts
    /\ restarts' = restarts + 1
    /\ FleetReset
    /\ wpc' = "list"
    /\ items' = {}
    /\ seen' = {}
    /\ stale' = {}
    /\ stream' = <<>>
    /\ UNCHANGED pods

-----------------------------------------------------------------------------
(* Pods.  The watch carries what is stored after the list was taken.       *)

PodChanges(p, type, phase, deleting) ==
    /\ pods' = [pods EXCEPT ![p] =
                   IF type = "DELETED"
                   THEN [phase |-> "None", deleting |-> TRUE]
                   ELSE [phase |-> phase, deleting |-> deleting]]
    /\ stream' = IF wpc = "list" THEN <<>>
                 ELSE Append(stream, [type |-> type, pod |-> p,
                                      phase |-> phase,
                                      deleting |-> deleting])
    /\ UNCHANGED <<watcherVars, fleetVars, restarts>>

\* A uid is used once: a deleted pod does not come back.
PodCreated(p) ==
    /\ pods[p] = [phase |-> "None", deleting |-> FALSE]
    /\ PodChanges(p, "ADDED", "Pending", FALSE)

PodStarts(p) ==
    /\ pods[p].phase = "Pending"
    /\ PodChanges(p, "MODIFIED", "Running", pods[p].deleting)

\* Something else of a running pod changes: it is announced as Running again.
\* Bound: only with no event of the pod unread.
PodUpdated(p) ==
    /\ pods[p].phase = "Running"
    /\ \A k \in DOMAIN stream : stream[k].pod # p
    /\ PodChanges(p, "MODIFIED", "Running", pods[p].deleting)

PodEnds(p) ==
    /\ pods[p].phase \in {"Pending", "Running"}
    /\ PodChanges(p, "MODIFIED", "Finished", pods[p].deleting)

\* deletionTimestamp is set; the pod is given time to end.
PodDeleted(p) ==
    /\ p \in Stored
    /\ ~pods[p].deleting
    /\ PodChanges(p, "MODIFIED", pods[p].phase, TRUE)

PodRemoved(p) ==
    /\ p \in Stored
    /\ pods[p].deleting
    /\ PodChanges(p, "DELETED", pods[p].phase, TRUE)

Next ==
    \/ ListPods
    \/ \E o \in items : AssignListed(o)
    \/ ListAssigned
    \/ \E p \in stale : ReleaseStale(p)
    \/ StartWatch
    \/ HandleEvent
    \/ EndWatch
    \/ Restart
    \/ \E p \in Pods : PodCreated(p) \/ PodStarts(p) \/ PodUpdated(p)
                          \/ PodEnds(p) \/ PodDeleted(p) \/ PodRemoved(p)

Spec == Init /\ [][Next]_vars

WatcherStep ==
    \/ ListPods
    \/ \E o \in items : AssignListed(o)
    \/ ListAssigned
    \/ \E p \in stale : ReleaseStale(p)
    \/ StartWatch
    \/ HandleEvent

\* The thread never ends, and timeout_seconds=300 ends every watch.  No
\* fairness for pods or restarts.
FairSpec == Spec /\ WF_vars(WatcherStep) /\ WF_vars(EndWatch)

-----------------------------------------------------------------------------
(* What the thread promises.                                               *)

\* Event k of the stream takes the GPU from p.
Releases(p, k) == stream[k].pod = p /\ Gone(stream[k])

\* p runs, or an event that will release its GPU is on its way.
Accounted(p) ==
    pods[p].phase = "Running" \/ \E k \in DOMAIN stream : Releases(p, k)

\* No GPU leaks: with the watch open, a pod that holds a GPU still runs, or
\* an event that will release it is on its way.
NoLeakedGPU ==
    \A p \in Pods :
        (wpc = "watch" /\ pod_to_gpu[p] # NoGPU) => Accounted(p)

\* Why: the list and the watch miss nothing between them.  A pod that was
\* listed as running, or announced so, runs still or has an event behind that
\* says it is gone.  The inductive invariant of FakeDcgmWatcherProofs.
WatchInv ==
    /\ FleetConsistent
    /\ wpc = "list" => stream = <<>>
    /\ wpc = "assign" =>
          /\ \A o \in items : Runs(o) => Accounted(o.pod)
          /\ \A p \in seen : Accounted(p)
    /\ wpc = "release" =>
          \A p \in Pods : pod_to_gpu[p] # NoGPU => p \in stale \/ Accounted(p)
    /\ NoLeakedGPU
    /\ \A k \in DOMAIN stream :
          Runs(stream[k]) =>
              \/ pods[stream[k].pod].phase = "Running"
              \/ \E m \in DOMAIN stream : m > k /\ Releases(stream[k].pod, m)

\* A pod that keeps running gets a GPU, or all of them are taken, although
\* one that was refused is not looked at again before the next list, unless
\* an event of its own happens to come.
RunningPodServed ==
    \A p \in Pods :
        Runs(pods[p]) ~>
            (pod_to_gpu[p] # NoGPU \/ ~Runs(pods[p]) \/ Free = {})

\* A pod that ended gives its GPU back, even if its event was lost.
EndedPodReleased ==
    \A p \in Pods :
        (pods[p].phase \in {"Finished", "None"} /\ pod_to_gpu[p] # NoGPU)
            ~> (pod_to_gpu[p] = NoGPU)

\* "first-fit assigns each Running pod to a free simulated GPU": with every
\* event handled no pod runs without a GPU while one is free.
FreeGPUIsAssigned ==
    (wpc = "watch" /\ stream = <<>> /\ Free # {}) =>
        \A p \in Pods : Runs(pods[p]) => pod_to_gpu[p] # NoGPU
=============================================================================
