------------------------ MODULE FakeDcgmWatcherProofs ------------------------
(***************************************************************************)
(* Proofs about the exporter's watcher thread for any set of pods, a fleet *)
(* of any size and any number of restarts: the list and the watch miss     *)
(* nothing between them, so no GPU leaks while the watch is open.          *)
(***************************************************************************)
EXTENDS FakeDcgmWatcher, GpuFleetProofs

\* What the steps of the cluster have in common: the thread and the fleet are
\* left alone, and a pod that stops running is announced as gone.
LEMMA PodSteps ==
    ASSUME TypeOK, NEW p \in Pods,
           \/ PodCreated(p) \/ PodStarts(p) \/ PodUpdated(p) \/ PodEnds(p)
           \/ PodDeleted(p) \/ PodRemoved(p)
    PROVE  \E type \in {"ADDED", "MODIFIED", "DELETED"}, phase \in Phases,
              deleting \in BOOLEAN :
              /\ PodChanges(p, type, phase, deleting)
              /\ type = "DELETED" => deleting
              /\ pods[p].phase = "Running" =>
                    \/ phase = "Running"
                    \/ phase = "Finished"
<1>1. pods[p].phase \in Phases /\ pods[p].deleting \in BOOLEAN
    BY DEF TypeOK, Pod
<1>2. {"None", "Pending", "Running", "Finished"} = Phases
    BY DEF Phases
<1>3. CASE PodCreated(p)
    <2>1. PodChanges(p, "ADDED", "Pending", FALSE)
        BY <1>3, Zenon DEF PodCreated
    <2>2. pods[p] = [phase |-> "None", deleting |-> FALSE]
        BY <1>3, Zenon DEF PodCreated
    <2>3. pods[p].phase = "None"
        BY <2>2
    <2> QED
        BY <1>2, <2>1, <2>3
<1>4. CASE PodStarts(p)
    BY <1>1, <1>2, <1>4 DEF PodStarts
<1>5. CASE PodUpdated(p)
    BY <1>1, <1>2, <1>5 DEF PodUpdated
<1>6. CASE PodEnds(p)
    BY <1>1, <1>2, <1>6 DEF PodEnds
<1>7. CASE PodDeleted(p)
    BY <1>1, <1>7 DEF PodDeleted
<1>8. CASE PodRemoved(p)
    BY <1>1, <1>8 DEF PodRemoved
<1> QED
    BY <1>3, <1>4, <1>5, <1>6, <1>7, <1>8

\* A change of a pod, and the event it sends.
LEMMA PodChangesType ==
    ASSUME TypeOK, NEW p \in Pods,
           NEW type \in {"ADDED", "MODIFIED", "DELETED"}, NEW phase \in Phases,
           NEW deleting \in BOOLEAN, PodChanges(p, type, phase, deleting)
    PROVE  TypeOK'
<1>1. [type |-> type, pod |-> p, phase |-> phase, deleting |-> deleting]
         \in Event
    BY DEF Event
<1>2. stream' \in Seq(Event)
    BY <1>1 DEF PodChanges, TypeOK
<1>3. "None" \in Phases
    BY DEF Phases
<1>4. pods' \in [Pods -> Pod]
    BY <1>3 DEF PodChanges, TypeOK, Pod
<1>5. UNCHANGED <<wpc, items, seen, stale, assignments, pod_to_gpu, restarts>>
    BY DEF PodChanges, watcherVars, fleetVars
<1> QED
    BY <1>2, <1>4, <1>5 DEF TypeOK, FleetTypeOK

\* The methods of Fleet keep its types, and so does a restart.
LEMMA FleetTypes ==
    ASSUME FleetTypeOK, FleetConsistent,
           \/ UNCHANGED fleetVars
           \/ FleetReset
           \/ \E p \in Pods : assign(p) \/ release(p)
    PROVE  FleetTypeOK' /\ FleetConsistent'
<1>1. CASE UNCHANGED fleetVars
    BY <1>1 DEF fleetVars, FleetTypeOK, FleetConsistent
<1>2. CASE FleetReset
    BY <1>2 DEF FleetReset, FleetTypeOK, FleetConsistent, NoAssignments
<1> QED
    BY <1>1, <1>2, FleetStepConsistent

\* Every step calls Fleet at most once.
LEMMA FleetCalls ==
    ASSUME TypeOK, [Next]_vars
    PROVE  \/ UNCHANGED fleetVars
           \/ FleetReset
           \/ \E p \in Pods : assign(p) \/ release(p)
<1>1. ASSUME NEW o \in items, AssignListed(o)
      PROVE  UNCHANGED fleetVars \/ \E p \in Pods : assign(p)
    BY <1>1 DEF AssignListed, TypeOK, Item
<1>2. ASSUME NEW p \in stale, ReleaseStale(p)
      PROVE  \E q \in Pods : release(q)
    BY <1>2 DEF ReleaseStale, TypeOK
<1>3. ASSUME HandleEvent
      PROVE  UNCHANGED fleetVars \/ \E p \in Pods : assign(p) \/ release(p)
    <2>1. Head(stream) \in Event
        BY <1>3 DEF HandleEvent, TypeOK
    <2>2. Head(stream).pod \in Pods
        BY <2>1 DEF Event
    <2> QED
        BY <1>3, <2>2 DEF HandleEvent
<1>4. ASSUME \/ ListPods \/ ListAssigned \/ StartWatch \/ EndWatch
             \/ UNCHANGED vars
      PROVE  UNCHANGED fleetVars
    BY <1>4 DEF ListPods, ListAssigned, StartWatch, EndWatch, vars, fleetVars
<1>5. ASSUME Restart PROVE FleetReset
    BY <1>5 DEF Restart
<1>6. ASSUME NEW p \in Pods,
             \/ PodCreated(p) \/ PodStarts(p) \/ PodUpdated(p) \/ PodEnds(p)
             \/ PodDeleted(p) \/ PodRemoved(p)
      PROVE  UNCHANGED fleetVars
    BY <1>6 DEF PodCreated, PodStarts, PodUpdated, PodEnds, PodDeleted,
                PodRemoved, PodChanges
<1> QED
    BY <1>1, <1>2, <1>3, <1>4, <1>5, <1>6 DEF Next

\* What is left of the stream after its first event.
LEMMA TailEvents ==
    ASSUME TypeOK, HandleEvent
    PROVE  /\ Head(stream) = stream[1] /\ stream[1] \in Event
           /\ 1 \in DOMAIN stream
           /\ \A k \in DOMAIN stream :
                 k # 1 => k - 1 \in DOMAIN stream' /\ stream'[k - 1] = stream[k]
           /\ \A k \in DOMAIN stream' :
                 k + 1 \in DOMAIN stream /\ stream'[k] = stream[k + 1]
<1>1. stream \in Seq(Event) /\ stream # <<>> /\ stream' = Tail(stream)
    BY DEF HandleEvent, TypeOK
<1>2. /\ Len(stream) \in Nat \ {0}
      /\ DOMAIN stream = 1 .. Len(stream)
      /\ DOMAIN stream' = 1 .. Len(stream) - 1
      /\ \A k \in 1 .. Len(stream) - 1 : stream'[k] = stream[k + 1]
    BY <1>1
<1> QED
    BY <1>1, <1>2

\* The types are kept.
LEMMA TypeKept ==
    ASSUME TypeOK, FleetConsistent, [Next]_vars
    PROVE  TypeOK' /\ FleetConsistent'
<1>1. FleetTypeOK' /\ FleetConsistent'
    BY FleetCalls, FleetTypes DEF TypeOK
<1>2. CASE ListPods
    <2>1. items' \subseteq Item
        BY <1>2 DEF ListPods, Stored, Item, TypeOK, Pod
    <2>2. stream' \in Seq(Event)
        BY <1>2 DEF ListPods
    <2> QED
        BY <1>1, <1>2, <2>1, <2>2 DEF ListPods, TypeOK
<1>3. ASSUME NEW o \in items, AssignListed(o) PROVE TypeOK'
    BY <1>1, <1>3 DEF AssignListed, TypeOK, Item
<1>4. CASE ListAssigned
    BY <1>1, <1>4 DEF ListAssigned, TypeOK
<1>5. ASSUME NEW p \in stale, ReleaseStale(p) PROVE TypeOK'
    BY <1>1, <1>5 DEF ReleaseStale, TypeOK
<1>6. CASE StartWatch
    BY <1>1, <1>6 DEF StartWatch, TypeOK
<1>7. CASE HandleEvent
    BY <1>1, <1>7 DEF HandleEvent, watcherVars, TypeOK
<1>8. CASE EndWatch
    BY <1>1, <1>8 DEF EndWatch, TypeOK
<1>9. CASE Restart
    BY <1>1, <1>9 DEF Restart, TypeOK
<1>10. ASSUME NEW p \in Pods,
              \/ PodCreated(p) \/ PodStarts(p) \/ PodUpdated(p) \/ PodEnds(p)
              \/ PodDeleted(p) \/ PodRemoved(p)
       PROVE  TypeOK'
    BY <1>10, PodSteps, PodChangesType
<1>11. CASE UNCHANGED vars
    BY <1>1, <1>11 DEF vars, TypeOK
<1> QED
    BY <1>1, <1>2, <1>3, <1>4, <1>5, <1>6, <1>7, <1>8, <1>9, <1>10, <1>11
    DEF Next

\* A pod announced as running by event k runs still, or a later event says it
\* is gone: the last conjunct of WatchInv.
Announced(k) ==
    Runs(stream[k]) =>
        \/ pods[stream[k].pod].phase = "Running"
        \/ \E m \in DOMAIN stream : m > k /\ Releases(stream[k].pod, m)

\* A change of a pod after the list adds an event to the stream.
LEMMA StreamGrows ==
    ASSUME TypeOK, wpc # "list", NEW p \in Pods,
           NEW type \in {"ADDED", "MODIFIED", "DELETED"}, NEW phase \in Phases,
           NEW deleting \in BOOLEAN, PodChanges(p, type, phase, deleting)
    PROVE  \E n \in Nat :
              /\ DOMAIN stream = 1 .. n /\ DOMAIN stream' = 1 .. n + 1
              /\ \A k \in 1 .. n : stream'[k] = stream[k]
              /\ stream'[n + 1] = [type |-> type, pod |-> p, phase |-> phase,
                                   deleting |-> deleting]
<1> DEFINE e == [type |-> type, pod |-> p, phase |-> phase,
                 deleting |-> deleting]
<1>1. stream \in Seq(Event) /\ stream' = Append(stream, e) /\ e \in Event
    BY DEF PodChanges, TypeOK, Event
<1> HIDE DEF e
<1>2. /\ Len(stream) \in Nat
      /\ DOMAIN stream = 1 .. Len(stream)
      /\ DOMAIN stream' = 1 .. Len(stream) + 1
      /\ \A k \in 1 .. Len(stream) : stream'[k] = stream[k]
      /\ stream'[Len(stream) + 1] = e
    BY <1>1
<1> QED
    BY <1>2 DEF e

\* A change of a pod leaves every pod accounted for that was, and every
\* announcement true, its own included.
LEMMA PodChangesAccounted ==
    ASSUME TypeOK, wpc # "list", NEW p \in Pods,
           \/ PodCreated(p) \/ PodStarts(p) \/ PodUpdated(p) \/ PodEnds(p)
           \/ PodDeleted(p) \/ PodRemoved(p)
    PROVE  /\ \A q \in Pods : Accounted(q) => Accounted(q)'
           /\ (\A k \in DOMAIN stream : Announced(k))
                 => (\A k \in DOMAIN stream : Announced(k))'
<1>1. PICK type \in {"ADDED", "MODIFIED", "DELETED"}, phase \in Phases,
           deleting \in BOOLEAN :
              /\ PodChanges(p, type, phase, deleting)
              /\ type = "DELETED" => deleting
              /\ pods[p].phase = "Running" =>
                    phase = "Running" \/ phase = "Finished"
    BY PodSteps
<1>2. PICK n \in Nat :
              /\ DOMAIN stream = 1 .. n /\ DOMAIN stream' = 1 .. n + 1
              /\ \A k \in 1 .. n : stream'[k] = stream[k]
              /\ stream'[n + 1] = [type |-> type, pod |-> p, phase |-> phase,
                                   deleting |-> deleting]
    BY <1>1, StreamGrows
<1>3. \A k \in 1 .. n : stream[k] \in Event /\ stream[k].pod \in Pods
    <2>1. stream \in Seq(Event)
        BY DEF TypeOK
    <2>2. \A k \in 1 .. n : stream[k] \in Event
        BY <1>2, <2>1
    <2> QED
        BY <2>2 DEF Event
<1>4. \A q \in Pods, k \in 1 .. n : Releases(q, k) => Releases(q, k)'
    BY <1>2 DEF Releases
<1>5. /\ \A q \in Pods : q # p => pods'[q] = pods[q]
      /\ type # "DELETED" => pods'[p].phase = phase
    BY <1>1 DEF PodChanges, TypeOK
<1>6. ASSUME NEW q \in Pods, pods[q].phase = "Running"
      PROVE  pods'[q].phase = "Running" \/ Releases(q, n + 1)'
    <2>1. CASE q # p
        BY <1>5, <1>6, <2>1
    <2>2. CASE q = p /\ type # "DELETED" /\ phase = "Running"
        BY <1>5, <2>2
    <2>3. CASE q = p /\ (type = "DELETED" \/ phase = "Finished")
        BY <1>2, <2>3 DEF Releases, Gone
    <2> QED
        BY <1>1, <1>6, <2>1, <2>2, <2>3
<1>7. n + 1 \in DOMAIN stream' /\ \A k \in 1 .. n : k \in DOMAIN stream'
    BY <1>2
<1>8. ASSUME NEW q \in Pods, Accounted(q) PROVE Accounted(q)'
    <2>1. CASE pods[q].phase = "Running"
        BY <1>6, <1>7, <2>1 DEF Accounted
    <2>2. ASSUME NEW k \in DOMAIN stream, Releases(q, k)
          PROVE  Accounted(q)'
        BY <1>2, <1>4, <1>7, <2>2 DEF Accounted
    <2> QED
        BY <1>8, <2>1, <2>2 DEF Accounted
<1>9. ASSUME \A k \in DOMAIN stream : Announced(k),
             NEW k \in DOMAIN stream'
      PROVE  Announced(k)'
    <2> SUFFICES ASSUME Runs(stream'[k])
                 PROVE  \/ pods'[stream'[k].pod].phase = "Running"
                        \/ \E m \in DOMAIN stream' :
                              /\ m > k /\ stream'[m].pod = stream'[k].pod
                              /\ Gone(stream'[m])
        BY DEF Announced, Releases, Runs, Gone
    <2>1. CASE k = n + 1
        <3>1. phase = "Running" /\ ~deleting /\ stream'[k].pod = p
            BY <1>2, <2>1 DEF Runs
        <3> QED
            BY <1>1, <1>5, <3>1
    <2>2. CASE k \in 1 .. n
        <3>1. stream'[k] = stream[k] /\ stream[k].pod \in Pods /\ n + 1 > k
            BY <1>2, <1>3, <2>2
        <3>2. PICK q \in Pods : q = stream[k].pod
            BY <3>1
        <3>3. \/ pods[q].phase = "Running"
              \/ \E m \in 1 .. n : m > k /\ Releases(q, m)
            BY <1>2, <1>9, <2>2, <3>1, <3>2 DEF Announced
        <3>4. CASE pods'[q].phase = "Running" \/ Releases(q, n + 1)'
            BY <1>7, <3>1, <3>2, <3>4 DEF Releases, Gone
        <3>5. ASSUME NEW m \in 1 .. n, m > k, Releases(q, m)
              PROVE  /\ m \in DOMAIN stream' /\ stream'[m].pod = q
                     /\ Gone(stream'[m])
            BY <1>2, <1>7, <3>5 DEF Releases
        <3> QED
            BY <1>6, <3>1, <3>2, <3>3, <3>4, <3>5
    <2> QED
        BY <1>2, <2>1, <2>2
<1> QED
    BY <1>8, <1>9

\* WatchInv is kept by what happens to pods.
LEMMA PodStepsKeepWatch ==
    ASSUME TypeOK, WatchInv, FleetConsistent', NEW p \in Pods,
           \/ PodCreated(p) \/ PodStarts(p) \/ PodUpdated(p) \/ PodEnds(p)
           \/ PodDeleted(p) \/ PodRemoved(p)
    PROVE  WatchInv'
<1>1. UNCHANGED <<wpc, items, seen, stale, pod_to_gpu>>
    BY PodSteps DEF PodChanges, watcherVars, fleetVars
<1>2. CASE wpc = "list"
    <2>1. stream' = <<>>
        BY <1>2, PodSteps DEF PodChanges
    <2> QED
        BY <1>1, <1>2, <2>1 DEF WatchInv, NoLeakedGPU
<1>3. CASE wpc # "list"
    <2>1. /\ \A q \in Pods : Accounted(q) => Accounted(q)'
          /\ (\A k \in DOMAIN stream : Announced(k))'
        BY <1>3, PodChangesAccounted DEF WatchInv, Announced
    <2>2. (/\ wpc = "assign" =>
               /\ \A o \in items : Runs(o) => Accounted(o.pod)
               /\ \A q \in seen : Accounted(q))'
        BY <1>1, <2>1 DEF WatchInv, TypeOK, Item, Runs
    <2>3. (/\ wpc = "release" =>
              \A q \in Pods : pod_to_gpu[q] # NoGPU => q \in stale \/ Accounted(q))'
        BY <1>1, <2>1 DEF WatchInv
    <2>4. NoLeakedGPU'
        BY <1>1, <2>1 DEF WatchInv, NoLeakedGPU
    <2> QED
        BY <1>1, <1>3, <2>1, <2>2, <2>3, <2>4 DEF WatchInv, Announced
<1> QED
    BY <1>2, <1>3

\* Whatever leaves the pods and the stream alone leaves accounts alone.
LEMMA AccountsKept ==
    ASSUME UNCHANGED <<pods, stream>>
    PROVE  /\ \A q : Accounted(q)' <=> Accounted(q)
           /\ (\A k \in DOMAIN stream : Announced(k))
                 => (\A k \in DOMAIN stream : Announced(k))'
BY DEF Accounted, Announced, Releases, Runs, Gone

\* ListPods: what is listed as running runs.
LEMMA ListKeepsWatch ==
    ASSUME TypeOK, WatchInv, FleetConsistent', ListPods
    PROVE  WatchInv'
<1>1. /\ wpc' = "assign" /\ stream' = <<>> /\ seen' = {} /\ pods' = pods
      /\ items' = {[pod |-> p, phase |-> pods[p].phase,
                    deleting |-> pods[p].deleting] : p \in Stored}
    BY DEF ListPods
<1>2. \A o \in items' : Runs(o) => pods'[o.pod].phase = "Running"
    BY <1>1 DEF Runs
<1>3. (\A o \in items : Runs(o) => Accounted(o.pod))'
    BY <1>2 DEF Accounted, Runs
<1> QED
    BY <1>1, <1>3 DEF WatchInv, NoLeakedGPU

\* The assignments of a relist go to pods that are accounted for, so every
\* holder that is not must be found stale.
LEMMA RelistKeepsWatch ==
    ASSUME TypeOK, WatchInv, FleetConsistent',
           \/ \E o \in items : AssignListed(o)
           \/ ListAssigned
           \/ \E p \in stale : ReleaseStale(p)
           \/ StartWatch
    PROVE  WatchInv'
<1>1. UNCHANGED <<pods, stream>>
    BY DEF AssignListed, ListAssigned, ReleaseStale, StartWatch
<1>2. /\ \A q : Accounted(q)' <=> Accounted(q)
      /\ (\A k \in DOMAIN stream : Announced(k))'
    BY <1>1, AccountsKept DEF WatchInv, Announced
<1>3. ASSUME NEW o \in items, AssignListed(o) PROVE WatchInv'
    <2>1. wpc = "assign" /\ wpc' = "assign" /\ items' \subseteq items
        BY <1>3 DEF AssignListed
    <2>2. \A p \in seen' : p \in seen \/ (p = o.pod /\ Runs(o))
        BY <1>3 DEF AssignListed
    <2>3. (/\ \A i \in items : Runs(i) => Accounted(i.pod)
           /\ \A p \in seen : Accounted(p))'
        BY <1>2, <2>1, <2>2 DEF WatchInv, Runs
    <2> QED
        BY <1>2, <2>1, <2>3 DEF WatchInv, NoLeakedGPU, Announced
<1>4. CASE ListAssigned
    <2>1. /\ wpc = "assign" /\ wpc' = "release" /\ pod_to_gpu' = pod_to_gpu
          /\ stale' = {p \in Pods : pod_to_gpu[p] # NoGPU} \ seen
        BY <1>4 DEF ListAssigned, fleetVars
    <2>2. (\A p \in Pods : pod_to_gpu[p] # NoGPU => p \in stale \/ Accounted(p))'
        BY <1>2, <2>1 DEF WatchInv
    <2> QED
        BY <1>2, <2>1, <2>2 DEF WatchInv, NoLeakedGPU, Announced
<1>5. ASSUME NEW p \in stale, ReleaseStale(p) PROVE WatchInv'
    <2>1. wpc = "release" /\ wpc' = "release" /\ stale' = stale \ {p}
        BY <1>5 DEF ReleaseStale
    <2>2. p \in Pods /\ FleetTypeOK /\ release(p)
        BY <1>5 DEF ReleaseStale, TypeOK
    <2>3. \A q \in Pods : pod_to_gpu'[q] # NoGPU => q # p /\ pod_to_gpu[q] # NoGPU
        BY <2>2, ReleaseHolders
    <2>4. (\A q \in Pods : pod_to_gpu[q] # NoGPU => q \in stale \/ Accounted(q))'
        BY <1>2, <2>1, <2>3 DEF WatchInv
    <2> QED
        BY <1>2, <2>1, <2>4 DEF WatchInv, NoLeakedGPU, Announced
<1>6. CASE StartWatch
    <2>1. /\ wpc = "release" /\ wpc' = "watch" /\ stale = {}
          /\ pod_to_gpu' = pod_to_gpu
        BY <1>6 DEF StartWatch, fleetVars
    <2>2. NoLeakedGPU'
        BY <1>2, <2>1 DEF WatchInv, NoLeakedGPU
    <2> QED
        BY <1>2, <2>1, <2>2 DEF WatchInv, Announced
<1> QED
    BY <1>3, <1>4, <1>5, <1>6

\* HandleEvent: the event that is taken off the stream is obeyed, and what it
\* says of a running pod is still true or revoked by an event behind it.
LEMMA HandleKeepsWatch ==
    ASSUME TypeOK, WatchInv, FleetConsistent', HandleEvent
    PROVE  WatchInv'
<1>1. /\ Head(stream) = stream[1] /\ stream[1] \in Event
      /\ 1 \in DOMAIN stream
      /\ \A k \in DOMAIN stream :
            k # 1 => k - 1 \in DOMAIN stream' /\ stream'[k - 1] = stream[k]
      /\ \A k \in DOMAIN stream' :
            k + 1 \in DOMAIN stream /\ stream'[k] = stream[k + 1]
    BY TailEvents
<1>2. PICK h \in Pods : h = stream[1].pod
    BY <1>1 DEF Event
<1>3. wpc = "watch" /\ wpc' = "watch" /\ pods' = pods
    BY DEF HandleEvent, watcherVars
<1>4. DOMAIN stream \subseteq Nat /\ DOMAIN stream' \subseteq Nat
    BY DEF HandleEvent, TypeOK
<1>5. ASSUME NEW q \in Pods, NEW k \in DOMAIN stream, k # 1, Releases(q, k)
      PROVE  Accounted(q)'
    <2>1. k - 1 \in DOMAIN stream' /\ Releases(q, k - 1)'
        BY <1>1, <1>5 DEF Releases, Gone
    <2> QED
        BY <2>1 DEF Accounted
<1>6. ASSUME NEW q \in Pods, Accounted(q), ~Releases(q, 1)
      PROVE  Accounted(q)'
    <2>1. CASE pods[q].phase = "Running"
        BY <1>3, <2>1 DEF Accounted
    <2>2. ASSUME NEW k \in DOMAIN stream, Releases(q, k) PROVE Accounted(q)'
        BY <1>5, <1>6, <2>2
    <2> QED
        BY <1>6, <2>1, <2>2 DEF Accounted
<1>7. Runs(stream[1]) => Accounted(h)'
    <2> SUFFICES ASSUME Runs(stream[1]) PROVE Accounted(h)'
        OBVIOUS
    <2>1. \/ pods[h].phase = "Running"
          \/ \E m \in DOMAIN stream : m > 1 /\ Releases(h, m)
        BY <1>1, <1>2 DEF WatchInv
    <2>2. CASE pods[h].phase = "Running"
        BY <1>3, <2>2 DEF Accounted
    <2>3. ASSUME NEW m \in DOMAIN stream, m > 1, Releases(h, m)
          PROVE  Accounted(h)'
        <3>1. m # 1
            BY <1>4, <2>3
        <3> QED
            BY <1>5, <2>3, <3>1
    <2> QED
        BY <2>1, <2>2, <2>3
<1>8. \A q \in Pods : pod_to_gpu[q] # NoGPU => Accounted(q)
    BY <1>3 DEF WatchInv, NoLeakedGPU
<1>9. ASSUME NEW q \in Pods, pod_to_gpu'[q] # NoGPU PROVE Accounted(q)'
    <2>0. FleetTypeOK
        BY DEF TypeOK
    <2>1. CASE Gone(stream[1])
        <3>1. release(h)
            BY <1>1, <1>2, <2>1 DEF HandleEvent
        <3>2. q # h /\ pod_to_gpu[q] # NoGPU
            BY <1>9, <2>0, <3>1, ReleaseHolders
        <3> QED
            BY <1>2, <1>6, <1>8, <3>2 DEF Releases
    <2>2. CASE ~Gone(stream[1])
        <3>1. ~Releases(q, 1)
            BY <2>2 DEF Releases
        <3>2. CASE Runs(stream[1])
            <4>1. assign(h)
                BY <1>1, <1>2, <2>2, <3>2 DEF HandleEvent
            <4>2. q = h \/ pod_to_gpu[q] # NoGPU
                BY <1>9, <2>0, <4>1, AssignHolders
            <4> QED
                BY <1>6, <1>7, <1>8, <3>1, <3>2, <4>2
        <3>3. CASE ~Runs(stream[1])
            <4>1. pod_to_gpu' = pod_to_gpu
                BY <1>1, <2>2, <3>3 DEF HandleEvent, fleetVars
            <4> QED
                BY <1>6, <1>8, <1>9, <3>1, <4>1
        <3> QED
            BY <3>2, <3>3
    <2> QED
        BY <2>1, <2>2
<1>10. NoLeakedGPU'
    BY <1>9 DEF NoLeakedGPU
<1>11. ASSUME NEW k \in DOMAIN stream', Runs(stream'[k])
       PROVE  \/ pods'[stream'[k].pod].phase = "Running"
              \/ \E m \in DOMAIN stream' :
                    /\ m > k /\ stream'[m].pod = stream'[k].pod
                    /\ Gone(stream'[m])
    <2>1. k \in Nat /\ k + 1 \in DOMAIN stream /\ stream'[k] = stream[k + 1]
        BY <1>1, <1>4
    <2>2. \/ pods[stream[k + 1].pod].phase = "Running"
          \/ \E m \in DOMAIN stream :
                m > k + 1 /\ Releases(stream[k + 1].pod, m)
        BY <1>11, <2>1 DEF WatchInv
    <2>3. ASSUME NEW m \in DOMAIN stream, m > k + 1,
                 Releases(stream[k + 1].pod, m)
          PROVE  /\ m - 1 \in DOMAIN stream' /\ m - 1 > k
                 /\ stream'[m - 1].pod = stream'[k].pod
                 /\ Gone(stream'[m - 1])
        <3>1. m \in Nat /\ m # 1 /\ m - 1 > k
            BY <1>4, <2>1, <2>3
        <3>2. m - 1 \in DOMAIN stream' /\ stream'[m - 1] = stream[m]
            BY <1>1, <3>1
        <3> QED
            BY <2>1, <2>3, <3>1, <3>2 DEF Releases
    <2> QED
        BY <1>3, <2>1, <2>2, <2>3
<1>12. (\A k \in DOMAIN stream : Announced(k))'
    BY <1>11 DEF Announced, Releases, Runs, Gone
<1> QED
    BY <1>3, <1>10, <1>12 DEF WatchInv, Announced

\* The thread's invariant holds whatever the cluster does to the pods and
\* however often a watch ends or the exporter restarts.
THEOREM WatchInvariant == Spec => [](TypeOK /\ WatchInv)
<1>1. Init => TypeOK /\ WatchInv
    <2> SUFFICES ASSUME Init PROVE TypeOK /\ WatchInv
        OBVIOUS
    <2>1. FleetTypeOK /\ FleetConsistent
        BY DEF Init, FleetInit, FleetTypeOK, FleetConsistent, NoAssignments
    <2>2. pods \in [Pods -> Pod]
        BY DEF Init, Pod, Phases
    <2>3. TypeOK
        BY <2>1, <2>2 DEF Init, TypeOK
    <2>4. WatchInv
        BY <2>1 DEF Init, WatchInv, NoLeakedGPU
    <2> QED
        BY <2>3, <2>4
<1>2. (TypeOK /\ WatchInv) /\ [Next]_vars => (TypeOK /\ WatchInv)'
    <2> SUFFICES ASSUME TypeOK, WatchInv, [Next]_vars PROVE TypeOK' /\ WatchInv'
        OBVIOUS
    <2>1. TypeOK' /\ FleetConsistent'
        BY TypeKept DEF WatchInv
    <2>2. CASE ListPods
        BY <2>1, <2>2, ListKeepsWatch
    <2>3. CASE \/ \E o \in items : AssignListed(o)
               \/ ListAssigned
               \/ \E p \in stale : ReleaseStale(p)
               \/ StartWatch
        BY <2>1, <2>3, RelistKeepsWatch
    <2>4. CASE HandleEvent
        BY <2>1, <2>4, HandleKeepsWatch
    <2>5. CASE EndWatch \/ Restart
        <3>1. wpc' = "list" /\ stream' = <<>>
            BY <2>5 DEF EndWatch, Restart
        <3> QED
            BY <2>1, <3>1 DEF WatchInv, NoLeakedGPU
    <2>6. ASSUME NEW p \in Pods,
                 \/ PodCreated(p) \/ PodStarts(p) \/ PodUpdated(p) \/ PodEnds(p)
                 \/ PodDeleted(p) \/ PodRemoved(p)
          PROVE  WatchInv'
        BY <2>1, <2>6, PodStepsKeepWatch
    <2>7. CASE UNCHANGED vars
        <3>1. UNCHANGED <<pods, stream, wpc, items, seen, stale, pod_to_gpu>>
            BY <2>7 DEF vars
        <3>2. (\A q : Accounted(q)' <=> Accounted(q))
              /\ (\A k \in DOMAIN stream : Announced(k))'
            BY <3>1, AccountsKept DEF WatchInv, Announced
        <3> QED
            BY <2>1, <3>1, <3>2 DEF WatchInv, NoLeakedGPU, Announced, Runs
    <2> QED
        BY <2>1, <2>2, <2>3, <2>4, <2>5, <2>6, <2>7 DEF Next
<1> QED
    BY <1>1, <1>2, PTL DEF Spec

\* The variables of the watcher thread have their types.
THEOREM WatcherTypeCorrect == Spec => []TypeOK
BY WatchInvariant, PTL

\* No GPU leaks: with the watch open, the holder of a GPU runs or an event that
\* releases it is on its way, for any pods, GPUs and restarts.
THEOREM NoLeakedGPUHolds == Spec => []NoLeakedGPU
<1>1. TypeOK /\ WatchInv => NoLeakedGPU
    BY DEF WatchInv
<1> QED
    BY <1>1, WatchInvariant, PTL

\* The fleet's maps agree under the watcher's own calls and across restarts.
THEOREM WatcherKeepsFleet == Spec => []FleetConsistent
<1>1. TypeOK /\ WatchInv => FleetConsistent
    BY DEF WatchInv
<1> QED
    BY <1>1, WatchInvariant, PTL
=============================================================================
