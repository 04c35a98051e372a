------------------------ MODULE MilvusReconcileProofs ------------------------
(***************************************************************************)
(* Deletion and the status, for every set of images and dependencies and   *)
(* every number of disturbances: the finalizer holds the object until      *)
(* nothing is installed, the phase Deleting stays, and status.currentImage *)
(* names an image that has run.  At the end, the cache that the probes of  *)
(* the status loops share.                                                 *)
(***************************************************************************)
EXTENDS MilvusReconcile, EndpointCheckCache, FiniteSetTheorems, TLAPS

\* Zenon proves what follows; the steps that need arithmetic cite SMT.
USE Zenon

\* The copies that are worked on.
RecType == [mc: MilvusType, step: {"apply", "status", "finalize"}]
SyncType == [mc: MilvusType, probed: [Deps -> Answers]]

\* What is worked on has the shape it started with.
CopyTypes == (rec # Nothing => rec \in RecType) /\ (sync # Nothing => sync \in SyncType)

\* Only finalizing works on a copy of an object that is being deleted.
CopiesAlive ==
  /\ rec # Nothing /\ rec.step # "finalize" => rec.mc.deletion = "none"
  /\ sync # Nothing => sync.mc.deletion = "none"

\* An object without its finalizer that is being deleted has nothing installed,
\* and no reconcile is at work that could install something.
Released ==
  /\ ~mc.finalizer /\ mc.deletion # "none" => releases = {} /\ rec = Nothing
  /\ ~exists => ~mc.finalizer /\ mc.deletion # "none"

DeletionInv == CopyTypes /\ CopiesAlive /\ Released /\ (mc.phase = "Deleting" => mc.deletion # "none")

\* A workload that runs an image completely is on record, and so is one that the
\* caches show.
Recorded(w) == Complete(w) /\ ~w.work.stopped => w.work.image \in ran

RanInv == Recorded([work |-> work, pods |-> pods]) /\ Recorded(wseen)

-----------------------------------------------------------------------------
(* Writes of the object.                                                    *)

\* A write that succeeds replaces the object that was read.
LEMMA WriteFacts ==
  ASSUME NEW m, NEW n, queue \in BOOLEAN, Write(m, n) \/ WriteStatus(m, n)
  PROVE  /\ mc' = mc \/ (m = mc /\ mc' = n)
         /\ queue' \in BOOLEAN /\ exists' = exists
<1>1. CASE Write(m, n)
  BY <1>1 DEF Write
<1>2. CASE WriteStatus(m, n)
  BY <1>2 DEF WriteStatus, Write, object
<1> QED
  BY <1>1, <1>2

\* What the new status of a copy leaves alone, and when it names an image.
LEMMA NewStatusFacts ==
  ASSUME NEW m \in MilvusType, NEW deps \in [Deps -> Answers], NEW w
  PROVE  LET n == NewStatus(m, deps, w)
         IN  /\ n \in MilvusType /\ n.observed <= n.gen
             /\ n.finalizer = m.finalizer /\ n.deletion = m.deletion /\ n.phase # "Deleting"
             /\ n.current # m.current /\ ~w.work.stopped
                  => n.current = m.image /\ GetMilvusUpdatedCondition(m, w)
<1> DEFINE instance == GetMilvusInstanceCondition(m, w)
           ready == IF instance = "absent" THEN m.ready ELSE instance = "true"
           updated == GetMilvusUpdatedCondition(m, w)
           current == IF ready /\ updated THEN m.image ELSE m.current
           phase == GetMilvusHealthStatus(m.phase, m.stop, instance = "true")
           n == NewStatus(m, deps, w)
<1>1. ready \in BOOLEAN
  BY DEF MilvusType
<1>2. updated \in BOOLEAN
  BY DEF GetMilvusUpdatedCondition
<1>3. current \in Images /\ (current # m.current => current = m.image /\ updated)
  BY DEF MilvusType
<1>4. phase \in {"Stopped", "Healthy", "Unhealthy", "Pending"}
  BY DEF GetMilvusHealthStatus
<1>5. n = [m EXCEPT !.observed = m.gen, !.deps = deps, !.ready = ready, !.updated = updated,
                    !.current = current, !.phase = phase]
  BY DEF NewStatus
<1> HIDE DEF instance, ready, updated, current, phase, n
<1>6. n \in MilvusType
  BY ZenonT(60), <1>1, <1>2, <1>3, <1>4, <1>5 DEF MilvusType
<1>7. /\ n.observed = m.gen /\ n.gen = m.gen /\ n.finalizer = m.finalizer /\ n.deletion = m.deletion
      /\ n.phase = phase /\ n.current = current
  BY <1>5 DEF MilvusType
<1>8. m.gen \in Nat
  BY DEF MilvusType
<1> QED
  BY SMT, <1>3, <1>4, <1>6, <1>7, <1>8 DEF n, updated

-----------------------------------------------------------------------------
(* Types.                                                                   *)

LEMMA FieldTypes ==
  ASSUME NEW m \in MilvusType
  PROVE  /\ m.gen \in Nat /\ m.observed \in Nat /\ m.stop \in BOOLEAN /\ m.image \in Images
         /\ m.finalizer \in BOOLEAN /\ m.deletion \in {"none", "background", "foreground"}
         /\ m.deps \in [Deps -> Answers] /\ m.current \in Images /\ m.ordered \in BOOLEAN
BY DEF MilvusType

\* The objects that are written.
LEMMA WrittenTypes ==
  ASSUME NEW m \in MilvusType
  PROVE  /\ [m EXCEPT !.finalizer = TRUE] \in MilvusType /\ [m EXCEPT !.finalizer = FALSE] \in MilvusType
         /\ [m EXCEPT !.phase = "Pending", !.current = m.image] \in MilvusType
         /\ [m EXCEPT !.phase = "Deleting"] \in MilvusType
         /\ \A policy \in {"background", "foreground"} : [m EXCEPT !.deletion = policy] \in MilvusType
         /\ \A i \in Images, stop \in BOOLEAN :
              [m EXCEPT !.gen = m.gen + 1, !.image = i, !.stop = stop] \in MilvusType
<1>1. /\ [m EXCEPT !.finalizer = TRUE] \in MilvusType /\ [m EXCEPT !.finalizer = FALSE] \in MilvusType
  BY DEF MilvusType
<1>2. [m EXCEPT !.phase = "Pending", !.current = m.image] \in MilvusType /\ [m EXCEPT !.phase = "Deleting"] \in MilvusType
  BY DEF MilvusType
<1>3. ASSUME NEW policy \in {"background", "foreground"} PROVE [m EXCEPT !.deletion = policy] \in MilvusType
  BY <1>3 DEF MilvusType
<1>4. ASSUME NEW i \in Images, NEW stop \in BOOLEAN
      PROVE  [m EXCEPT !.gen = m.gen + 1, !.image = i, !.stop = stop] \in MilvusType
  <2> DEFINE g == m.gen + 1
  <2>1. g \in Nat
    BY SMT, FieldTypes
  <2> HIDE DEF g
  <2>2. [m EXCEPT !.gen = g, !.image = i, !.stop = stop] \in MilvusType
    BY <2>1 DEF MilvusType
  <2> QED
    BY <2>2 DEF g
<1> QED
  BY <1>1, <1>2, <1>3, <1>4

\* Their generations.
LEMMA WrittenFields ==
  ASSUME NEW m \in MilvusType
  PROVE  /\ \A b \in BOOLEAN :
              [m EXCEPT !.finalizer = b].gen = m.gen /\ [m EXCEPT !.finalizer = b].observed = m.observed
         /\ /\ [m EXCEPT !.phase = "Pending", !.current = m.image].gen = m.gen
            /\ [m EXCEPT !.phase = "Pending", !.current = m.image].observed = m.observed
         /\ [m EXCEPT !.phase = "Deleting"].gen = m.gen /\ [m EXCEPT !.phase = "Deleting"].observed = m.observed
         /\ \A policy \in {"background", "foreground"} :
              [m EXCEPT !.deletion = policy].gen = m.gen /\ [m EXCEPT !.deletion = policy].observed = m.observed
BY DEF MilvusType

\* Every write keeps the type of the object.
LEMMA ObjectWrites ==
  ASSUME TypeOK, CopyTypes,
         \/ AddFinalizer \/ SetDefaultStatus \/ MarkDeleting \/ DeleteForeground \/ RemoveFinalizer
         \/ (\E i \in Images, stop \in BOOLEAN : Edit(i, stop))
         \/ (\E policy \in {"background", "foreground"} : Delete(policy))
         \/ UpdateStatus \/ FinishSync
  PROVE  mc' \in MilvusType /\ mc'.observed <= mc'.gen /\ queue' \in BOOLEAN /\ exists' = exists
<1>a. mc \in MilvusType /\ mc.observed <= mc.gen /\ queue \in BOOLEAN /\ mc.gen \in Nat /\ mc.observed \in Nat
  BY FieldTypes DEF TypeOK
<1>1. ASSUME NEW m, NEW n, Write(m, n) \/ WriteStatus(m, n), m = mc => n \in MilvusType /\ n.observed <= n.gen
      PROVE  mc' \in MilvusType /\ mc'.observed <= mc'.gen /\ queue' \in BOOLEAN /\ exists' = exists
  BY SMT, <1>a, <1>1, WriteFacts
<1>2. CASE AddFinalizer \/ SetDefaultStatus \/ MarkDeleting \/ DeleteForeground
  <2>1. \/ Write(mc, [mc EXCEPT !.finalizer = TRUE])
        \/ Write(mc, [mc EXCEPT !.phase = "Pending", !.current = mc.image])
        \/ Write(mc, [mc EXCEPT !.phase = "Deleting"])
        \/ Write(mc, [mc EXCEPT !.deletion = "foreground"])
    BY <1>2 DEF AddFinalizer, SetDefaultStatus, MarkDeleting, DeleteForeground
  <2> QED
    BY <1>a, <1>1, <2>1, WrittenTypes, WrittenFields
<1>3. CASE RemoveFinalizer
  <2>1. Write(rec.mc, [rec.mc EXCEPT !.finalizer = FALSE])
    BY <1>3 DEF RemoveFinalizer
  <2> DEFINE r == rec.mc
             n == [r EXCEPT !.finalizer = FALSE]
  <2>2. r \in MilvusType
    BY <1>3 DEF RemoveFinalizer, CopyTypes, RecType
  <2> HIDE DEF r
  <2>3. n \in MilvusType /\ n.observed = r.observed /\ n.gen = r.gen
    BY <2>2, WrittenTypes, WrittenFields
  <2> HIDE DEF n
  <2>4. r = mc => n \in MilvusType /\ n.observed <= n.gen
    BY <1>a, <2>3
  <2> QED
    BY <1>1, <2>1, <2>4 DEF n, r
<1>4. ASSUME NEW i \in Images, NEW stop \in BOOLEAN, Edit(i, stop)
      PROVE  mc' \in MilvusType /\ mc'.observed <= mc'.gen /\ queue' \in BOOLEAN /\ exists' = exists
  <2> DEFINE n == [mc EXCEPT !.gen = mc.gen + 1, !.image = i, !.stop = stop]
  <2>1. Write(mc, n)
    BY <1>4 DEF Edit
  <2>2. n \in MilvusType /\ n.observed = mc.observed /\ n.gen = mc.gen + 1
    <3>1. n \in MilvusType
      BY <1>a, <1>4, WrittenTypes
    <3>2. n.observed = mc.observed /\ n.gen = mc.gen + 1
      BY <1>a DEF MilvusType
    <3> QED
      BY <3>1, <3>2
  <2> HIDE DEF n
  <2>3. n.observed <= n.gen
    BY SMT, <1>a, <2>2
  <2> QED
    BY <1>1, <2>1, <2>2, <2>3
<1>5. ASSUME NEW policy \in {"background", "foreground"}, Delete(policy)
      PROVE  mc' \in MilvusType /\ mc'.observed <= mc'.gen /\ queue' \in BOOLEAN /\ exists' = exists
  <2>1. Write(mc, [mc EXCEPT !.deletion = policy])
    BY <1>5 DEF Delete
  <2> QED
    BY <1>a, <1>1, <2>1, WrittenTypes, WrittenFields
<1>6. CASE UpdateStatus
  <2>1. rec.mc \in MilvusType /\ WriteStatus(rec.mc, NewStatus(rec.mc, rec.mc.deps, wseen))
    BY <1>6 DEF UpdateStatus, CopyTypes, RecType
  <2> QED
    BY <1>1, <2>1, NewStatusFacts, FieldTypes
<1>7. CASE FinishSync
  <2>1. /\ sync.mc \in MilvusType /\ sync.probed \in [Deps -> Answers]
        /\ WriteStatus(sync.mc, NewStatus(sync.mc, sync.probed, wseen))
    BY <1>7 DEF FinishSync, CopyTypes, SyncType
  <2> QED
    BY <1>1, <2>1, NewStatusFacts
<1> QED
  BY <1>2, <1>3, <1>4, <1>5, <1>6, <1>7

\* What a step may do to the state.
LEMMA TypeFrame ==
  ASSUME exists' \in BOOLEAN, queue' \in BOOLEAN, mc' \in MilvusType, mc'.observed <= mc'.gen, CopyTypes',
         work' \in WorkType, wseen'.work \in WorkType, pods' \subseteq PodType, wseen'.pods \subseteq PodType,
         up' \in [Deps -> BOOLEAN], releases' \subseteq Deps, ran' \subseteq Images,
         disturbed' \in 0..MaxDisturbances
  PROVE  TypeOK'
<1>1. rec' # Nothing => rec'.mc \in MilvusType /\ rec'.step \in {"apply", "status", "finalize"}
  BY DEF CopyTypes, RecType
<1>2. sync' # Nothing => sync'.mc \in MilvusType /\ sync'.probed \in [Deps -> Answers]
  BY DEF CopyTypes, SyncType
<1> QED
  BY <1>1, <1>2 DEF TypeOK

\* The bound on disturbances.
LEMMA DisturbType ==
  ASSUME TypeOK, Disturb
  PROVE  disturbed' \in 0..MaxDisturbances
BY SMT, ReconcileAssumption DEF TypeOK, Disturb

LEMMA RecordType ==
  ASSUME TypeOK, Record, work' \in WorkType
  PROVE  ran' \subseteq Images
<1>1. work'.image \in Images
  BY DEF WorkType
<1> QED
  BY <1>1 DEF TypeOK, Record

LEMMA AppliedType ==
  ASSUME TypeOK, NEW m \in MilvusType
  PROVE  Applied(m) \in WorkType
<1> DEFINE image == IF work.made /\ ~m.stop /\ m.ordered /\ m.observed < m.gen THEN work.image ELSE m.image
<1>1. image \in Images /\ m.stop \in BOOLEAN /\ work \in WorkType
  BY FieldTypes DEF TypeOK, WorkType
<1>2. Applied(m) = IF ~IsDependencyReady(m) THEN work ELSE [made |-> TRUE, image |-> image, stopped |-> m.stop]
  BY DEF Applied
<1> HIDE DEF image
<1>3. [made |-> TRUE, image |-> image, stopped |-> m.stop] \in WorkType
  BY <1>1 DEF WorkType
<1> QED
  BY <1>1, <1>2, <1>3

\* Steps that write the object.
LEMMA WriteTypes ==
  ASSUME TypeOK, CopyTypes,
         \/ AddFinalizer \/ SetDefaultStatus \/ MarkDeleting \/ DeleteForeground \/ RemoveFinalizer
         \/ (\E i \in Images, stop \in BOOLEAN : Edit(i, stop))
         \/ (\E policy \in {"background", "foreground"} : Delete(policy))
         \/ UpdateStatus \/ FinishSync
  PROVE  TypeOK' /\ CopyTypes'
<1>1. mc' \in MilvusType /\ mc'.observed <= mc'.gen /\ queue' \in BOOLEAN /\ exists' = exists
  BY ObjectWrites
<1>2. UNCHANGED <<work, pods, ran, wseen, up, releases>> /\ rec' \in {rec, Nothing} /\ sync' \in {sync, Nothing}
  BY DEF AddFinalizer, SetDefaultStatus, MarkDeleting, DeleteForeground, RemoveFinalizer, Edit, Delete, UpdateStatus,
     FinishSync, cluster
<1>3. disturbed' = disturbed \/ Disturb
  BY DEF AddFinalizer, SetDefaultStatus, MarkDeleting, DeleteForeground, RemoveFinalizer, Edit, Delete, UpdateStatus,
     FinishSync
<1>4. disturbed' \in 0..MaxDisturbances
  BY <1>3, DisturbType DEF TypeOK
<1>5. CopyTypes'
  BY <1>2 DEF CopyTypes
<1> QED
  BY <1>1, <1>2, <1>4, <1>5, TypeFrame DEF TypeOK

\* Steps of a reconcile and of a round of the status loop.
LEMMA ReconcileTypes ==
  ASSUME TypeOK, CopyTypes,
         \/ StartReconcile \/ ReconcileAll \/ ReconcileFails \/ StartFinalize \/ StartSync
         \/ \E d \in Deps : Uninstall(d) \/ ProbeDependency(d)
  PROVE  TypeOK' /\ CopyTypes'
<1>a. mc \in MilvusType /\ up \in [Deps -> BOOLEAN] /\ releases \subseteq Deps /\ work \in WorkType
  BY DEF TypeOK
<1>1. CASE StartReconcile \/ StartFinalize
  <2>1. rec' \in RecType /\ queue' = FALSE
    <3>1. /\ rec' = [mc |-> mc, step |-> "apply"] \/ rec' = [mc |-> mc, step |-> "finalize"]
          /\ queue' = FALSE
      BY <1>1 DEF StartReconcile, StartFinalize
    <3> QED
      BY SMT, <1>a, <3>1 DEF RecType
  <2>2. UNCHANGED <<exists, mc, sync, work, pods, ran, wseen, up, releases, disturbed>>
    BY <1>1 DEF StartReconcile, StartFinalize, cluster
  <2>3. CopyTypes'
    BY <2>1, <2>2 DEF CopyTypes
  <2> QED
    BY <2>1, <2>2, <2>3, TypeFrame DEF TypeOK
<1>2. CASE ReconcileAll
  <2>1. rec \in RecType /\ rec' = [rec EXCEPT !.step = "status"] /\ work' = Applied(rec.mc) /\ releases' = Deps
    BY <1>2 DEF ReconcileAll, CopyTypes
  <2>2. rec.mc \in MilvusType /\ rec' \in RecType
    BY <2>1 DEF RecType
  <2>3. work' \in WorkType
    BY <2>1, <2>2, AppliedType
  <2>4. UNCHANGED <<exists, mc, queue, sync, pods, wseen, up, disturbed>> /\ Record
    BY <1>2 DEF ReconcileAll, object
  <2>5. ran' \subseteq Images
    BY <2>3, <2>4, RecordType
  <2>6. CopyTypes'
    BY <2>2, <2>4 DEF CopyTypes
  <2> QED
    BY <2>1, <2>3, <2>4, <2>5, <2>6, TypeFrame DEF TypeOK
<1>3. CASE ReconcileFails
  <2>1. rec \in RecType /\ rec' = Nothing /\ queue' = TRUE /\ Disturb
    BY <1>3 DEF ReconcileFails, CopyTypes
  <2>2. rec.mc \in MilvusType
    BY <2>1 DEF RecType
  <2>3. work' \in WorkType /\ releases' \subseteq Deps
    <3>1. Applied(rec.mc) \in WorkType
      BY <2>2, AppliedType
    <3> QED
      BY <1>a, <1>3, <3>1 DEF ReconcileFails
  <2>4. UNCHANGED <<exists, mc, sync, pods, wseen, up>> /\ Record
    BY <1>3 DEF ReconcileFails
  <2>5. ran' \subseteq Images
    BY <2>3, <2>4, RecordType
  <2>6. CopyTypes'
    BY <2>1, <2>4 DEF CopyTypes
  <2>7. disturbed' \in 0..MaxDisturbances
    BY <2>1, DisturbType
  <2> QED
    BY <2>1, <2>3, <2>4, <2>5, <2>6, <2>7, TypeFrame DEF TypeOK
<1>4. CASE StartSync
  <2>1. sync' \in SyncType
    BY <1>a, <1>4 DEF StartSync, SyncType, Absent, Answers
  <2>2. UNCHANGED <<exists, mc, queue, rec, work, pods, ran, wseen, up, releases, disturbed>>
    BY <1>4 DEF StartSync, object, cluster
  <2>3. CopyTypes'
    BY <2>1, <2>2 DEF CopyTypes
  <2> QED
    BY <2>2, <2>3, TypeFrame DEF TypeOK
<1>5. ASSUME NEW d \in Deps, Uninstall(d) PROVE TypeOK' /\ CopyTypes'
  <2>1. /\ releases' \subseteq Deps /\ up' \in [Deps -> BOOLEAN]
        /\ UNCHANGED <<exists, mc, queue, rec, sync, work, pods, ran, wseen, disturbed>>
    BY <1>a, <1>5 DEF Uninstall, object, cluster
  <2>2. CopyTypes'
    BY <2>1 DEF CopyTypes
  <2> QED
    BY <2>1, <2>2, TypeFrame DEF TypeOK
<1>6. ASSUME NEW d \in Deps, ProbeDependency(d) PROVE TypeOK' /\ CopyTypes'
  <2>1. sync \in SyncType
    BY <1>6 DEF ProbeDependency, CopyTypes
  <2>2. sync' \in SyncType
    <3> DEFINE probed == IF up[d] THEN "true" ELSE "false"
    <3>1. sync' = [sync EXCEPT !.probed = [sync.probed EXCEPT ![d] = probed]]
      BY <1>6 DEF ProbeDependency
    <3>2. probed \in Answers
      BY DEF Answers
    <3> HIDE DEF probed
    <3>3. [sync.probed EXCEPT ![d] = probed] \in [Deps -> Answers]
      BY <2>1, <3>2 DEF SyncType
    <3> QED
      BY <2>1, <3>1, <3>3 DEF SyncType
  <2>3. UNCHANGED <<exists, mc, queue, rec, work, pods, ran, wseen, up, releases, disturbed>>
    BY <1>6 DEF ProbeDependency, object, cluster
  <2>4. CopyTypes'
    BY <2>2, <2>3 DEF CopyTypes
  <2> QED
    BY <2>3, <2>4, TypeFrame DEF TypeOK
<1> QED
  BY <1>1, <1>2, <1>3, <1>4, <1>5, <1>6

\* Steps of the cluster and of the caches.
LEMMA ClusterTypes ==
  ASSUME TypeOK, CopyTypes,
         Kubernetes \/ SyncCaches \/ (\E d \in Deps : DepUp(d) \/ DepDown(d)) \/ UNCHANGED vars
  PROVE  TypeOK' /\ CopyTypes'
<1>a. /\ mc \in MilvusType /\ up \in [Deps -> BOOLEAN] /\ releases \subseteq Deps /\ work \in WorkType
      /\ pods \subseteq PodType /\ work.image \in Images
  BY DEF TypeOK, WorkType
<1>b. ASSUME UNCHANGED <<rec, sync>> PROVE CopyTypes'
  BY <1>b DEF CopyTypes
<1>1. CASE Gone
  <2>1. exists' = FALSE /\ UNCHANGED <<mc, queue, rec, sync, work, pods, ran, wseen, up, releases, disturbed>>
    BY <1>1 DEF Gone, cluster
  <2> QED
    BY <1>b, <2>1, TypeFrame DEF TypeOK
<1>2. CASE CollectWorkload
  <2>1. work' \in WorkType /\ UNCHANGED <<exists, mc, queue, rec, sync, pods, ran, wseen, up, releases, disturbed>>
    BY <1>a, <1>2 DEF CollectWorkload, object, WorkType
  <2> QED
    BY <1>b, <2>1, TypeFrame DEF TypeOK
<1>3. CASE StartPod \/ \E p \in pods : PodReady(p) \/ StopPod(p) \/ PodGone(p)
  <2>1. \E new \in SUBSET PodType : Pods(new)
    <3>1. CASE StartPod
      <4>1. [image |-> work.image, state |-> "starting"] \in PodType
        BY <1>a DEF PodType
      <4> QED
        BY <1>a, <3>1, <4>1 DEF StartPod
    <3>2. ASSUME NEW p \in pods, PodReady(p) \/ StopPod(p) \/ PodGone(p) PROVE \E new \in SUBSET PodType : Pods(new)
      <4>1. [p EXCEPT !.state = "ready"] \in PodType /\ [p EXCEPT !.state = "terminating"] \in PodType
        BY <1>a DEF PodType
      <4>2. \/ Pods((pods \ {p}) \cup {[p EXCEPT !.state = "ready"]})
            \/ Pods((pods \ {p}) \cup {[p EXCEPT !.state = "terminating"]})
            \/ Pods(pods \ {p})
        BY <3>2 DEF PodReady, StopPod, PodGone
      <4>3. /\ (pods \ {p}) \cup {[p EXCEPT !.state = "ready"]} \in SUBSET PodType
            /\ (pods \ {p}) \cup {[p EXCEPT !.state = "terminating"]} \in SUBSET PodType
            /\ pods \ {p} \in SUBSET PodType
        BY <1>a, <4>1
      <4> QED
        BY <4>2, <4>3
    <3> QED
      BY <1>3, <3>1, <3>2
  <2> PICK new \in SUBSET PodType : Pods(new)
    BY <2>1
  <2>2. pods' = new /\ UNCHANGED <<exists, mc, queue, rec, sync, work, wseen, up, releases, disturbed>> /\ Record
    BY DEF Pods, object
  <2>3. ran' \subseteq Images
    BY <1>a, <2>2, RecordType
  <2> QED
    BY <1>b, <2>2, <2>3, TypeFrame DEF TypeOK
<1>4. CASE SyncCaches
  <2>1. /\ wseen'.work = work /\ wseen'.pods = pods
        /\ UNCHANGED <<exists, mc, queue, rec, sync, work, pods, ran, up, releases, disturbed>>
    BY <1>4 DEF SyncCaches, object, cluster
  <2> QED
    BY <1>b, <2>1, TypeFrame DEF TypeOK
<1>5. ASSUME NEW d \in Deps, DepUp(d) \/ DepDown(d) PROVE TypeOK' /\ CopyTypes'
  <2>1. up' \in [Deps -> BOOLEAN] /\ UNCHANGED <<exists, mc, queue, rec, sync, work, pods, ran, wseen, releases>>
    BY <1>a, <1>5 DEF DepUp, DepDown, object, cluster
  <2>2. disturbed' \in 0..MaxDisturbances
    BY <1>5, DisturbType DEF DepUp, DepDown, TypeOK
  <2> QED
    BY <1>b, <2>1, <2>2, TypeFrame DEF TypeOK
<1>6. CASE UNCHANGED vars
  <2>1. UNCHANGED <<exists, mc, queue, rec, sync, work, pods, ran, wseen, up, releases, disturbed>>
    BY <1>6 DEF vars
  <2> QED
    BY <1>b, <2>1, TypeFrame DEF TypeOK
<1> QED
  BY <1>1, <1>2, <1>3, <1>4, <1>5, <1>6 DEF Kubernetes

LEMMA TypeStep == TypeOK /\ CopyTypes /\ [Next]_vars => (TypeOK /\ CopyTypes)'
BY WriteTypes, ReconcileTypes, ClusterTypes DEF Next, Reconcile, SyncStatus

LEMMA TypeInit == Init => TypeOK /\ CopyTypes
<1> SUFFICES ASSUME Init PROVE TypeOK /\ CopyTypes
  OBVIOUS
<1>1. First \in Images /\ Absent \in [Deps -> Answers] /\ 0 \in Nat /\ 1 \in Nat
  BY ReconcileAssumption DEF Absent, Answers
<1>2. PICK ordered \in OrderedImages :
        mc = [gen |-> 1, stop |-> FALSE, image |-> First, ordered |-> ordered, finalizer |-> FALSE,
              deletion |-> "none", phase |-> "", observed |-> 0, deps |-> Absent, ready |-> FALSE,
              updated |-> FALSE, current |-> First]
  BY DEF Init
<1>7. ordered \in BOOLEAN
  BY ReconcileAssumption
<1>3. mc \in MilvusType /\ mc.observed = 0 /\ mc.gen = 1
  BY <1>1, <1>2, <1>7 DEF MilvusType
<1>4. work \in WorkType /\ wseen.work = work /\ wseen.pods = pods /\ pods = {}
  BY <1>1 DEF Init, WorkType
<1>5. disturbed \in 0..MaxDisturbances
  <2>1. disturbed = 0
    BY DEF Init
  <2> QED
    BY SMT, <2>1, ReconcileAssumption
<1>6. mc.observed <= mc.gen
  BY SMT, <1>3
<1> QED
  BY <1>3, <1>4, <1>5, <1>6 DEF Init, TypeOK, CopyTypes

\* Types hold in every reachable state of the controller, with conflicts, failed
\* reconciles and copies that are outdated: among others, status.observedGeneration
\* never runs ahead of the generation (UpdateStatusForNewGeneration).
THEOREM ReconcileTypeCorrect == Spec => []TypeOK
<1>1. Spec => [](TypeOK /\ CopyTypes)
  BY TypeInit, TypeStep, PTL DEF Spec
<1> QED
  BY <1>1, PTL

-----------------------------------------------------------------------------
(* Deletion.                                                                *)

\* Steps that write the object.
LEMMA WritesDelete ==
  ASSUME TypeOK, DeletionInv,
         \/ AddFinalizer \/ SetDefaultStatus \/ MarkDeleting \/ DeleteForeground \/ RemoveFinalizer
         \/ (\E i \in Images, stop \in BOOLEAN : Edit(i, stop))
         \/ (\E policy \in {"background", "foreground"} : Delete(policy))
         \/ UpdateStatus \/ FinishSync
  PROVE  CopiesAlive' /\ Released' /\ (mc'.phase = "Deleting" => mc'.deletion # "none")
<1>a. mc \in MilvusType /\ queue \in BOOLEAN /\ CopyTypes
  BY DEF TypeOK, DeletionInv
<1>b. releases' = releases /\ rec' \in {rec, Nothing} /\ sync' \in {sync, Nothing}
  BY DEF AddFinalizer, SetDefaultStatus, MarkDeleting, DeleteForeground, RemoveFinalizer, Edit, Delete, UpdateStatus,
     FinishSync
<1>c. CopiesAlive'
  BY <1>b DEF DeletionInv, CopiesAlive
<1>d. /\ ~mc.finalizer /\ mc.deletion # "none" => releases = {} /\ rec = Nothing
      /\ ~exists => ~mc.finalizer /\ mc.deletion # "none"
      /\ mc.phase = "Deleting" => mc.deletion # "none"
  BY DEF DeletionInv, Released
<1> DEFINE Ok(n) == /\ ~n.finalizer /\ n.deletion # "none" => releases' = {} /\ rec' = Nothing
                    /\ ~exists => ~n.finalizer /\ n.deletion # "none"
                    /\ n.phase = "Deleting" => n.deletion # "none"
<1>e. Ok(mc)
  BY <1>b, <1>d
<1> SUFFICES Ok(mc') /\ exists' = exists
  BY <1>c DEF Released
<1>f. ASSUME NEW m, NEW n, Write(m, n) \/ WriteStatus(m, n), m = mc => Ok(n)
      PROVE  Ok(mc') /\ exists' = exists
  <2>1. exists' = exists /\ (mc' = mc \/ (m = mc /\ mc' = n))
    BY SMT, <1>a, <1>f, WriteFacts
  <2> HIDE DEF Ok
  <2> QED
    BY <1>e, <1>f, <2>1
<1>1. CASE AddFinalizer
  <2> DEFINE n == [mc EXCEPT !.finalizer = TRUE]
  <2>1. exists /\ mc.deletion = "none" /\ Write(mc, n)
    BY <1>1 DEF AddFinalizer, Due
  <2>2. n.deletion = mc.deletion /\ n.phase = mc.phase
    BY <1>a DEF MilvusType
  <2> HIDE DEF n
  <2>3. Ok(n)
    BY <1>d, <2>1, <2>2
  <2> QED
    BY <1>f, <2>1, <2>3
<1>2. CASE SetDefaultStatus
  <2> DEFINE n == [mc EXCEPT !.phase = "Pending", !.current = mc.image]
  <2>1. exists /\ mc.deletion = "none" /\ Write(mc, n)
    BY <1>2 DEF SetDefaultStatus, Due
  <2>2. n.deletion = mc.deletion /\ n.phase = "Pending"
    BY <1>a DEF MilvusType
  <2> HIDE DEF n
  <2>3. Ok(n)
    BY <2>1, <2>2
  <2> QED
    BY <1>f, <2>1, <2>3
<1>3. CASE MarkDeleting
  <2> DEFINE n == [mc EXCEPT !.phase = "Deleting"]
  <2>1. exists /\ mc.deletion # "none" /\ Write(mc, n)
    BY <1>3 DEF MarkDeleting, Deleting, Due
  <2>2. n.deletion = mc.deletion /\ n.finalizer = mc.finalizer
    BY <1>a DEF MilvusType
  <2> HIDE DEF n
  <2>3. Ok(n)
    BY <1>b, <1>d, <2>1, <2>2
  <2> QED
    BY <1>f, <2>1, <2>3
<1>4. CASE DeleteForeground
  <2> DEFINE n == [mc EXCEPT !.deletion = "foreground"]
  <2>1. exists /\ mc.deletion # "none" /\ Write(mc, n)
    BY <1>4 DEF DeleteForeground, Deleting, Due
  <2>2. n.deletion = "foreground" /\ n.finalizer = mc.finalizer
    BY <1>a DEF MilvusType
  <2> HIDE DEF n
  <2>3. Ok(n)
    BY <1>b, <1>d, <2>1, <2>2
  <2> QED
    BY <1>f, <2>1, <2>3
<1>5. CASE RemoveFinalizer
  <2> DEFINE r == rec.mc
             n == [r EXCEPT !.finalizer = FALSE]
  <2>1. releases = {} /\ rec' = Nothing /\ Write(r, n)
    BY <1>5 DEF RemoveFinalizer
  <2> HIDE DEF r
  <2>2. r = mc => n.deletion = mc.deletion /\ n.phase = mc.phase /\ n.finalizer = FALSE
    BY <1>a DEF MilvusType
  <2> HIDE DEF n
  <2>3. r = mc => Ok(n)
    BY <1>b, <1>d, <2>1, <2>2
  <2> QED
    BY <1>f, <2>1, <2>3
<1>6. ASSUME NEW i \in Images, NEW stop \in BOOLEAN, Edit(i, stop) PROVE Ok(mc') /\ exists' = exists
  <2> DEFINE n == [mc EXCEPT !.gen = mc.gen + 1, !.image = i, !.stop = stop]
  <2>1. exists /\ mc.deletion = "none" /\ Write(mc, n)
    BY <1>6 DEF Edit
  <2>2. n.deletion = mc.deletion /\ n.phase = mc.phase
    BY <1>a DEF MilvusType
  <2> HIDE DEF n
  <2>3. Ok(n)
    BY <1>d, <2>1, <2>2
  <2> QED
    BY <1>f, <2>1, <2>3
<1>7. ASSUME NEW policy \in {"background", "foreground"}, Delete(policy) PROVE Ok(mc') /\ exists' = exists
  <2> DEFINE n == [mc EXCEPT !.deletion = policy]
  <2>1. exists /\ mc.finalizer /\ Write(mc, n)
    BY <1>7 DEF Delete
  <2>2. n.deletion = policy /\ n.finalizer = mc.finalizer
    BY <1>a DEF MilvusType
  <2> HIDE DEF n
  <2>3. policy # "none"
    OBVIOUS
  <2>4. Ok(n)
    BY <2>1, <2>2, <2>3
  <2> QED
    BY <1>f, <2>1, <2>4
<1>8. CASE UpdateStatus \/ FinishSync
  <2>1. PICK m \in MilvusType, deps \in [Deps -> Answers] : WriteStatus(m, NewStatus(m, deps, wseen))
    BY <1>a, <1>8, FieldTypes DEF UpdateStatus, FinishSync, CopyTypes, RecType, SyncType
  <2> DEFINE n == NewStatus(m, deps, wseen)
  <2>2. n.deletion = m.deletion /\ n.finalizer = m.finalizer /\ n.phase # "Deleting"
    BY NewStatusFacts
  <2> HIDE DEF n
  <2>3. m = mc => Ok(n)
    BY <1>b, <1>d, <2>2
  <2>4. WriteStatus(m, n)
    BY <2>1 DEF n
  <2> QED
    BY <1>f, <2>3, <2>4
<1> QED
  BY <1>1, <1>2, <1>3, <1>4, <1>5, <1>6, <1>7, <1>8

\* The other steps.
LEMMA OthersDelete ==
  ASSUME TypeOK, DeletionInv,
         \/ StartReconcile \/ ReconcileAll \/ ReconcileFails \/ StartFinalize \/ StartSync
         \/ (\E d \in Deps : Uninstall(d) \/ ProbeDependency(d) \/ DepUp(d) \/ DepDown(d))
         \/ Kubernetes \/ SyncCaches \/ UNCHANGED vars
  PROVE  CopiesAlive' /\ Released' /\ (mc'.phase = "Deleting" => mc'.deletion # "none")
<1>a. CopyTypes /\ CopiesAlive /\ Released /\ (mc.phase = "Deleting" => mc.deletion # "none")
  BY DEF DeletionInv
<1>b. mc' = mc
  BY DEF StartReconcile, ReconcileAll, ReconcileFails, StartFinalize, StartSync, Uninstall, ProbeDependency, DepUp,
     DepDown, Kubernetes, Gone, CollectWorkload, StartPod, PodReady, StopPod, PodGone, Pods, SyncCaches, vars, object
<1> SUFFICES CopiesAlive' /\ Released'
  BY <1>a, <1>b
<1>1. CASE StartReconcile
  <2>1. /\ rec' = [mc |-> mc, step |-> "apply"] /\ exists /\ mc.deletion = "none"
        /\ UNCHANGED <<sync, exists>>
    BY <1>1 DEF StartReconcile, Due
  <2> QED
    BY <1>a, <1>b, <2>1 DEF CopiesAlive, Released
<1>2. CASE StartFinalize
  <2>1. rec' = [mc |-> mc, step |-> "finalize"] /\ exists /\ mc.finalizer /\ UNCHANGED <<sync, exists>>
    BY <1>2 DEF StartFinalize, Deleting, Due
  <2> QED
    BY <1>a, <1>b, <2>1 DEF CopiesAlive, Released
<1>3. CASE ReconcileAll
  <2>1. /\ rec # Nothing /\ rec.step = "apply" /\ rec' = [rec EXCEPT !.step = "status"]
        /\ UNCHANGED <<sync, exists>>
    BY <1>3 DEF ReconcileAll, object
  <2>2. rec'.mc = rec.mc
    BY <1>a, <2>1 DEF CopyTypes, RecType
  <2> QED
    BY <1>a, <1>b, <2>1, <2>2 DEF CopiesAlive, Released
<1>4. CASE ReconcileFails
  BY <1>a, <1>b, <1>4 DEF ReconcileFails, CopiesAlive, Released
<1>5. ASSUME NEW d \in Deps, Uninstall(d) PROVE CopiesAlive' /\ Released'
  BY <1>a, <1>b, <1>5 DEF Uninstall, object, CopiesAlive, Released
<1>6. CASE StartSync
  <2>1. sync' = [mc |-> mc, probed |-> Absent] /\ mc.deletion = "none" /\ UNCHANGED <<rec, exists, releases>>
    BY <1>6 DEF StartSync, object
  <2> QED
    BY <1>a, <1>b, <2>1 DEF CopiesAlive, Released
<1>7. ASSUME NEW d \in Deps, ProbeDependency(d) PROVE CopiesAlive' /\ Released'
  <2>1. sync # Nothing /\ sync'.mc = sync.mc /\ UNCHANGED <<rec, exists, releases>>
    BY <1>a, <1>7 DEF ProbeDependency, object, CopyTypes, SyncType
  <2> QED
    BY <1>a, <1>b, <2>1 DEF CopiesAlive, Released
<1>8. CASE Gone
  BY <1>a, <1>8 DEF Gone, CopiesAlive, Released
<1>9. CASE \/ CollectWorkload \/ StartPod \/ (\E p \in pods : PodReady(p) \/ StopPod(p) \/ PodGone(p))
           \/ (\E d \in Deps : DepUp(d) \/ DepDown(d)) \/ SyncCaches \/ UNCHANGED vars
  <2>1. UNCHANGED <<mc, rec, sync, exists, releases>>
    BY <1>9 DEF CollectWorkload, StartPod, PodReady, StopPod, PodGone, Pods, DepUp, DepDown, SyncCaches, vars, object
  <2> QED
    BY <1>a, <2>1 DEF CopiesAlive, Released
<1> QED
  BY <1>1, <1>2, <1>3, <1>4, <1>5, <1>6, <1>7, <1>8, <1>9 DEF Kubernetes

LEMMA DeletionAlways == Spec => [](TypeOK /\ DeletionInv)
<1>1. Init => TypeOK /\ DeletionInv
  <2> SUFFICES ASSUME Init PROVE TypeOK /\ DeletionInv
    OBVIOUS
  <2>1. TypeOK /\ CopyTypes
    BY TypeInit
  <2>2. exists /\ rec = Nothing /\ sync = Nothing
    BY DEF Init
  <2>3. mc.deletion = "none" /\ mc.phase # "Deleting"
    <3>1. PICK ordered \in OrderedImages :
            mc = [gen |-> 1, stop |-> FALSE, image |-> First, ordered |-> ordered, finalizer |-> FALSE,
                  deletion |-> "none", phase |-> "", observed |-> 0, deps |-> Absent, ready |-> FALSE,
                  updated |-> FALSE, current |-> First]
      BY DEF Init
    <3> QED
      BY <3>1
  <2> QED
    BY <2>1, <2>2, <2>3 DEF DeletionInv, CopiesAlive, Released
<1>2. TypeOK /\ DeletionInv /\ [Next]_vars => (TypeOK /\ DeletionInv)'
  <2> SUFFICES ASSUME TypeOK, DeletionInv, [Next]_vars PROVE TypeOK' /\ DeletionInv'
    OBVIOUS
  <2>1. TypeOK' /\ CopyTypes'
    BY TypeStep DEF DeletionInv
  <2>2. CopiesAlive' /\ Released' /\ (mc'.phase = "Deleting" => mc'.deletion # "none")
    BY WritesDelete, OthersDelete DEF Next, Reconcile, SyncStatus
  <2> QED
    BY <2>1, <2>2 DEF DeletionInv
<1> QED
  BY <1>1, <1>2, PTL DEF Spec

\* The finalizer holds the object until every release of its dependencies is
\* uninstalled (Finalize), and no reconcile that started earlier, failed halfway
\* or works on an outdated copy installs one again: for every set of dependencies.
THEOREM GoneIsUninstalled == Spec => []GoneMeansUninstalled
<1>1. TypeOK /\ DeletionInv => GoneMeansUninstalled
  BY DEF DeletionInv, Released, GoneMeansUninstalled
<1> QED
  BY <1>1, DeletionAlways, PTL

\* Once the phase is Deleting it stays (MarkDeleting): no late round of the status
\* loop and no reconcile, which both write a status they computed earlier, brings
\* another phase back.
THEOREM DeletingStaysFinal == Spec => DeletingIsFinal
<1>1. TypeOK /\ DeletionInv /\ [Next]_vars => [mc.phase = "Deleting" => mc'.phase = "Deleting"]_vars
  <2> SUFFICES ASSUME TypeOK, DeletionInv, Next, mc.phase = "Deleting" PROVE mc'.phase = "Deleting"
    OBVIOUS
  <2>a. mc \in MilvusType /\ queue \in BOOLEAN /\ CopyTypes /\ CopiesAlive /\ mc.deletion # "none"
    BY DEF TypeOK, DeletionInv
  <2>1. CASE AddFinalizer \/ SetDefaultStatus \/ (\E i \in Images, stop \in BOOLEAN : Edit(i, stop))
             \/ \E policy \in {"background", "foreground"} : Delete(policy)
    BY <2>a, <2>1 DEF AddFinalizer, SetDefaultStatus, Edit, Delete
  <2>2. CASE MarkDeleting
    BY <2>2 DEF MarkDeleting
  <2>3. CASE DeleteForeground
    <3> DEFINE n == [mc EXCEPT !.deletion = "foreground"]
    <3>1. Write(mc, n)
      BY <2>3 DEF DeleteForeground
    <3>2. n.phase = mc.phase
      BY <2>a DEF MilvusType
    <3> HIDE DEF n
    <3> QED
      BY SMT, <2>a, <3>1, <3>2, WriteFacts
  <2>4. CASE RemoveFinalizer
    <3> DEFINE r == rec.mc
               n == [r EXCEPT !.finalizer = FALSE]
    <3>1. Write(r, n)
      BY <2>4 DEF RemoveFinalizer
    <3> HIDE DEF r
    <3>2. r = mc => n.phase = mc.phase
      BY <2>a DEF MilvusType
    <3> HIDE DEF n
    <3> QED
      BY SMT, <2>a, <3>1, <3>2, WriteFacts
  <2>5. CASE UpdateStatus \/ FinishSync
    <3>1. PICK m, n : WriteStatus(m, n) /\ m.deletion = "none"
      BY <2>a, <2>5 DEF UpdateStatus, FinishSync, CopiesAlive
    <3> QED
      BY SMT, <2>a, <3>1, WriteFacts
  <2>6. CASE \/ StartReconcile \/ ReconcileAll \/ ReconcileFails \/ StartFinalize \/ StartSync
             \/ (\E d \in Deps : Uninstall(d) \/ ProbeDependency(d) \/ DepUp(d) \/ DepDown(d))
             \/ Kubernetes \/ SyncCaches
    <3>1. mc' = mc
      BY <2>6 DEF StartReconcile, ReconcileAll, ReconcileFails, StartFinalize, StartSync, Uninstall, ProbeDependency,
         DepUp, DepDown, Kubernetes, Gone, CollectWorkload, StartPod, PodReady, StopPod, PodGone, Pods, SyncCaches, object
    <3> QED
      BY <3>1
  <2> QED
    BY <2>1, <2>2, <2>3, <2>4, <2>5, <2>6 DEF Next, Reconcile, SyncStatus
<1>2. Spec => [](TypeOK /\ DeletionInv) /\ [][Next]_vars
  BY DeletionAlways, PTL DEF Spec
<1> QED
  BY <1>1, <1>2, PTL DEF DeletingIsFinal

-----------------------------------------------------------------------------
(* status.currentImage.                                                     *)

\* A step of the workload or its pods puts on record what runs completely.
LEMMA RecordFacts ==
  ASSUME Record
  PROVE  ran \subseteq ran' /\ Recorded([work |-> work, pods |-> pods])'
BY DEF Record, Recorded

\* What is on record stays there, and the caches show what was the case.
LEMMA RanStep ==
  ASSUME RanInv, [Next]_vars
  PROVE  RanInv'
<1> DEFINE now == [work |-> work, pods |-> pods]
<1>1. CASE ReconcileAll \/ ReconcileFails \/ StartPod \/ \E p \in pods : PodReady(p) \/ StopPod(p) \/ PodGone(p)
  <2>1. Record /\ wseen' = wseen
    BY <1>1 DEF ReconcileAll, ReconcileFails, StartPod, PodReady, StopPod, PodGone, Pods
  <2>2. Recorded(wseen)'
    BY <2>1, RecordFacts DEF RanInv, Recorded
  <2> QED
    BY <2>1, <2>2, RecordFacts DEF RanInv
<1>2. CASE CollectWorkload
  <2>1. work'.stopped \/ work' = work
    BY SMT, <1>2 DEF CollectWorkload
  <2>2. UNCHANGED <<pods, ran, wseen>>
    BY <1>2 DEF CollectWorkload
  <2> QED
    BY <2>1, <2>2 DEF RanInv, Recorded
<1>3. CASE SyncCaches
  <2>1. wseen' = now /\ UNCHANGED <<work, pods, ran>>
    BY <1>3 DEF SyncCaches, cluster
  <2> QED
    BY <2>1 DEF RanInv, Recorded
<1>4. CASE \/ AddFinalizer \/ SetDefaultStatus \/ MarkDeleting \/ DeleteForeground \/ RemoveFinalizer
           \/ (\E i \in Images, stop \in BOOLEAN : Edit(i, stop))
           \/ (\E policy \in {"background", "foreground"} : Delete(policy))
           \/ UpdateStatus \/ FinishSync \/ StartReconcile \/ StartFinalize \/ StartSync \/ Gone
           \/ (\E d \in Deps : Uninstall(d) \/ ProbeDependency(d) \/ DepUp(d) \/ DepDown(d)) \/ UNCHANGED vars
  <2>1. UNCHANGED <<work, pods, ran, wseen>>
    BY <1>4 DEF AddFinalizer, SetDefaultStatus, MarkDeleting, DeleteForeground, RemoveFinalizer, Edit, Delete,
       UpdateStatus, FinishSync, StartReconcile, StartFinalize, StartSync, Gone, Uninstall, ProbeDependency, DepUp,
       DepDown, vars, cluster
  <2> QED
    BY <2>1 DEF RanInv, Recorded
<1> QED
  BY <1>1, <1>2, <1>3, <1>4 DEF Next, Reconcile, SyncStatus, Kubernetes

\* In the modes rollingUpgrade and rollingDowngrade, status.currentImage moves on
\* only to an image that the workload has run completely
\* (UpdateStatusForNewGeneration takes it from the spec), however old the caches
\* and the copies are, dependencies that hold the workload back included.
THEOREM CurrentImageHasRun == Spec => CurrentImageRan
<1>1. Init => RanInv
  <2> SUFFICES ASSUME Init PROVE RanInv
    OBVIOUS
  <2>1. pods = {} /\ wseen = [work |-> work, pods |-> pods] /\ work.stopped = FALSE
    BY DEF Init
  <2> HIDE DEF Init
  <2>2. ~Complete([work |-> work, pods |-> pods])
    BY <2>1 DEF Complete, Running
  <2> QED
    BY <2>1, <2>2 DEF RanInv, Recorded
<1>2. Spec => [](TypeOK /\ DeletionInv /\ RanInv) /\ [][Next]_vars
  BY <1>1, RanStep, DeletionAlways, PTL DEF Spec
<1>3. TypeOK /\ DeletionInv /\ RanInv /\ [Next]_vars
        => [mc'.current # mc.current /\ mc.phase # "" /\ mc.ordered /\ ~wseen.work.stopped
              => mc'.current \in ran]_vars
  <2> SUFFICES ASSUME TypeOK, DeletionInv, RanInv, Next, mc'.current # mc.current, ~SetDefaultStatus,
                      mc.ordered, ~wseen.work.stopped
               PROVE  mc'.current \in ran
    BY DEF SetDefaultStatus
  <2>a. mc \in MilvusType /\ queue \in BOOLEAN /\ CopyTypes
    BY DEF TypeOK, DeletionInv
  <2>b. ASSUME NEW m, NEW n, Write(m, n), m = mc => n.current = mc.current PROVE FALSE
    BY SMT, <2>a, <2>b, WriteFacts
  <2>1. CASE AddFinalizer \/ MarkDeleting \/ DeleteForeground
             \/ (\E i \in Images, stop \in BOOLEAN : Edit(i, stop))
             \/ \E policy \in {"background", "foreground"} : Delete(policy)
    <3>1. PICK n : Write(mc, n) /\ n.current = mc.current
      <4>1. CASE AddFinalizer \/ MarkDeleting \/ DeleteForeground
        <5>1. /\ [mc EXCEPT !.finalizer = TRUE].current = mc.current
              /\ [mc EXCEPT !.phase = "Deleting"].current = mc.current
              /\ [mc EXCEPT !.deletion = "foreground"].current = mc.current
          BY <2>a DEF MilvusType
        <5> QED
          BY <4>1, <5>1 DEF AddFinalizer, MarkDeleting, DeleteForeground
      <4>2. ASSUME NEW i \in Images, NEW stop \in BOOLEAN, Edit(i, stop)
            PROVE  \E n : Write(mc, n) /\ n.current = mc.current
        <5> DEFINE n == [mc EXCEPT !.gen = mc.gen + 1, !.image = i, !.stop = stop]
        <5>1. n.current = mc.current
          BY <2>a DEF MilvusType
        <5>2. Write(mc, n)
          BY <4>2 DEF Edit
        <5> QED
          BY <5>1, <5>2
      <4>3. ASSUME NEW policy \in {"background", "foreground"}, Delete(policy)
            PROVE  \E n : Write(mc, n) /\ n.current = mc.current
        <5> DEFINE n == [mc EXCEPT !.deletion = policy]
        <5>1. n.current = mc.current
          BY <2>a DEF MilvusType
        <5>2. Write(mc, n)
          BY <4>3 DEF Delete
        <5> QED
          BY <5>1, <5>2
      <4> QED
        BY <2>1, <4>1, <4>2, <4>3
    <3> QED
      BY <2>b, <3>1
  <2>2. CASE RemoveFinalizer
    <3> DEFINE r == rec.mc
               n == [r EXCEPT !.finalizer = FALSE]
    <3>1. Write(r, n)
      BY <2>2 DEF RemoveFinalizer
    <3> HIDE DEF r
    <3>2. r = mc => n.current = mc.current
      BY <2>a DEF MilvusType
    <3> HIDE DEF n
    <3> QED
      BY <2>b, <3>1, <3>2
  <2>3. CASE UpdateStatus \/ FinishSync
    <3>1. PICK m \in MilvusType, deps \in [Deps -> Answers] : WriteStatus(m, NewStatus(m, deps, wseen))
      BY <2>a, <2>3, FieldTypes DEF UpdateStatus, FinishSync, CopyTypes, RecType, SyncType
    <3> DEFINE n == NewStatus(m, deps, wseen)
    <3>2. n.current # m.current => n.current = m.image /\ GetMilvusUpdatedCondition(m, wseen)
      BY NewStatusFacts
    <3> HIDE DEF n
    <3>3. WriteStatus(m, n)
      BY <3>1 DEF n
    <3>4. m = mc /\ mc' = n
      BY SMT, <2>a, <3>3, WriteFacts
    <3>5. mc'.current = m.image /\ wseen.work.image = m.image /\ Complete(wseen)
      BY <3>2, <3>4 DEF GetMilvusUpdatedCondition
    <3> QED
      BY <3>5 DEF RanInv, Recorded
  <2>4. CASE \/ StartReconcile \/ ReconcileAll \/ ReconcileFails \/ StartFinalize \/ StartSync
             \/ (\E d \in Deps : Uninstall(d) \/ ProbeDependency(d) \/ DepUp(d) \/ DepDown(d))
             \/ Kubernetes \/ SyncCaches
    <3>1. mc' = mc
      BY <2>4 DEF StartReconcile, ReconcileAll, ReconcileFails, StartFinalize, StartSync, Uninstall, ProbeDependency,
         DepUp, DepDown, Kubernetes, Gone, CollectWorkload, StartPod, PodReady, StopPod, PodGone, Pods, SyncCaches, object
    <3> QED
      BY <3>1
  <2> QED
    BY <2>1, <2>2, <2>3, <2>4 DEF Next, Reconcile, SyncStatus
<1> QED
  BY <1>2, <1>3, PTL DEF CurrentImageRan

-----------------------------------------------------------------------------
(***************************************************************************)
(* The cache through which the status loops probe.  How far the lock of    *)
(* TryStartProbeFor excludes, for any number of instances and              *)
(* dependencies.  The argument counts: a prober that probes took a free    *)
(* lock, so probers that probe and free locks together are never more than *)
(* the locks that were allocated.                                          *)
(***************************************************************************)

\* The locks of e whose value is 0.
Free(e) == LocksOf(e) \ locked

\* A lock in the cache, or in hand, was allocated for the same endpoints; a
\* prober that is about to allocate one has not allocated any.
LocksKnown ==
  /\ \A e \in Endpoints : lockOf[e] # None => lockOf[e] \in LocksOf(e)
  /\ \A p \in Probers : pc[p] \in {"swap", "unlock"} => hand[p] \in LocksOf(Target[p])
  /\ \A p \in Probers : pc[p] \in {"again", "probe", "set", "end"} => lockOf[Target[p]] # None
  /\ \A p \in made : lockOf[Target[p]] # None /\ pc[p] # "install"

\* The count.
Counted ==
  \A e \in Endpoints : Cardinality(Probing(e)) + Cardinality(Free(e)) <= Cardinality(LocksOf(e))

CacheInv == CacheTypeOK /\ LocksKnown /\ Counted

-----------------------------------------------------------------------------
\* The type invariant holds when the operator starts and after every step.
LEMMA InitType == CacheInit => CacheTypeOK
BY CacheAssumption DEF CacheInit, CacheTypeOK, Steps, Conditions

\* Every step of GetCondition and of its surroundings keeps the types.
LEMMA NextType == CacheTypeOK /\ LocksKnown /\ [CacheNext]_cacheVars => CacheTypeOK'
<1> SUFFICES ASSUME CacheTypeOK, LocksKnown, [CacheNext]_cacheVars PROVE CacheTypeOK'
  OBVIOUS
<1> USE CacheAssumption DEF CacheTypeOK, Steps, Conditions
<1>1. ASSUME NEW l \in Loops, StartRound(l) PROVE CacheTypeOK'
  BY <1>1 DEF StartRound
<1>2. ASSUME NEW p \in Probers, GetCondition(p) PROVE CacheTypeOK'
  <2>1. CASE LookupLock(p)
    BY <2>1 DEF LookupLock, Goto
  <2>2. CASE InstallLock(p)
    BY <2>2 DEF InstallLock, Goto
  <2>3. CASE LookupAgain(p)
    BY <2>3 DEF LookupAgain, Goto
  <2>4. CASE CompareAndSwap(p)
    BY SMT, <2>4 DEF CompareAndSwap, Goto, LocksKnown, At, LocksOf
  <2>5. CASE GetCached(p)
    BY <2>5 DEF GetCached, Goto
  <2>6. CASE BackedOff(p)
    BY <2>6 DEF BackedOff, Goto
  <2>7. CASE Probe(p)
    BY <2>7 DEF Probe, Goto
  <2>8. CASE SetCondition(p)
    BY <2>8 DEF SetCondition, Goto
  <2>9. CASE EndProbe(p)
    BY <2>9 DEF EndProbe, Goto
  <2>10. CASE Unlock(p)
    BY <2>10 DEF Unlock, Goto
  <2>11. QED
    BY <1>2, <2>1, <2>2, <2>3, <2>4, <2>5, <2>6, <2>7, <2>8, <2>9, <2>10 DEF GetCondition
<1>3. ASSUME NEW e \in Endpoints, HealthChanges(e) PROVE CacheTypeOK'
  BY <1>3 DEF HealthChanges
<1>4. CASE UNCHANGED cacheVars
  BY <1>4 DEF cacheVars
<1>5. QED
  BY <1>1, <1>2, <1>3, <1>4 DEF CacheNext

\* The locks in the cache and in hand stay known: allocated locks are never
\* forgotten, and a list of endpoints that has a lock in the cache keeps one.
LEMMA NextLocksKnown == CacheTypeOK /\ LocksKnown /\ [CacheNext]_cacheVars => LocksKnown'
<1> SUFFICES ASSUME CacheTypeOK, LocksKnown, [CacheNext]_cacheVars PROVE LocksKnown'
  OBVIOUS
<1> USE CacheAssumption DEF CacheTypeOK, LocksKnown, LocksOf
<1>1. ASSUME NEW l \in Loops, StartRound(l) PROVE LocksKnown'
  BY <1>1 DEF StartRound, At
<1>2. ASSUME NEW p \in Probers, GetCondition(p) PROVE LocksKnown'
  <2>1. CASE LookupLock(p)
    BY SMT, <2>1 DEF LookupLock, Goto, At
  <2>2. CASE InstallLock(p)
    BY SMT, <2>2 DEF InstallLock, Goto, At
  <2>3. CASE LookupAgain(p)
    BY SMT, <2>3 DEF LookupAgain, Goto, At
  <2>4. CASE CompareAndSwap(p)
    BY SMT, <2>4 DEF CompareAndSwap, Goto, At
  <2>5. CASE GetCached(p)
    BY <2>5 DEF GetCached, Goto, At
  <2>6. CASE BackedOff(p)
    BY <2>6 DEF BackedOff, Goto, At
  <2>7. CASE Probe(p)
    BY <2>7 DEF Probe, Goto, At
  <2>8. CASE SetCondition(p)
    BY <2>8 DEF SetCondition, Goto, At
  <2>9. CASE EndProbe(p)
    BY SMT, <2>9 DEF EndProbe, Goto, At
  <2>10. CASE Unlock(p)
    BY <2>10 DEF Unlock, Goto, At
  <2>11. QED
    BY <1>2, <2>1, <2>2, <2>3, <2>4, <2>5, <2>6, <2>7, <2>8, <2>9, <2>10 DEF GetCondition
<1>3. ASSUME NEW e \in Endpoints, HealthChanges(e) PROVE LocksKnown'
  BY <1>3 DEF HealthChanges
<1>4. CASE UNCHANGED cacheVars
  BY <1>4 DEF cacheVars
<1>5. QED
  BY <1>1, <1>2, <1>3, <1>4 DEF CacheNext

\* The sets that are counted are finite.
LEMMA FiniteCounts ==
  ASSUME CacheTypeOK, NEW e \in Endpoints
  PROVE  /\ IsFiniteSet(Probing(e)) /\ IsFiniteSet(Free(e)) /\ IsFiniteSet(LocksOf(e))
         /\ Cardinality(Probing(e)) \in Nat /\ Cardinality(Free(e)) \in Nat
         /\ Cardinality(LocksOf(e)) \in Nat
<1>1. Probing(e) \in SUBSET Probers /\ Free(e) \in SUBSET Probers /\ LocksOf(e) \in SUBSET Probers
  BY DEF CacheTypeOK, Probing, Free, LocksOf
<1>2. IsFiniteSet(Probing(e)) /\ IsFiniteSet(Free(e)) /\ IsFiniteSet(LocksOf(e))
  BY <1>1, CacheAssumption, FS_Subset
<1>3. QED
  BY <1>2, FS_CardinalityType

\* The three ways in which a step changes the count for e: a lock is allocated,
\* a prober takes a free lock, a prober ends and perhaps frees a lock.
LEMMA CountStep ==
  ASSUME NEW P, NEW F, NEW L, NEW p, NEW h,
         IsFiniteSet(P), IsFiniteSet(F), IsFiniteSet(L),
         Cardinality(P) \in Nat, Cardinality(F) \in Nat, Cardinality(L) \in Nat,
         Cardinality(P) + Cardinality(F) <= Cardinality(L)
  PROVE  /\ p \notin L => Cardinality(P) + Cardinality(F \cup {p}) <= Cardinality(L \cup {p})
         /\ h \in F => Cardinality(P \cup {p}) + Cardinality(F \ {h}) <= Cardinality(L)
         /\ p \in P => Cardinality(P \ {p}) + Cardinality(F \cup {h}) <= Cardinality(L)
         /\ p \in P => Cardinality(P \ {p}) + Cardinality(F) <= Cardinality(L)
<1>1. Cardinality(F \cup {p}) = IF p \in F THEN Cardinality(F) ELSE Cardinality(F) + 1
  BY FS_AddElement
<1>2. Cardinality(F \cup {h}) = IF h \in F THEN Cardinality(F) ELSE Cardinality(F) + 1
  BY FS_AddElement
<1>3. Cardinality(P \cup {p}) = IF p \in P THEN Cardinality(P) ELSE Cardinality(P) + 1
  BY FS_AddElement
<1>4. p \notin L => Cardinality(L \cup {p}) = Cardinality(L) + 1
  BY FS_AddElement
<1>5. h \in F => Cardinality(F \ {h}) = Cardinality(F) - 1
  BY FS_RemoveElement
<1>6. p \in P => Cardinality(P \ {p}) = Cardinality(P) - 1
  BY FS_RemoveElement
<1>7. QED
  BY SMT, <1>1, <1>2, <1>3, <1>4, <1>5, <1>6

\* Every step keeps the count.
LEMMA NextCounted == CacheInv /\ [CacheNext]_cacheVars => Counted'
<1> SUFFICES ASSUME CacheInv, [CacheNext]_cacheVars, NEW e \in Endpoints
             PROVE  (Cardinality(Probing(e)) + Cardinality(Free(e)) <= Cardinality(LocksOf(e)))'
  BY DEF Counted
<1> DEFINE Count == Cardinality(Probing(e)) + Cardinality(Free(e)) <= Cardinality(LocksOf(e))
           Quiet == Probing(e)' = Probing(e) /\ Free(e)' = Free(e) /\ LocksOf(e)' = LocksOf(e)
<1> USE DEF CacheInv
<1>1. Count
  BY DEF Counted
<1>2. /\ IsFiniteSet(Probing(e)) /\ IsFiniteSet(Free(e)) /\ IsFiniteSet(LocksOf(e))
      /\ Cardinality(Probing(e)) \in Nat /\ Cardinality(Free(e)) \in Nat
      /\ Cardinality(LocksOf(e)) \in Nat
  BY FiniteCounts
<1>3. Quiet => Count'
  BY <1>1
<1>4. ASSUME NEW l \in Loops, StartRound(l) PROVE Count'
  <2>1. Quiet
    BY <1>4 DEF StartRound, At, Probing, Free, LocksOf, CacheTypeOK
  <2>2. QED
    BY <2>1, <1>3
<1>5. ASSUME NEW p \in Probers, GetCondition(p) PROVE Count'
  <2>1. Target[p] # e => Quiet
    <3>1. Target[p] # e => Probing(e)' = Probing(e)
      <4>1. CASE LookupLock(p) \/ InstallLock(p) \/ LookupAgain(p) \/ CompareAndSwap(p)
        BY SMT, <4>1 DEF Probing, CacheTypeOK, Goto, LookupLock, InstallLock, LookupAgain, CompareAndSwap
      <4>2. CASE GetCached(p) \/ BackedOff(p) \/ Probe(p)
        BY SMT, <4>2 DEF Probing, CacheTypeOK, Goto, GetCached, BackedOff, Probe
      <4>3. CASE SetCondition(p) \/ EndProbe(p) \/ Unlock(p)
        BY SMT, <4>3 DEF Probing, CacheTypeOK, Goto, SetCondition, EndProbe, Unlock
      <4>4. QED
        BY <1>5, <4>1, <4>2, <4>3 DEF GetCondition
    <3>2. Target[p] # e => LocksOf(e)' = LocksOf(e)
      BY <1>5 DEF GetCondition, LocksOf, LookupLock, InstallLock, LookupAgain,
                  CompareAndSwap, GetCached, BackedOff, Probe, SetCondition, EndProbe, Unlock
    <3>3. Target[p] # e => \A q \in LocksOf(e) : q \in locked' <=> q \in locked
      <4>1. CASE LookupLock(p) \/ InstallLock(p) \/ LookupAgain(p) \/ GetCached(p) \/ BackedOff(p) \/ Probe(p)
                   \/ SetCondition(p) \/ EndProbe(p)
        BY <4>1 DEF LookupLock, InstallLock, LookupAgain, GetCached, BackedOff, Probe, SetCondition, EndProbe
      <4>2. CASE CompareAndSwap(p)
        BY SMT, <4>2 DEF LocksOf, LocksKnown, At, CompareAndSwap
      <4>3. CASE Unlock(p)
        BY SMT, <4>3 DEF LocksOf, LocksKnown, At, Unlock
      <4>4. QED
        BY <1>5, <4>1, <4>2, <4>3 DEF GetCondition
    <3>4. QED
      BY <3>1, <3>2, <3>3 DEF Free
  <2>2. CASE Target[p] # e
    BY <2>1, <2>2, <1>3
  <2>3. CASE Target[p] = e /\ (LookupLock(p) \/ LookupAgain(p) \/ GetCached(p) \/ BackedOff(p) \/ Probe(p) \/ SetCondition(p))
    <3>1. Probing(e)' = Probing(e)
      BY <2>3 DEF Probing, CacheTypeOK, Goto, At, LookupLock, LookupAgain, GetCached, BackedOff, Probe, SetCondition
    <3>2. Free(e)' = Free(e) /\ LocksOf(e)' = LocksOf(e)
      BY <2>3 DEF Free, LocksOf, LookupLock, LookupAgain, GetCached, BackedOff, Probe, SetCondition
    <3>3. QED
      BY <3>1, <3>2, <1>3
  <2>4. CASE Target[p] = e /\ InstallLock(p)
    <3>1. Probing(e)' = Probing(e)
      BY <2>4 DEF Probing, CacheTypeOK, Goto, At, InstallLock
    <3>2. p \notin made /\ p \notin locked
      BY <2>4 DEF InstallLock, At, LocksKnown, CacheTypeOK
    <3>3. LocksOf(e)' = LocksOf(e) \cup {p} /\ Free(e)' = Free(e) \cup {p} /\ p \notin LocksOf(e)
      BY <2>4, <3>2 DEF InstallLock, LocksOf, Free
    <3>4. QED
      BY <1>1, <1>2, <3>1, <3>3, CountStep
  <2>5. CASE Target[p] = e /\ CompareAndSwap(p)
    <3>1. hand[p] \in LocksOf(e)
      BY <2>5 DEF CompareAndSwap, At, LocksKnown
    <3>2. CASE hand[p] \in locked
      <4>1. Quiet
        BY <2>5, <3>2 DEF CompareAndSwap, At, Goto, Probing, Free, LocksOf, CacheTypeOK
      <4>2. QED
        BY <4>1, <1>3
    <3>3. CASE hand[p] \notin locked
      <4>1. Probing(e)' = Probing(e) \cup {p}
        BY <2>5, <3>3 DEF CompareAndSwap, At, Goto, Probing, CacheTypeOK
      <4>2. LocksOf(e)' = LocksOf(e) /\ Free(e)' = Free(e) \ {hand[p]} /\ hand[p] \in Free(e)
        BY <2>5, <3>1, <3>3 DEF CompareAndSwap, Free, LocksOf
      <4>3. QED
        BY <1>1, <1>2, <4>1, <4>2, CountStep
    <3>4. QED
      BY <3>2, <3>3
  <2>6. CASE Target[p] = e /\ EndProbe(p)
    <3>1. Free(e)' = Free(e) /\ LocksOf(e)' = LocksOf(e)
      BY <2>6 DEF EndProbe, Free, LocksOf
    <3>2. CASE e = Empty
      <4>1. Probing(e)' = Probing(e) \ {p} /\ p \in Probing(e)
        BY <2>6, <3>2 DEF EndProbe, At, Goto, Probing, CacheTypeOK
      <4>2. QED
        BY <1>1, <1>2, <3>1, <4>1, CountStep
    <3>3. CASE e # Empty
      <4>1. Probing(e)' = Probing(e)
        BY <2>6, <3>3 DEF EndProbe, At, Goto, Probing, CacheTypeOK
      <4>2. QED
        BY <3>1, <4>1, <1>3
    <3>4. QED
      BY <3>2, <3>3
  <2>7. CASE Target[p] = e /\ Unlock(p)
    <3>1. Probing(e)' = Probing(e) \ {p} /\ p \in Probing(e)
      BY <2>7 DEF Unlock, At, Goto, Probing, CacheTypeOK
    <3>2. LocksOf(e)' = LocksOf(e) /\ Free(e)' = Free(e) \cup {hand[p]}
      BY SMT, <2>7 DEF Unlock, At, Free, LocksOf, LocksKnown
    <3>3. QED
      BY <1>1, <1>2, <3>1, <3>2, CountStep
  <2>8. QED
    BY <1>5, <2>2, <2>3, <2>4, <2>5, <2>6, <2>7 DEF GetCondition
<1>6. ASSUME NEW d \in Endpoints, HealthChanges(d) PROVE Count'
  <2>1. Quiet
    BY <1>6 DEF HealthChanges, Probing, Free, LocksOf
  <2>2. QED
    BY <2>1, <1>3
<1>7. CASE UNCHANGED cacheVars
  <2>1. Quiet
    BY <1>7 DEF cacheVars, Probing, Free, LocksOf
  <2>2. QED
    BY <2>1, <1>3
<1>8. QED
  BY <1>4, <1>5, <1>6, <1>7 DEF CacheNext

\* The inductive invariant of the cache.
THEOREM CacheInvariant == CacheSpec => []CacheInv
<1>1. CacheInit => CacheInv
  <2> SUFFICES ASSUME CacheInit PROVE CacheInv
    OBVIOUS
  <2>1. CacheTypeOK
    BY InitType
  <2>2. LocksKnown
    BY CacheAssumption DEF CacheInit, LocksKnown
  <2>3. ASSUME NEW e \in Endpoints PROVE Probing(e) = {} /\ Free(e) = {} /\ LocksOf(e) = {}
    BY DEF CacheInit, Probing, Free, LocksOf
  <2>4. Counted
    BY SMT, <2>3, FS_EmptySet DEF Counted
  <2>5. QED
    BY <2>1, <2>2, <2>4 DEF CacheInv
<1>2. CacheInv /\ [CacheNext]_cacheVars => CacheInv'
  BY NextType, NextLocksKnown, NextCounted DEF CacheInv
<1>3. QED
  BY <1>1, <1>2, PTL DEF CacheSpec

\* However many instances share endpoints, GetCondition probes them at most as
\* many times at once as locks were allocated for them: one lock, one probe.
THEOREM ProbesAreBounded == CacheSpec => []ProbesBounded
<1>1. CacheInv => ProbesBounded
  <2> SUFFICES ASSUME CacheInv, NEW e \in Endpoints
               PROVE  Cardinality(Probing(e)) <= Cardinality(LocksOf(e))
    BY DEF ProbesBounded
  <2>1. Cardinality(Probing(e)) + Cardinality(Free(e)) <= Cardinality(LocksOf(e))
    BY DEF CacheInv, Counted
  <2>2. Cardinality(Probing(e)) \in Nat /\ Cardinality(Free(e)) \in Nat /\ Cardinality(LocksOf(e)) \in Nat
    BY FiniteCounts DEF CacheInv
  <2>3. QED
    BY SMT, <2>1, <2>2
<1>2. QED
  BY <1>1, CacheInvariant, PTL

\* The lock, the cache and the probers keep their types.
THEOREM CacheTypeCorrect == CacheSpec => []CacheTypeOK
BY CacheInvariant, PTL DEF CacheInv
=============================================================================
