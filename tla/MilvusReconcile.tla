-------------------------- MODULE MilvusReconcile ---------------------------
(***************************************************************************)
(* The Milvus controller around one instance: the reconcile that follows   *)
(* every change of the object (milvus_controller.go, milvus.go), the loops *)
(* that probe the dependencies and refresh the status (status_cluster.go), *)
(* and deletion with its finalizer.  What a reconcile does to the          *)
(* Deployments is one step here; the other modules look inside it.         *)
(*                                                                         *)
(* A reconcile, or a round of the status loop, works on the copy of the    *)
(* object it started from.  Its write succeeds if the object has not       *)
(* changed since.                                                          *)
(***************************************************************************)
EXTENDS Integers, FiniteSets

CONSTANTS
  Images, First,  \* images of spec.components, and the one of the new instance
  Deps,           \* the dependencies: etcd, storage, message stream
  OrderedImages,  \* whether enableRollingUpdate is on with mode rollingUpgrade or rollingDowngrade
  StopAnyTime,    \* users stop an instance whose dependencies are not ready
  MaxDisturbances,\* bound on edits, deletions, dependencies lost, failed reconciles
  Nothing         \* no copy in hand

ASSUME ReconcileAssumption ==
  /\ First \in Images
  /\ OrderedImages \subseteq BOOLEAN /\ StopAnyTime \in BOOLEAN
  /\ MaxDisturbances \in Nat

VARIABLES
  exists, mc,  \* the Milvus object
  queue,       \* a reconcile is due
  rec,         \* the copy a reconcile works on, and its next step
  sync,        \* the copy the status loop works on, and what it probed
  work, pods,  \* the workload and its pods
  wseen,       \* both, as the caches show them
  up, releases,\* dependencies that answer, and those installed
  ran,         \* images the workload has run completely
  disturbed    \* edits, deletions, dependencies lost and failures so far

object == <<exists, mc, queue>>
cluster == <<work, pods, ran>>
vars == <<exists, mc, queue, rec, sync, work, pods, wseen, up, releases, ran, disturbed>>

Answers == {"absent", "true", "false"}
PodType == [image: Images, state: {"starting", "ready", "terminating"}]
WorkType == [made: BOOLEAN, image: Images, stopped: BOOLEAN]
MilvusType ==
  [gen: Nat, stop: BOOLEAN, image: Images, ordered: BOOLEAN, finalizer: BOOLEAN,
   deletion: {"none", "background", "foreground"},
   phase: {"", "Pending", "Healthy", "Unhealthy", "Stopped", "Deleting"},
   observed: Nat, deps: [Deps -> Answers], ready: BOOLEAN, updated: BOOLEAN, current: Images]

TypeOK ==
  /\ exists \in BOOLEAN /\ queue \in BOOLEAN
  /\ mc \in MilvusType /\ mc.observed <= mc.gen
  /\ rec # Nothing => rec.mc \in MilvusType /\ rec.step \in {"apply", "status", "finalize"}
  /\ sync # Nothing => sync.mc \in MilvusType /\ sync.probed \in [Deps -> Answers]
  /\ work \in WorkType /\ wseen.work \in WorkType
  /\ pods \subseteq PodType /\ wseen.pods \subseteq PodType
  /\ up \in [Deps -> BOOLEAN] /\ releases \subseteq Deps
  /\ ran \subseteq Images
  /\ disturbed \in 0..MaxDisturbances

Absent == [d \in Deps |-> "absent"]

\* A new object, before the operator sees it.
Init ==
  /\ exists = TRUE /\ queue = TRUE
  /\ \E ordered \in OrderedImages :
       mc = [gen |-> 1, stop |-> FALSE, image |-> First, ordered |-> ordered, finalizer |-> FALSE,
             deletion |-> "none", phase |-> "", observed |-> 0, deps |-> Absent, ready |-> FALSE,
             updated |-> FALSE, current |-> First]
  /\ work = [made |-> FALSE, image |-> First, stopped |-> FALSE]
  /\ rec = Nothing /\ sync = Nothing
  /\ pods = {} /\ wseen = [work |-> work, pods |-> pods]
  /\ up = [d \in Deps |-> FALSE] /\ releases = {} /\ ran = {}
  /\ disturbed = 0

-----------------------------------------------------------------------------
(* The status, computed from a copy m of the object and a view w of the     *)
(* workload.                                                                *)

Running(w) == {p \in w.pods : p.state # "terminating"}
Terminating(w) == w.pods # Running(w)
Available(w) == w.work.stopped \/ \E p \in w.pods : p.state = "ready"
Complete(w) == Running(w) = IF w.work.stopped THEN {} ELSE {[image |-> w.work.image, state |-> "ready"]}

\* No condition when everything is available and nothing serves.
GetMilvusInstanceCondition(m, w) ==
  CASE m.stop -> "false"
    [] ~m.stop /\ ~(w.work.made /\ Available(w)) -> "false"
    [] ~m.stop /\ w.work.made /\ Available(w) /\ w.work.stopped -> "absent"
    [] OTHER -> "true"

\* Mutant: the image of the Deployment is not compared.
MutantGetMilvusUpdatedCondition(m, w) ==
  w.work.made /\ Complete(w) /\ ~Terminating(w)

\* Only the ordered modes look at the image; all, force and no rolling update do not.
GetMilvusUpdatedCondition(m, w) ==
  /\ w.work.made /\ Complete(w) /\ ~Terminating(w)
  /\ m.ordered => w.work.image = m.image

GetMilvusHealthStatus(last, stopping, healthy) ==
  CASE stopping -> "Stopped"
    [] ~stopping /\ healthy -> "Healthy"
    [] ~stopping /\ ~healthy /\ last \in {"Healthy", "Unhealthy"} -> "Unhealthy"
    [] OTHER -> "Pending"

NewStatus(m, deps, w) ==
  LET cond == GetMilvusInstanceCondition(m, w)
      ready == IF cond = "absent" THEN m.ready ELSE cond = "true"
      updated == GetMilvusUpdatedCondition(m, w)
  IN [m EXCEPT !.observed = m.gen, !.deps = deps, !.ready = ready, !.updated = updated,
               !.current = IF ready /\ updated THEN m.image ELSE @,
               !.phase = GetMilvusHealthStatus(m.phase, m.stop, cond = "true")]

\* The object becomes n if it still is the copy m: otherwise a conflict.  Every
\* change of the object makes a reconcile due.
Write(m, n) ==
  /\ mc' = IF m = mc THEN n ELSE mc
  /\ queue' = (queue \/ mc' # mc)
  /\ UNCHANGED exists

\* Mutant: a write that does not look at the version of the object.
MutantWriteStatus(m, n) ==
  /\ mc' = [n EXCEPT !.gen = mc.gen, !.stop = mc.stop, !.image = mc.image,
                     !.finalizer = mc.finalizer, !.deletion = mc.deletion]
  /\ queue' = (queue \/ mc' # mc)
  /\ UNCHANGED exists

\* Nothing is written when the status is what it was.
WriteStatus(m, n) ==
  IF m = n THEN UNCHANGED object ELSE Write(m, n)

-----------------------------------------------------------------------------
(* Reconcile.                                                               *)

Disturb == disturbed < MaxDisturbances /\ disturbed' = disturbed + 1

Due == queue /\ rec = Nothing /\ exists

AddFinalizer ==
  /\ Due /\ mc.deletion = "none" /\ ~mc.finalizer
  /\ Write(mc, [mc EXCEPT !.finalizer = TRUE])
  /\ UNCHANGED <<rec, sync, cluster, wseen, up, releases, disturbed>>

SetDefaultStatus ==
  /\ Due /\ mc.deletion = "none" /\ mc.finalizer /\ mc.phase = ""
  /\ Write(mc, [mc EXCEPT !.phase = "Pending", !.current = mc.image])
  /\ UNCHANGED <<rec, sync, cluster, wseen, up, releases, disturbed>>

StartReconcile ==
  /\ Due /\ mc.deletion = "none" /\ mc.finalizer /\ mc.phase # ""
  /\ queue' = FALSE
  /\ rec' = [mc |-> mc, step |-> "apply"]
  /\ UNCHANGED <<exists, mc, sync, cluster, wseen, up, releases, disturbed>>

IsDependencyReady(m) == \A d \in Deps : m.deps[d] = "true"

\* History: the images that the workload has run completely.
Record ==
  ran' = IF Complete([work |-> work', pods |-> pods']) /\ ~work'.stopped THEN ran \cup {work'.image} ELSE ran

\* In the ordered modes a Deployment with pods keeps its image until the status
\* is that of the generation.
Applied(m) ==
  IF ~IsDependencyReady(m) THEN work
  ELSE [made |-> TRUE,
        image |-> IF work.made /\ ~m.stop /\ m.ordered /\ m.observed < m.gen THEN work.image ELSE m.image,
        stopped |-> m.stop]

\* The charts of the dependencies and the workload are reconciled side by side.
ReconcileAll ==
  /\ rec # Nothing /\ rec.step = "apply"
  /\ releases' = Deps
  /\ work' = Applied(rec.mc)
  /\ rec' = [rec EXCEPT !.step = "status"]
  /\ UNCHANGED <<object, sync, pods, wseen, up, disturbed>>
  /\ Record

\* One of them fails, or the operator crashes: the reconcile is repeated.
ReconcileFails ==
  /\ rec # Nothing /\ rec.step # "status" /\ Disturb
  /\ IF rec.step = "apply"
     THEN work' \in {work, Applied(rec.mc)} /\ \E some \in SUBSET Deps : releases' = releases \cup some
     ELSE UNCHANGED <<work, releases>>
  /\ rec' = Nothing /\ queue' = TRUE
  /\ UNCHANGED <<exists, mc, sync, pods, wseen, up>>
  /\ Record

\* UpdateStatusForNewGeneration without the dependencies.
UpdateStatus ==
  /\ rec # Nothing /\ rec.step = "status"
  /\ WriteStatus(rec.mc, NewStatus(rec.mc, rec.mc.deps, wseen))
  /\ rec' = Nothing
  /\ UNCHANGED <<sync, cluster, wseen, up, releases, disturbed>>

-----------------------------------------------------------------------------
(* Deletion.                                                                *)

Deleting == Due /\ mc.deletion # "none"

MarkDeleting ==
  /\ Deleting /\ mc.phase # "Deleting"
  /\ Write(mc, [mc EXCEPT !.phase = "Deleting"])
  /\ UNCHANGED <<rec, sync, cluster, wseen, up, releases, disturbed>>

DeleteForeground ==
  /\ Deleting /\ mc.phase = "Deleting"
  /\ wseen.pods # {} /\ mc.deletion = "background"
  /\ Write(mc, [mc EXCEPT !.deletion = "foreground"])
  /\ UNCHANGED <<rec, sync, cluster, wseen, up, releases, disturbed>>

StartFinalize ==
  /\ Deleting /\ mc.phase = "Deleting" /\ mc.finalizer
  /\ wseen.pods = {}
  /\ rec' = [mc |-> mc, step |-> "finalize"] /\ queue' = FALSE
  /\ UNCHANGED <<exists, mc, sync, cluster, wseen, up, releases, disturbed>>

Uninstall(d) ==
  /\ rec # Nothing /\ rec.step = "finalize"
  /\ d \in releases /\ releases' = releases \ {d}
  /\ up' = [up EXCEPT ![d] = FALSE]
  /\ UNCHANGED <<object, rec, sync, cluster, wseen, disturbed>>

\* Mutant: the errors of the releases are not collected.
MutantRemoveFinalizer ==
  /\ rec # Nothing /\ rec.step = "finalize"
  /\ Write(rec.mc, [rec.mc EXCEPT !.finalizer = FALSE])
  /\ rec' = Nothing
  /\ UNCHANGED <<sync, cluster, wseen, up, releases, disturbed>>

RemoveFinalizer ==
  /\ rec # Nothing /\ rec.step = "finalize" /\ releases = {}
  /\ Write(rec.mc, [rec.mc EXCEPT !.finalizer = FALSE])
  /\ rec' = Nothing
  /\ UNCHANGED <<sync, cluster, wseen, up, releases, disturbed>>

-----------------------------------------------------------------------------
(* The loops of the status syncer.                                          *)

StartSync ==
  /\ sync = Nothing /\ exists /\ mc.deletion = "none"
  /\ mc.phase # "" /\ mc.observed >= mc.gen
  /\ sync' = [mc |-> mc, probed |-> Absent]
  /\ UNCHANGED <<object, rec, cluster, wseen, up, releases, disturbed>>

ProbeDependency(d) ==
  /\ sync # Nothing /\ ~sync.mc.stop /\ sync.probed[d] = "absent"
  /\ sync' = [sync EXCEPT !.probed[d] = IF up[d] THEN "true" ELSE "false"]
  /\ UNCHANGED <<object, rec, cluster, wseen, up, releases, disturbed>>

\* Mutant: the answers of the probes are not written.
MutantFinishSync ==
  /\ sync # Nothing
  /\ sync.mc.stop \/ \A d \in Deps : sync.probed[d] # "absent"
  /\ WriteStatus(sync.mc, NewStatus(sync.mc, sync.mc.deps, wseen))
  /\ sync' = Nothing
  /\ UNCHANGED <<rec, cluster, wseen, up, releases, disturbed>>

\* The conditions of the dependencies are removed from a stopping instance.
FinishSync ==
  /\ sync # Nothing
  /\ sync.mc.stop \/ \A d \in Deps : sync.probed[d] # "absent"
  /\ WriteStatus(sync.mc, NewStatus(sync.mc, sync.probed, wseen))
  /\ sync' = Nothing
  /\ UNCHANGED <<rec, cluster, wseen, up, releases, disturbed>>

-----------------------------------------------------------------------------
(* Users, the cluster and the caches.                                       *)

Edit(i, stop) ==
  /\ exists /\ mc.deletion = "none" /\ Disturb
  /\ <<i, stop>> # <<mc.image, mc.stop>>
  /\ stop /\ ~StopAnyTime => IsDependencyReady(mc)
  /\ Write(mc, [mc EXCEPT !.gen = @ + 1, !.image = i, !.stop = stop])
  /\ UNCHANGED <<rec, sync, cluster, wseen, up, releases>>

Delete(policy) ==
  /\ exists /\ mc.deletion = "none" /\ mc.finalizer /\ Disturb
  /\ Write(mc, [mc EXCEPT !.deletion = policy])
  /\ UNCHANGED <<rec, sync, cluster, wseen, up, releases>>

Gone ==
  /\ exists /\ mc.deletion # "none" /\ ~mc.finalizer
  /\ mc.deletion = "foreground" => ~work.made
  /\ exists' = FALSE
  /\ UNCHANGED <<mc, queue, rec, sync, cluster, wseen, up, releases, disturbed>>

\* The garbage collector deletes what the object owns, before a foreground
\* deletion ends or after a background one.
CollectWorkload ==
  /\ work.made /\ (mc.deletion = "foreground" \/ ~exists)
  /\ work' = [work EXCEPT !.made = FALSE, !.stopped = TRUE]
  /\ UNCHANGED <<object, rec, sync, pods, ran, wseen, up, releases, disturbed>>

Pods(new) ==
  /\ pods' = new
  /\ UNCHANGED <<object, rec, sync, work, wseen, up, releases, disturbed>>
  /\ Record

StartPod ==
  /\ work.made /\ ~work.stopped
  /\ \A p \in pods : p.image # work.image \/ p.state = "terminating"
  /\ Pods(pods \cup {[image |-> work.image, state |-> "starting"]})

PodReady(p) ==
  /\ p.state = "starting" /\ \A d \in Deps : up[d]
  /\ Pods((pods \ {p}) \cup {[p EXCEPT !.state = "ready"]})

StopPod(p) ==
  /\ p.state # "terminating"
  /\ work.stopped \/ (p.image # work.image /\ [image |-> work.image, state |-> "ready"] \in pods)
  /\ Pods((pods \ {p}) \cup {[p EXCEPT !.state = "terminating"]})

PodGone(p) == p.state = "terminating" /\ Pods(pods \ {p})

DepUp(d) ==
  /\ d \in releases /\ ~up[d] /\ up' = [up EXCEPT ![d] = TRUE]
  /\ UNCHANGED <<object, rec, sync, cluster, wseen, releases, disturbed>>

DepDown(d) ==
  /\ up[d] /\ Disturb /\ up' = [up EXCEPT ![d] = FALSE]
  /\ UNCHANGED <<object, rec, sync, cluster, wseen, releases>>

SyncCaches ==
  /\ wseen' = [work |-> work, pods |-> pods] /\ wseen' # wseen
  /\ UNCHANGED <<object, rec, sync, cluster, up, releases, disturbed>>

-----------------------------------------------------------------------------
Reconcile ==
  \/ AddFinalizer \/ SetDefaultStatus \/ StartReconcile \/ ReconcileAll \/ UpdateStatus
  \/ MarkDeleting \/ DeleteForeground \/ StartFinalize \/ RemoveFinalizer
  \/ \E d \in Deps : Uninstall(d)

SyncStatus == StartSync \/ FinishSync \/ \E d \in Deps : ProbeDependency(d)

Kubernetes ==
  \/ Gone \/ CollectWorkload \/ StartPod
  \/ \E p \in pods : PodReady(p) \/ StopPod(p) \/ PodGone(p)

Next ==
  \/ Reconcile \/ ReconcileFails \/ SyncStatus \/ Kubernetes \/ SyncCaches
  \/ \E i \in Images, stop \in BOOLEAN : Edit(i, stop)
  \/ \E policy \in {"background", "foreground"} : Delete(policy)
  \/ \E d \in Deps : DepUp(d) \/ DepDown(d)

Spec == Init /\ [][Next]_vars

\* The work queue and the ticker of the loops keep the operator going; what
\* was installed comes up again.  Users and faults need not act.
FairSpec ==
  /\ Spec /\ WF_vars(Reconcile) /\ WF_vars(SyncStatus)
  /\ WF_vars(Kubernetes \/ SyncCaches \/ \E d \in Deps : DepUp(d))

-----------------------------------------------------------------------------
(* Properties.                                                              *)

\* Once MarkDeleting has shown the phase Deleting, no late round of the status
\* loop and no reconcile brings another phase back.
DeletingIsFinal == [][mc.phase = "Deleting" => mc'.phase = "Deleting"]_vars

\* In the modes rollingUpgrade and rollingDowngrade status.currentImage moves on
\* only to an image that the workload has run completely, although the reconcile
\* may have been held back by a dependency and the caches may be old:
\* UpdateStatusForNewGeneration takes it from the spec.  Left out: a cache that
\* still shows the workload of a stopped instance, for which
\* GetMilvusInstanceCondition has no answer and an old one stands.
CurrentImageRan ==
  [][mc'.current # mc.current /\ mc.phase # "" /\ mc.ordered /\ ~wseen.work.stopped
       => mc'.current \in ran]_vars

\* The same in every mode, which does not hold: in the modes all and force the
\* Deployment of the old image, complete, counts as updated.
CurrentImageRanInEveryMode ==
  [][mc'.current # mc.current /\ mc.phase # "" /\ ~wseen.work.stopped => mc'.current \in ran]_vars

\* The finalizer holds the object until every release is uninstalled, whatever
\* failed in between, and nothing installs one again.
GoneMeansUninstalled == ~exists => releases = {}

Settled ==
  IF ~exists THEN ~work.made /\ pods = {}
  ELSE IF mc.stop THEN pods = {} /\ mc.phase = "Stopped"
  ELSE /\ mc.phase = "Healthy" /\ mc.updated /\ mc.current = mc.image
       /\ pods = {[image |-> mc.image, state |-> "ready"]}

\* When users and faults come to rest, the instance runs what the spec asks
\* for and the status says so, or it is gone with everything it owned.
Converges == <>[]Settled

\* An instance that users stop has no pods in the end (ReconcileMilvus brings
\* the replicas down).
StopTakesEffect == <>[](exists /\ mc.stop => pods = {})
=============================================================================
