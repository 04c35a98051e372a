---------------------------- MODULE HelmRelease -----------------------------
(***************************************************************************)
(* One dependency that the operator installs as a Helm release             *)
(* (dependencies.go, pkg/helm): the release is installed, compared with    *)
(* the spec in every reconcile, and upgraded when they differ.  For etcd   *)
(* the chart's major version is found out and kept, and before an upgrade  *)
(* that enlarges the volumes reconcilePVCs enlarges the claims and         *)
(* replaces the StatefulSet, whose claim templates cannot be changed: it   *)
(* saves a copy in a ControllerRevision, deletes the StatefulSet without   *)
(* its pods, and creates it again.                                         *)
(*                                                                         *)
(* Helm and the StatefulSets are reached without a cache; the copy is read *)
(* and written through the cached client.  The operator may crash between  *)
(* any two calls.  A Helm operation is two steps: the pending revision is  *)
(* recorded, then it is applied and marked.                                *)
(***************************************************************************)
EXTENDS Naturals

CONSTANTS
  Configs,     \* the dependencies to consider
  Replicas,    \* replicas of the etcd StatefulSet
  CrashInHelm, \* the operator may crash inside a Helm operation
  CacheKeepsUp, \* the cache shows the copy that the operator wrote or deleted
               \* before it is looked at again
  MaxEdits,    \* bound on edits of the values
  MaxFaults,   \* bound on crashes and failed calls
  None         \* no release, no copy

\* kind; chart: of the release that is there already, or None; sizes: values
\* of the spec, of which only the size of the volumes matters; back: users go
\* back to smaller sizes.
ASSUME ReleaseAssumption ==
  /\ Replicas \in Nat \ {0}
  /\ {CrashInHelm, CacheKeepsUp} \subseteq BOOLEAN /\ {MaxEdits, MaxFaults} \subseteq Nat
  /\ \A c \in Configs :
       /\ c.kind \in {"etcd", "storage", "pulsar"} /\ c.sizes \subseteq Nat \ {0} /\ c.back \in BOOLEAN
       /\ c.kind = "etcd" => c.chart \in {"v6", "v8", None}
       /\ c.kind = "storage" => c.chart \in {"minio", "silo", None}
       /\ c.kind = "pulsar" => c.chart \in {"pulsar", None}

Charts == {"v6", "v8", "minio", "silo", "pulsar"}

\* None is no size, no chart, no release and no StatefulSet.
ASSUME NoneAssumption ==
  /\ None \notin Nat /\ None \notin Charts
  /\ None \notin [size: Nat, chart: Charts, initialize: {"unset", "true", "false"},
                  status: {"deployed", "failed", "pending"}]
  /\ None \notin [size: Nat, deleting: BOOLEAN]

VARIABLES
  config,  \* the dependency; it stays as it is
  spec,    \* size asked for, and chart version ("" when not set)
  due,     \* a reconcile is due
  rec,     \* the reconcile: its copy of the spec and its next step
  release, \* the last revision of the Helm release
  sts,     \* the StatefulSet of etcd: size of its claim template
  pvcs,    \* sizes of the claims; 0 before there is one
  saved,   \* the copy of the StatefulSet: its size
  sseen,   \* the copy, as the cache shows it
  edits, faults, upgrades \* so far

objects == <<release, sts, pvcs, saved>>
counts == <<edits, faults, upgrades>>
vars == <<config, spec, due, rec, objects, sseen, counts>>

Ordinals == 1..Replicas
Steps == {"idle", "chart", "compare", "install", "installing", "sts", "pvcs", "forget", "save",
          "delete", "wait", "create", "update", "updating"}
ReleaseType ==
  [size: config.sizes, chart: Charts, initialize: {"unset", "true", "false"},
   status: {"deployed", "failed", "pending"}]

TypeOK ==
  /\ config \in Configs
  /\ spec \in [size: config.sizes, chart: {"", "v6", "v8"}]
  /\ due \in BOOLEAN
  /\ rec \in [step: Steps, spec: [size: config.sizes, chart: {"", "v6", "v8"}]]
  /\ release = None \/ release \in ReleaseType
  /\ sts = None \/ sts \in [size: config.sizes, deleting: BOOLEAN]
  /\ pvcs \in [Ordinals -> config.sizes \cup {0}]
  /\ saved \in config.sizes \cup {None} /\ sseen \in config.sizes \cup {None}
  /\ edits \in 0..MaxEdits /\ faults \in 0..MaxFaults
  /\ upgrades \in Nat

Template(size) == [size |-> size, deleting |-> FALSE]

\* A new instance, whose etcd chart version the webhook sets, or one that an
\* older operator installed.
Init ==
  /\ config \in Configs
  /\ \E size \in config.sizes :
       LET new == config.chart = None
           etcd == config.kind = "etcd"
       IN  /\ spec = [size |-> size, chart |-> IF new /\ etcd THEN "v8" ELSE ""]
           /\ release = IF new THEN None
                        ELSE [size |-> size, chart |-> config.chart, status |-> "deployed",
                              initialize |-> IF config.kind = "pulsar" THEN "true" ELSE "unset"]
           /\ sts = IF new \/ ~etcd THEN None ELSE Template(size)
           /\ pvcs = [i \in Ordinals |-> IF new \/ ~etcd THEN 0 ELSE size]
  /\ saved = None /\ sseen = None
  /\ due = TRUE /\ rec = [spec |-> spec, step |-> "idle"]
  /\ edits = 0 /\ faults = 0 /\ upgrades = 0

-----------------------------------------------------------------------------
(* The reconcile.                                                           *)

At(step) == rec.step = step
Goto(step) == rec' = [rec EXCEPT !.step = step]

Return == Goto("idle") /\ UNCHANGED due
ReturnError == Goto("idle") /\ due' = TRUE

StartReconcile ==
  /\ due /\ At("idle")
  /\ due' = FALSE
  /\ rec' = [spec |-> spec, step |-> IF config.kind = "etcd" THEN "chart" ELSE "compare"]
  /\ UNCHANGED <<config, spec, objects, sseen, counts>>

\* Mutant: the release is not asked for its version.
MutantDetectedVersion == "v8"

DetectedVersion == IF release = None THEN "v8" ELSE release.chart

\* The version is written to the spec, unless that has changed since.
EnsureEtcdChartVersion ==
  /\ At("chart")
  /\ \/ /\ rec.spec.chart # "" /\ Goto("compare") /\ UNCHANGED <<spec, due>>
     \/ /\ rec.spec.chart = "" /\ rec.spec = spec
        /\ spec' = [spec EXCEPT !.chart = DetectedVersion]
        /\ rec' = [spec |-> spec', step |-> "compare"]
        /\ due' = TRUE
     \/ rec.spec.chart = "" /\ rec.spec # spec /\ ReturnError /\ UNCHANGED spec
  /\ UNCHANGED <<config, objects, sseen, counts>>

\* Mutant: the mark of the first installation is compared too.
MutantSameValues == release.size = rec.spec.size /\ release.initialize = "unset"

\* The values of the release equal those of the request; "initialize" is not
\* compared.
SameValues == release.size = rec.spec.size

NeedUpdate == release.status = "failed"

Compare ==
  /\ At("compare")
  /\ \/ release = None /\ Goto("install") /\ UNCHANGED due
     \/ release # None /\ SameValues /\ ~NeedUpdate /\ Return
     \/ /\ release # None /\ ~(SameValues /\ ~NeedUpdate)
        /\ Goto(IF config.kind = "etcd" THEN "sts" ELSE "update") /\ UNCHANGED due
  /\ UNCHANGED <<config, spec, objects, sseen, counts>>

\* The chart of the request: an installed MinIO stays MinIO.
RequestedChart ==
  IF config.kind = "etcd" THEN rec.spec.chart
  ELSE IF config.kind = "pulsar" THEN "pulsar"
  ELSE IF release # None /\ release.chart = "minio" THEN "minio" ELSE "silo"

Revision(initialize) ==
  [size |-> rec.spec.size, chart |-> RequestedChart, status |-> "pending",
   initialize |-> IF config.kind = "pulsar" THEN initialize ELSE "unset"]

Install ==
  /\ At("install")
  /\ release' = Revision("true") /\ Goto("installing")
  /\ UNCHANGED <<config, spec, due, sts, pvcs, saved, sseen, counts>>

\* Another operation that is pending makes Helm refuse.
Update ==
  /\ At("update")
  /\ IF release.status = "pending" THEN ReturnError /\ UNCHANGED <<release, upgrades>>
     ELSE release' = Revision("false") /\ Goto("updating") /\ upgrades' = upgrades + 1 /\ UNCHANGED due
  /\ UNCHANGED <<config, spec, sts, pvcs, saved, sseen, edits, faults>>

\* Helm creates what is missing; the claim template of a StatefulSet that is
\* there cannot change.
Applies == config.kind = "etcd" /\ sts # None => sts.size = rec.spec.size

InHelm == At("installing") \/ At("updating")

HelmDone ==
  /\ InHelm /\ Applies
  /\ release' = [release EXCEPT !.status = "deployed"]
  /\ sts' = IF config.kind = "etcd" /\ sts = None THEN Template(rec.spec.size) ELSE sts
  /\ Return
  /\ UNCHANGED <<config, spec, pvcs, saved, sseen, counts>>

HelmFails ==
  /\ InHelm
  /\ \/ ~Applies /\ UNCHANGED faults
     \/ faults < MaxFaults /\ faults' = faults + 1
  /\ release' = [release EXCEPT !.status = "failed"]
  /\ sts' \in {sts, IF config.kind = "etcd" /\ sts = None THEN Template(rec.spec.size) ELSE sts}
  /\ ReturnError
  /\ UNCHANGED <<config, spec, pvcs, saved, sseen, edits, upgrades>>

-----------------------------------------------------------------------------
(* reconcilePVCs.                                                           *)

Fresh == CacheKeepsUp => sseen = saved

\* Mutant: nothing is restored.
MutantGetStatefulSet ==
  /\ At("sts") /\ Goto(IF sts = None \/ sts.size = rec.spec.size THEN "update" ELSE "pvcs")
  /\ UNCHANGED <<config, spec, due, objects, sseen, counts>>

\* A StatefulSet that is missing is created again from the copy, with the size
\* it was saved with; without a copy the rest is left to Helm.
GetStatefulSet ==
  /\ At("sts") /\ Fresh
  /\ LET current == IF sts # None THEN sts.size ELSE sseen
     IN  /\ sts' = IF sts = None /\ sseen # None THEN Template(sseen) ELSE sts
         /\ Goto(IF current \in {None, rec.spec.size} THEN "update" ELSE "pvcs")
  /\ UNCHANGED <<config, spec, due, release, pvcs, saved, sseen, counts>>

\* The claims one after the other; a claim that is missing, or larger than the
\* new size, is an error.
UpdatePVC ==
  /\ At("pvcs")
  /\ LET left == {i \in Ordinals : pvcs[i] # rec.spec.size}
         next == CHOOSE i \in left : \A j \in left : i <= j
     IN  \/ left = {} /\ Goto("forget") /\ UNCHANGED <<pvcs, due>>
         \/ /\ left # {} /\ pvcs[next] \in 1..rec.spec.size
            /\ pvcs' = [pvcs EXCEPT ![next] = rec.spec.size]
            /\ UNCHANGED <<rec, due>>
         \/ left # {} /\ pvcs[next] \notin 1..rec.spec.size /\ ReturnError /\ UNCHANGED pvcs
  /\ UNCHANGED <<config, spec, release, sts, saved, sseen, counts>>

\* The copy of an earlier resize is deleted, and waited for.
DeleteSaved ==
  /\ At("forget") /\ saved' = None /\ Goto("save")
  /\ UNCHANGED <<config, spec, due, release, sts, pvcs, sseen, counts>>

\* CreateObject leaves an object alone that the cache shows.
SaveObject ==
  /\ At("save") /\ Fresh
  /\ saved' = IF sseen = None THEN rec.spec.size ELSE saved
  /\ Goto("delete")
  /\ UNCHANGED <<config, spec, due, release, sts, pvcs, sseen, counts>>

\* The pods are orphaned, and adopted by the next StatefulSet.
DeleteStatefulSet ==
  /\ At("delete")
  /\ \/ sts # None /\ sts' = [sts EXCEPT !.deleting = TRUE] /\ Goto("wait") /\ UNCHANGED due
     \/ sts = None /\ ReturnError /\ UNCHANGED sts
  /\ UNCHANGED <<config, spec, release, pvcs, saved, sseen, counts>>

WaitForStatefulSetDeletion ==
  /\ At("wait") /\ sts = None /\ Goto("create")
  /\ UNCHANGED <<config, spec, due, objects, sseen, counts>>

\* Mutant: created as it was.
MutantCreateNewStatefulSet ==
  /\ At("create") /\ sts' = Template(release.size) /\ Goto("update")
  /\ UNCHANGED <<config, spec, due, release, pvcs, saved, sseen, counts>>

CreateNewStatefulSet ==
  /\ At("create") /\ sts' = Template(rec.spec.size) /\ Goto("update")
  /\ UNCHANGED <<config, spec, due, release, pvcs, saved, sseen, counts>>

-----------------------------------------------------------------------------
(* Users, faults and the cluster.                                           *)

Edit(size) ==
  /\ edits < MaxEdits /\ edits' = edits + 1
  /\ size # spec.size /\ (~config.back => size > spec.size)
  /\ spec' = [spec EXCEPT !.size = size] /\ due' = TRUE
  /\ UNCHANGED <<config, rec, objects, sseen, faults, upgrades>>

\* Anything else about the Milvus starts a reconcile as well.
Resync ==
  /\ ~due /\ due' = TRUE
  /\ UNCHANGED <<config, spec, rec, objects, sseen, counts>>

\* A call of the reconcile fails.
CallFails ==
  /\ ~At("idle") /\ ~InHelm /\ faults < MaxFaults /\ faults' = faults + 1
  /\ ReturnError
  /\ UNCHANGED <<config, spec, objects, sseen, edits, upgrades>>

\* The operator that starts again lists every object.
Crash ==
  /\ ~At("idle") /\ faults < MaxFaults /\ faults' = faults + 1
  /\ InHelm => CrashInHelm
  /\ ReturnError /\ sseen' = saved
  /\ UNCHANGED <<config, spec, objects, edits, upgrades>>

OrphanPods ==
  /\ sts # None /\ sts.deleting /\ sts' = None
  /\ UNCHANGED <<config, spec, due, rec, release, pvcs, saved, sseen, counts>>

CreatePVC(i) ==
  /\ sts # None /\ ~sts.deleting /\ pvcs[i] = 0
  /\ pvcs' = [pvcs EXCEPT ![i] = sts.size]
  /\ UNCHANGED <<config, spec, due, rec, release, sts, saved, sseen, counts>>

SyncCache ==
  /\ sseen # saved /\ sseen' = saved
  /\ UNCHANGED <<config, spec, due, rec, objects, counts>>

Reconcile ==
  \/ StartReconcile \/ EnsureEtcdChartVersion \/ Compare \/ Install \/ Update \/ HelmDone
  \/ GetStatefulSet \/ UpdatePVC \/ DeleteSaved \/ SaveObject \/ DeleteStatefulSet
  \/ WaitForStatefulSetDeletion \/ CreateNewStatefulSet

Cluster == OrphanPods \/ SyncCache \/ \E i \in Ordinals : CreatePVC(i)

Next ==
  \/ Reconcile \/ HelmFails \/ CallFails \/ Crash \/ Resync \/ Cluster
  \/ \E size \in config.sizes : Edit(size)

Spec == Init /\ [][Next]_vars

\* Failed reconciles are retried, and a restarted operator reconciles every
\* object; the garbage collector, the StatefulSet controller and the informer
\* keep going.
FairSpec ==
  /\ Spec /\ WF_vars(Reconcile) /\ WF_vars(OrphanPods) /\ WF_vars(SyncCache)
  /\ \A i \in Ordinals : WF_vars(CreatePVC(i))

-----------------------------------------------------------------------------
(* Properties.                                                              *)

\* An upgrade of the operator, or any number of edits and crashes, never moves
\* an installed release to another chart (ensureEtcdChartVersion,
\* ReconcileMinio): that needs a migration of its data.
ChartKept == [][release # None => release' # None /\ release'.chart = release.chart]_vars

\* When Helm is asked to upgrade etcd, reconcilePVCs has made the StatefulSet
\* one that the upgrade does not have to change, whatever was interrupted
\* before: the upgrade is not refused for a field that cannot change.
ReadyForUpgrade == At("updating") => Applies

\* A release is upgraded when the spec or a fault asks for it, and not again
\* in every reconcile: the keys the operator adds are not taken for a change.
UpgradesBounded == upgrades <= edits + faults

\* A resize comes to its end although the operator is interrupted between
\* deleting the StatefulSet and creating it: etcd has a StatefulSet of the size
\* the spec asks for and the release says the same.  The claims follow when
\* there is one interruption at most: a StatefulSet that is still being deleted
\* is resized again, and a second one, after its copy is deleted, leaves
\* neither, so that Helm creates a StatefulSet whose claims nobody enlarges.
ResizeCompletes ==
  <>[](/\ release # None /\ release.status = "deployed" /\ release.size = spec.size
       /\ config.kind = "etcd" =>
            /\ sts = Template(spec.size)
            /\ faults <= 1 => \A i \in Ordinals : pvcs[i] = spec.size)

\* reconcilePVCs: "Save the new StatefulSet before deletion sts".  There is a
\* copy of a StatefulSet that it deletes.
SavedBeforeDeletion ==
  config.kind = "etcd" /\ release # None /\ release.status = "deployed" /\ sts = None => saved # None
=============================================================================
