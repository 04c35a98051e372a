# A TLA+ verification of milvus-operator

milvus-operator is a Kubernetes operator. It watches `Milvus`, `MilvusCluster`
(the old v1alpha1 form) and `MilvusUpgrade` objects and drives Deployments,
StatefulSets, Services, autoscalers, Helm releases and task pods towards what
they ask for. All of it is reconcile loops: a loop reads objects from informer
caches that may lag, computes, issues writes one by one, and is run again after
a failure, a conflict, a crash or an event. What can go wrong is rarely in one
function. It is in the order in which loops, users, the controllers of
Kubernetes and crashes interleave, and in what a loop believes at the moment it
writes. The modules here model those loops from the code, check them with TLC
on small instances, and prove what matters most with TLAPS for every instance.

Contents: [Inventory](#inventory), [Plan](#plan),
[Modelling conventions](#modelling-conventions), [Modules](#modules),
[Runs](#runs), [Where code and documentation differ](#where-code-and-documentation-differ),
[Fairness](#fairness), [Proofs](#proofs), [What is not modelled](#what-is-not-modelled).

To repeat a run: `tlc -config <run>.cfg <module>` with the module that
`PROJECT.json` names for it; a proof: `tlapm <module>.tla`.

## Inventory

All paths are below `src/`; files without a directory are in `pkg/controllers`.

| Part | State it keeps | Operations | Talks to |
|---|---|---|---|
| MilvusUpgrade controller (`milvusupgrade_controller.go`, `milvusupgrade_fsm.go`) | `MilvusUpgrade.status`: state, record of the old replicas and image, flags, retries; task pods; the volume of the backup | one state function per state, `DetermineCurrentState`, `recordOldInfo`, stop and start of Milvus, creation of task pods, saving the status | writes `Milvus.spec` and annotations, annotates the alpha object, creates pods, reads Deployments and pods |
| Two-deployment rollout (`deploy_ctrl.go`, `deploy_ctrl_util.go`, `rollout_util.go`) | labels `current-group-id` and `rolling-id` of the Milvus object, two Deployments per component | `HandleCreate`, `HandleStop`, `HandleRolling`, `HandleScaling`, `LastRolloutFinished`, `PrepareNewRollout`, rollback, the `planScale…` functions | Deployment controller, pods, HPA reconciler, users |
| HPA reconciler (`hpa.go`) | HorizontalPodAutoscalers | create, retarget, delete, one per component | runs beside the deploy controller on the same copy of the Milvus object |
| Change of deployment mode (`deploy_mode_changer.go`) | ControllerRevisions with the saved Deployment and ReplicaSets, annotation `changing-mode`, `status.rollingMode` | save and delete the Deployment, the ReplicaSets; relabel pods; recreate both | garbage collector, ReplicaSet and Deployment controllers |
| Milvus controller (`milvus_controller.go`, `milvus.go`) | finalizer, `status.status`, `status.observedGeneration` | `Reconcile`, `ReconcileAll`, `Finalize` | all reconcilers below through the parallel runner, the status syncer |
| Status syncer (`status_cluster.go`, `component_condition.go`, `conditions.go`) | conditions, `status.currentImage`, health status, `componentsDeployStatus` | two loops (unhealthy, updated instances), `UpdateStatusForNewGeneration` | endpoint cache, Deployments, pods, the Milvus object |
| Endpoint check cache (`endpoint_check_cache.go`) | two `sync.Map`s in memory: a lock and the last condition per list of endpoints | `TryStartProbeFor`, `EndProbeFor`, `Get`, `Set`, `GetCondition` around them | goroutines of both loops, probes of etcd, storage and message stream |
| Workload reconciler (`deployments.go`, `deployment_updater.go`, `components.go`, `deployment_cluster_to_standalone.go`) | Deployments, annotation `pod-service-label-added` | render, create, update; remove what the spec no longer names (old standalone, stale groups, index node, coordinators, the other mode) | Milvus object (it clears parts of its spec), status of components |
| Order of component updates (`dependency_graph.go`, `RollingUpdateImageDependencyReady`) | `status.componentsDeployStatus` | which component may take the new image now, upwards, downwards and for 2.6 | status syncer |
| StatefulSet components (`statefulset.go`) | StatefulSets, their claims, headless Services | create, update, volume resize, removal on a change of kind | workload reconciler |
| Dependencies by Helm (`dependencies.go`, `pkg/helm`) | Helm releases, claims of etcd | install, upgrade, uninstall; resize of etcd volumes (orphan-delete and recreate the StatefulSet) | Milvus controller, finalizer |
| Configuration and secrets (`configmaps.go`, `kafka_secrets.go`) | ConfigMap, checksum annotation | render and update | workload reconciler |
| Services, ingress, volumes, monitors (`services.go`, `ingress.go`, `pvc.go`, `podmonitor.go`) | one object each | create or update | Milvus controller |
| Defaulting and validation (`apis/milvus.io/v1beta1/milvus_webhook.go`, `rolling_update_validation.go`) | none | pure functions on the spec | API server, or the controller when the webhook is off |
| v1alpha1 conversion (`milvuscluster/convert_controller.go`) | annotation that says an upgrade is under way or done | rewrite Milvus from the alpha object, or the reverse after an upgrade | MilvusUpgrade controller |
| Parallel runner (`group_runner.go`, `groups.go`) | none | run functions side by side, join errors | everything |
| Probes of external services (`conditions.go`, `pkg/external`, `pkg/util`) | none | one probe | endpoint cache |
| Manager, flags, metrics (`main.go`, `pkg/manager`, `metrics.go`) | counters | start-up | |
| Tools (`tool/`, `scripts/`) | files in pods of Milvus | merge configuration, run | none of the loops |

What makes each part correct, and which behaviours make that hard:

* **Upgrade.** Metadata in etcd is changed only with a complete backup at hand,
  by one task at a time, after the Deployments were stopped; pods are started
  only on metadata of the version asked for; a rollback restores metadata, image
  and replicas; an upgrade ends. Hard because the status is saved last: a crash, a conflict or a
  stale read between a write to the cluster and the save repeats or forgets a
  step, and users may ask for a rollback in the middle.
* **Rollout.** The template of a Deployment in use never changes, capacity stays
  within maxSurge and maxUnavailable, a finished rollout leaves no old pod, the
  idle Deployment stays idle, and it ends whatever users and autoscalers do
  meanwhile. Hard because each step trusts counts in a status, a pod list and a
  Milvus object of different age.
* **Change of mode.** Nothing is deleted that cannot be created again, pods keep
  running, the change ends from any point it was cut off at.
* **Milvus controller and status.** The status follows the object, the gate on
  dependencies opens and closes for the right generation, the finalizer holds
  until everything is uninstalled, and the instance converges. Hard because the
  reconcile and the status loop write the same object from different copies.
* **Endpoint cache.** Lock, cache and loops never block each other, the cached
  answer catches up, instances that share endpoints share probes.
* **Update order.** Components take a new image in the order of the dependency
  graph and each only once the former ones are complete; no two wait on each
  other. Hard because the decision is made from a status another loop wrote.
* **Workload reconciler, StatefulSets.** What serves is not removed before what
  replaces it is ready, a component never runs as two kinds of workload, the
  Service keeps an endpoint. Hard because every creation, deletion and label is
  a write of its own and users change their minds in between.
* **Helm releases, etcd resize.** A release stays with its chart and is upgraded
  only for a reason; the StatefulSet that is deleted to be resized comes back,
  whatever is interrupted.
* **From the spec to the pods.** Defaults, values of older operators,
  configuration, credentials and templates come to agree, and neither a restart
  nor a new version of the operator restarts pods or dependencies.

The hazards this comes down to are listed in `PROJECT.json`, each at its line,
with the properties that watch it.

## Plan

The order is that of what hurts most when it goes wrong: loss of metadata, then
loss of service, then an instance that gets stuck.

1. **`MilvusUpgrade`** and its proofs. Done. Abstract statements: backup before
   change, version matches metadata, an upgrade ends.
2. **`ScalePlan`** (pure planning functions), **`TwoDeployRollout`** which
   composes it with the deploy controller, HPA and cluster, and their proofs. Done.
3. **`DeployModeChange`** and its proofs: how a component gets into the state
   `TwoDeployRollout` starts from. Done.
4. **`MilvusReconcile`** and its proofs: the loops around all of it, in which what
   1 to 3 look into is one step. Done for one workload; the proofs are for any
   number of dependencies.
5. **`EndpointCheckCache`** and its proofs: what a probe is in 4. Done.
6. **`Components`**, **`ComponentOrder`**: the lists and graphs of components, and
   the order of image updates. Done. Abstract specification: **`OrderedUpdate`**,
   which the detailed one is proved to refine.
7. **`Workloads`** and its proofs: Deployments, pairs of Deployments, StatefulSets,
   claims and the Service through changes of mode, groups and kind. Done.
8. **`HelmRelease`** and its proofs: releases and the resize of etcd. Done.
9. **`SpecDefaults`**, **`PodTemplate`** (functions), **`MilvusRender`** which composes
   them with the controller, Helm and the cluster, and its proofs. Done.
10. Next: lagging caches in `Workloads`, the conversion of v1alpha1 objects there
    and back.

Each module has one run that passes, and runs of known differences stay few: the
configurations of a module are chosen in `Init` from a set, so that one run
covers several kinds of instances.

## Modelling conventions

* An action is what happens between two points where others can interfere: one
  API write with the reads and decisions before it. Where a handler makes several
  writes, each is a step and a crash can fall in between.
* Objects in the API server, and what the caches show of them, are separate
  variables where the code reads a cache. A constant says which caches may lag,
  so that it can be seen on which one a property depends. A write from an
  outdated copy is refused (`resourceVersion`), as the API server does.
* Templates, images, configurations and metadata are values that are only
  compared. Replicas are small numbers. Names, labels and rendering appear as
  far as control depends on them.
* Users, autoscalers, faults and pods that fail are unconstrained but bounded;
  every bound is a constant named `Max…`.
* Controllers of Kubernetes, kubelet, garbage collector and informers are
  modelled as far as the operator depends on them and are marked external in
  `PROJECT.json`.
* Each model of a controller has a type invariant, `TypeOK`, or `ChangeTypeOK` in
  `DeployModeChange`, whose proofs share a module with those of `ComponentOrder`.
  It says that the model is well formed rather than anything about the code, so
  that the runs leave it out. It is proved of all of them (see [Proofs](#proofs)), as a theorem or as part of an
  inductive invariant.
* Definitions named `Mutant…` are variants of the definition that follows, with a
  bug that the code could have. The specifications do not use them; putting one
  in place of the original has to break the property named beside it in
  `PROJECT.json`.

## Modules

### MilvusUpgrade

Follows `MilvusUpgradeReconciler`. `status`, `operation` are the object; `seen`
is the informer's copy; `mem` the copy the running reconcile works on; `fresh`
says whether the object is still the one that was read, so that the status
update is accepted. `milvus`, `mread`, `mseen` are the Milvus object, the copy
the reconcile read, and the informer's; `alpha` the v1alpha1 object; `deploy` the
Deployments with their pods; `task`, `cache`, `meta`, `backup` the task pods, the
pod cache, the metadata in etcd and the content of the backup volume.

One reconcile is: `StartReconcile` (reads both objects, runs
`DetermineCurrentState`), then state functions until one returns no next state
or an error (one action each, `pc = "run"`), then `SaveStatus` (`pc = "save"`).
Every write of a state function takes effect in its action, the status only in
`SaveStatus`; `LoseStatus` is a crash or a failed update. Beside it run the
Milvus controller (`ReconcileDeploy`), the cluster (`SyncDeploy`), the clock
(`Deregister`, the minute that `isComponentsDeregistered` waits for), task pods,
informers, the conversion of the alpha object (`ConvertAlpha`), and users
(`RequestRollback`, `Rescale`).

`ReconcileDeploy` follows `updateDeployment`: replicas first, then the image, which
a Deployment with replicas gets only if `RollingUpdateImageDependencyReady` says so
where images are updated in order (`orderedImages`: rolling update with the modes
rollingUpgrade or rollingDowngrade). When that is, `ComponentOrder` tells; here it
is a free choice.

The pods of a Deployment are those it counts. Pods that were told to stop are in
no status, may take a month (`deployment_updater.go:577`) and are not modelled:
neither the code nor `QuietMeta` says anything of them but that a minute has
passed.

Taken as given: a task pod ends in success or failure (phase Unknown is left
out); the Milvus controller's handling of one Deployment is one step; the
conversion is one step; Deployments are listed as they are.

### ScalePlan, TwoDeployRollout

`ScalePlan` holds the pure functions of `deploy_ctrl_util.go` that plan the next
change of replicas, and the validation of `rollingUpdate`. `TwoDeployRollout`
extends it with the state: the Milvus object's two ids, both Deployments with
spec and status, pods per Deployment (of the present template, of an earlier
one, starting, ready, terminating), the managed HPA's target, three caches, and
`prep`, a reconcile between the two writes of `PrepareNewRollout`. `config` is
chosen once from a set of configurations: who decides on replicas (`static`,
`hpa`, `external`, `force`), strategy, limits of templates, replicas users ask
for, caches that lag.

Taken as given: a ready pod is available (`minReadySeconds` passes); the
ReplicaSet controller sees the latest Deployment; pods of every template become
ready in the end; an in-place replacement is one step.

### DeployModeChange

A reconcile runs the steps of `ChangeToTwoDeployMode` from the first and stops
at the first that wrote something; each write is an action guarded by the steps
before having nothing left to do. A crash needs no action: the next reconcile
starts over. The garbage collector (`OrphanReplicaSets`, `OrphanPods`,
`CollectReplicaSet`) and the controllers (`MakeReplicaSet`, `ReplacePod`,
`AdoptPod`, `CreatePod`) are included since the change relies on what they do
with objects whose owner or selector is gone.

### MilvusReconcile

`rec` and `sync` are the copies a reconcile and a round of the status loop work
on, with their next step. The reconcile is one invocation that may take several
writes: finalizer, default status, apply, status; on deletion: mark, delete in
the foreground, uninstall each release, remove the finalizer. Both loops write
the status computed by `NewStatus` if it differs and the object has not changed.
`ReconcileFails` is an error of one of the tasks that run side by side, or a
crash; the workload may have been written or not, and so may each release. Edits,
deletions, lost dependencies and failures share one bound, `MaxDisturbances`.
`ran` is a history of the images that the workload has run completely. `ordered`
says whether images are updated in order: only then does a Deployment with pods
keep its image until the status has caught up, and only then does
`GetMilvusUpdatedCondition` compare images.

Taken as given: one Deployment with one pod per image stands for the workload;
one in-cluster dependency with deletion policy Delete for the dependencies;
Deployment conditions follow from the pods.

### EndpointCheckCache

`pc` of each prober goes through `GetCondition` and `TryStartProbeFor` access by
access: look the lock up, install a new one, look it up again, compare and swap,
probe, store, look the lock up again, release. A lock is named by the prober
that allocated it. `LoopOf` groups probers by loop: a loop starts a round when
all its probers of the last round are done (`StartRound`). `HealthChanges` lets
dependencies go down and come back at any time, without a bound.

### Components, OrderedUpdate, ComponentOrder

`Components` has the lists of components by version and mode, the predicates on
the spec and the four dependency graphs, as functions. `ComponentOrder` is the
reconcile on a copy `rec` of the Milvus object: `ReconcileDeployments` writes all
Deployments whose turn it is, then the index node is removed, then the old
coordinators, then the status is written, each a write that can fail. `deploy`
is the Deployment of each component with the images of its pods, `seen` what the
cache shows. The status loop writes `componentsDeployStatus` at any time from the
cache (`SyncStatus`); `Roll` replaces the pods of one Deployment.

`OrderedUpdate` says what is promised, without reconciles, statuses or caches: a
plan (an image and who goes before whom) may change at any time and is taken up
at some time, and a component with pods moves to the plan's image only if all
those before it run this image and no other. `UpdatesInOrder` is this
specification with the plan mapped to the Milvus object and the plan in force to
the copy the reconcile works on.

Taken as given: rolling update is on, the default, and the mode is cluster;
`CacheKeepsUp` says that a reconcile sees the templates written by earlier ones
(statuses may be old).

### Workloads

`deploy` has the Deployments by workload (component and group) and slot, `sets`,
`claims`, `headless` the StatefulSets of the query node, `service` the selector
of the Service, `slot` and `labelled` the marks on the Milvus object. A reconcile
goes through `ReconcileDeployments` in order (`rec`): the workloads of the other
kind, each workload asked for, labels of pods, the groups no longer asked for,
the other mode; each write is a step. The Service is reconciled beside it on the
same copy. Users change mode, groups, kind, replicas and sizes to one of the
plans of `config`.

A Deployment is `ready` when its pod serves, and `available` when its condition
says so, which is all that `DeploymentReady` reads (`utils.go:257`). A Deployment
without replicas is available, and one that is scaled up stays so until the
Deployment controller has seen it (`Observe`). `idled` is a history: the Deployment
has been without replicas.

Taken as given: caches that are current; a Deployment that is ready stays so
until it is scaled; one that never had pods is available at once;
users give the standalone of a cluster up once its proxies serve and the operator
has nothing left to do; one proxy and one query node stand for the components with one and with two
Deployments.

### HelmRelease

One release of etcd, storage or Pulsar, with the StatefulSet `sts` of etcd, its
claims and the saved copy. `rec.step` goes through `ReconcileEtcd` (or
`ReconcileMinio`, `ReconcilePulsar`): `ensureEtcdChartVersion`, comparison with the
release, `reconcilePVCs` step by step (claims enlarged one by one, the old copy
deleted, the new one saved, the StatefulSet deleted and waited for, and created),
the Helm operation. Any call can fail (`CallFails`), the operator can crash
between any two (`Crash`), and inside Helm if `CrashInHelm`. `sseen` is the copy as
the cache shows it.

Taken as given: `back = FALSE` for etcd, volumes only grow; that Helm keeps a
claim template it cannot change and then fails (`Applies`).

### SpecDefaults, PodTemplate, MilvusRender

`SpecDefaults` is the webhook: defaults and validation as functions on a spec
whose fields have as many values as the code tells apart. `PodTemplate` is
`updateDeployment` for one component: which part of a template changes for which
reason. `MilvusRender` composes them: `Edit` by users, through the webhook where
there is one; the reconcile with defaults, the merge of legacy values, the
checksum of the Kafka credentials, then Helm values, ConfigMaps and the workload
as jobs that run side by side (`rec.todo`), any of which may fail; `Roll` of the
pods; `Rotate` of the Secret, `UpgradeOperator`, `KubectlRestart`, `Crash`.

Text is left out: a ConfigMap is the sections it has and where they come from, a
checksum is what it was computed over, the values of a chart are none, the
user's, those of the release, or those with the defaults of one version of the
operator. Two keys are not part of that: the `replicaCount` of etcd, which is a
field of its own (`etcdReplicas`), and the `mode` of MinIO. The defaults add both
to values of any kind that lack them (`milvus_webhook.go:606`, `:744`), to those read
back from a release as well, so that `ChartValuesKept` speaks of the values
without them.

## Runs

Runs that pass:

| Run | Bounds | What it shows |
|---|---|---|
| `upgrade_faults` | 2 workloads (one in a group), replicas 0 or 2, 1 retry, 2 faults, 1 rescale, Milvus cache lags | `BackupBeforeChange`, `OneTaskAtATime`, `RecordTakenOnce` hold through crashes, refused writes and retries. 1.6 million states. |
| `upgrade_outcome` | alpha object, one workload with HPA, both values of `rollbackIfFailed`, rollback requested at rest, images updated in order and not | Without faults an upgrade or rollback ends with metadata, image and replicas as promised, pods are up only on metadata of the version asked for, and tasks run only when no Deployment has pods. |
| `rollout` | 7 configurations with replicas set by users (with and without surge, same and new limits, 0 to 2 replicas, lagging caches; 1 pod failure), a managed HPA, an external autoscaler, the force mode (1 autoscaling); 2 edits, 3 without surge, 1 crash | Rollouts and rollbacks end, stay within surge and availability, never change a template in use, and leave the other Deployment idle. 490 thousand states. |
| `mode_change` | 2 pods, 2 ReplicaSets, 1 pod failure, 3 sets of lagging caches | Nothing is lost, pods are kept, the change ends. |
| `reconcile` | 2 images, 1 dependency, 2 disturbances; stopping only when dependencies are ready; images updated in order | Deletion, status and convergence of the loops. 456 thousand states. |
| `endpoint_cache` | 3 instances in 2 loops on one list of endpoints, health changes freely | Probes are bounded by locks, the cache catches up, loops never block. |
| `component_order` | 3 clusters (mixcoord, four coordinators, change data capture with an idle data node), images 2.5, another 2.5 and 2.6, up, down and all at once; 2 edits, 1 failed write | The reconciles refine `OrderedUpdate`, coordinators are never missing, every component is updated in the end. |
| `helm_release` | new and old releases of etcd (4 sizes, 2 replicas), storage, Pulsar; 3 edits, 3 faults | The chart is kept, etcd is upgraded only when that can succeed, no upgrade without a reason, a resize completes. |
| `workloads` | 8 instances: groups a and b that come and go, standalone to cluster and back and the other way round, an old instance, StatefulSets with 2 replicas and sizes, storage that does not grow; up to 3 edits, 1 crash | One kind at a time, the Service and the proxies keep serving, querynodes go when those in their place have replicas, the workloads end as the spec asks. 84 thousand states. |
| `pod_template` | external Kafka with groups and TLS, standalone new and old, change of the message stream, manual mode; with and without webhook; up to 2 edits, 2 rotations or operator upgrades, 1 crash | Pods mount what exists, nothing is restarted without a reason, values of running charts stay, everything converges. |

Two workloads are enough for the upgrade since state functions treat workloads
alike and only "all", "some", "grouped", "with HPA" differ. Two replicas are the
fewest with which a rollout has an intermediate step; a quarter of two rounds
down to zero, the edge the code guards against. Two edits allow a rollout, then
its reversal or a third state; with three, a rollout is reverted and started again
while pods of its first start still terminate. Two disturbances give every pair of edit, stop,
deletion, failure and lost dependency. Three probers are the fewest with two in one
loop beside another loop, and with a third to run into a race of two. Three
images are the fewest with a change within 2.5 and one across 2.6, and two edits
retarget an update midway or revert it. Three faults in `helm_release` interrupt a
resize, its repetition and the repetition of that; three edits give two further
resizes meanwhile. Two groups are the fewest with one that stays and one that
goes; an instance of `workloads` that takes two or three edits has a change reverted
or replaced while it is under way.

`CHECK_DEADLOCK FALSE` is set where the system may come to rest: rollouts, the
change of mode, an instance that is settled or gone, an update, a change of
workloads or a rendering that is complete; the liveness property of each says
that it rests only there. The upgrade, the endpoint cache and the releases run
with deadlock checking.

The properties hold under the constants shown, and some need them:

* `BackupBeforeChange`, `OneTaskAtATime` need `LagUpgrade = FALSE` once there are
  faults: a reconcile on a MilvusUpgrade older than its own last transition
  repeats a step. `OneTaskAtATime` also needs rollbacks to be requested at rest.
* `QuietMeta`, `VersionMatchesMeta`, `ReplicasRestored`, `RollbackRestores` and
  `UpgradeEnds` need no faults, a current Milvus cache, a rollback requested at
  rest and an instance that serves at the beginning. That pods themselves are of
  the version of the metadata (`PodsMatchMeta`) holds only where images are not
  updated in order.
* `LastIdle` needs a current Deployment cache when templates are reverted
  (see below); with one it is proved. The configuration of `rollout` whose
  Deployment cache lags has one edit.
* `FinishedMeansReplaced` needs a current pod cache in the force mode: with one
  that lags, pods that still terminate are missed.
* `SurgeRespected` and `Available` are about replicas set by users, and need
  current caches of Deployments and pods; they are proved from these.
* `PodsKept` and `Changes` need a ReplicaSet cache as new as the Deployment cache.
* `CurrentImageRan` leaves out caches that show a stopped workload, and is about
  the ordered modes: with `all`, `force` or no rolling update images are not
  compared (`status_cluster.go:670`).
* `UpdatesInOrder` needs `CacheKeepsUp`: an image changed and reverted at once,
  seen through a cache that shows the old template, breaks the order.
* `ResizeCompletes` needs `CacheKeepsUp`, `CrashInHelm = FALSE` and sizes of etcd
  that only grow. `ChartKept`, `ReadyForUpgrade` and `UpgradesBounded` need none of
  them; that is proved.
* `CoordinatorsServe` needs coordinators with replicas, `EndpointKept` modes that
  change as documented (`DocumentedModes`): a standalone with a pod, and an
  instance made by an old operator that moves to cluster mode only. It leaves out
  a standalone that has been without replicas and is gone back to.
* `ServingKept` and `Settles` of `Workloads` need instances that are not paused or
  in manual mode, and `Settles` leaves out what the code leaves to an
  administrator.
* `MountedExists` needs the active ConfigMap to be switched in manual mode only:
  outside it the other ConfigMap is not created.

## Where code and documentation differ

Runs that end in a violation, each of what a comment or document says, quoted in
`PROJECT.json`:

* `upgrade_rollback_midway`: a rollback requested in the middle of an upgrade
  can succeed without restoring metadata.
* `kafka_rotation`: with the default `updateConfigMapOnly`, rotated Kafka
  credentials change the ConfigMap and no template, so that no pod is replaced.

Configurations that are kept beside them; each checks one property, which TLC
finds violated:

* `upgrade_crash.cfg` (`ReplicasRestored`): Milvus is stopped before the record of
  its replicas is saved; a crash in between loses them (`milvusupgrade_fsm.go:193`),
  and the upgrade succeeds with no replicas.
* `upgrade_lost.cfg` (`UpgradeEnds`): `MetaStorageChanged` is set although the pod may
  not have been created, and the upgrade waits for ever (`milvusupgrade_fsm.go:229`).
* `upgrade_stopped.cfg` (`RollbackRestores`): an upgrade of a stopped instance
  records nothing; a rollback leaves the operator's default image
  (`milvusupgrade_fsm.go:191`).
* `upgrade_ordered.cfg` (`PodsMatchMeta`): `startMilvus` sets image and replicas at
  once, but where images are updated in order the Deployments get their replicas
  first (`deployment_updater.go:181`, `:474`) and start pods of the old image on the
  new metadata.
* `reconcile_modes.cfg` (`CurrentImageRanInEveryMode`): outside the ordered modes an
  image counts as current before the Deployment has it.
* `rollout_hpa_replicas.cfg` (`Settles`): with an HPA and `spec.replicas` above its
  minimum a rollout never ends and the HPA does not come back.
* `rollout_hpa_capacity.cfg` (`AvailableAutoscaled`): a rollback under an HPA
  trusts a ready count from before the Deployment was drained and drains the
  other one as well.
* `reconcile_stop.cfg` (`StopTakesEffect`): an instance stopped while its
  dependencies are not ready is never scaled down: the status loop removes the
  conditions of a stopping instance, and `ReconcileMilvus` waits for them.
* `endpoint_empty.cfg` (`BackoffOnlyAtStart`): the empty list of endpoints is
  locked and never unlocked, so `GetCondition` waits on every call.
* `etcd_saved.cfg` (`SavedBeforeDeletion`): `dependencies.go:347` says "Save the new
  StatefulSet before deletion sts". `SaveObject` looks into the cache first; a
  cache that still shows the copy just deleted makes it save nothing.
* `workloads_paused.cfg` (`ServingKept`): in a paused instance the Deployments of
  a new group are created without replicas, count as ready
  (`deployments.go:455`), and the group that serves is deleted.
* `workloads_back.cfg` (`EndpointKeptOnTheWayBack`): from standalone to cluster and
  back, the idle standalone is scaled up, is still available since it had no
  replicas, and all proxies are deleted in the same reconcile
  (`deployment_cluster_to_standalone.go:42`).
* `workloads_pairs.cfg` (`ServingKeptByPairs`): the pair of Deployments of a new group
  is made without replicas (`deploy_ctrl_util.go:206`), hence available, and then
  scaled; until the Deployment controller has seen that, it counts as ready and
  the group that serves is deleted (`deployments.go:548`).
* `workloads_pruned.cfg` (`StatefulSetsPruned`): a cluster that becomes standalone
  keeps StatefulSets, claims and headless Services, since
  `cleanupStatefulSetWorkloadModes` returns early (`statefulset.go:609`).

Further behaviours TLC found with other constants, for which no configuration is
kept:

* A stale MilvusUpgrade (`milvusupgrade_controller.go:85`) or a rescale between read
  and stop loses the replicas of an upgrade as the crash of `upgrade_crash.cfg` does.
  With a deployment group the upgrade then stops at an error instead.
* A lost status after the backup pod was created loses the name of the claim and
  the rollback does not end (`milvusupgrade_fsm.go:380`).
* One failed backup can use up several retries while the cache shows the deleted
  pod (`milvusupgrade_fsm.go:293`).
* `LastRolloutFinished` on a lagging Deployment cache clears the rolling id while
  the other Deployment has replicas (`deploy_ctrl_util.go:263`, `LastIdle`): it
  takes a template that is changed and changed back before the cache shows the
  first step. The planner drains the other Deployment later, so this heals,
  unless a further template is written to it before.
* The pods that run beside the replicas asked for can be more than maxSurge, by
  what `Excess` in `TwoDeployRollout` says. With maxSurge 1 and maxUnavailable 2,
  the last step of a rollout takes the other Deployment to zero at once, and the
  plan outside a rollout raises the current one while the old pods still run
  (`deploy_ctrl_util.go`, `planScaleForNormalState`). A component that is stopped
  and started again in the middle of a rollout has old pods without replicas as
  well, and a template with new limits gets all its replicas beside the old ones:
  both can double the pods.
* Where no surge is allowed, pods that still terminate can outnumber the replicas:
  a rollout that is reverted and started again finds pods of the old template
  that run beside others of them that terminate. No replica is added meanwhile,
  which is what `SurgeRespected` says of this case.
* Two probers can probe the same endpoints at once: the first look-up and the
  installation of the lock are two steps (`endpoint_check_cache.go:46`).
* ReplicaSets saved from a cache that still shows their owner are garbage
  collected with their pods (`deploy_mode_changer.go:147`).
* After a restart, a cache that still shows the stopped workload lets the new
  image count as current before it runs (`component_condition.go:92`).
* A crash inside a Helm operation leaves the release pending. `NeedUpdate`
  (`pkg/helm/helm.go`) takes only "failed" for a reason, so an installation that
  was cut off counts as done, and an upgrade is refused for ever (`ResizeCompletes`
  with `CrashInHelm`).
* A user who returns to the old size of etcd after the StatefulSet was deleted is
  left without one: the release has the values asked for, and the reconcile ends
  before `reconcilePVCs` (`ResizeCompletes` with `back = TRUE`).
* A StatefulSet of etcd that is still being deleted is taken for one that is
  there; with two interruptions its claims are not enlarged.
* A crash between deleting the two Deployments of a pair, and the component asked
  for again, ends in an error that asks for an administrator (`Workloads`).
* A crash between deleting a StatefulSet and its claims leaks the claims.

Met while translating, and outside of what a property says: the comment at
`components_types.go:224` gives the opposite default of `updateConfigMapOnly`; a
template from before the variable of the layered configuration is restarted once
by a new operator; `enableRollingUpdate` stays off after leaving rocksmq; labels
and volumes that are removed from a spec without groups stay in the template.

## Fairness

Weak fairness is assumed of what the code or the cluster keeps doing, never of
users, autoscalers, faults or failing pods:

* Reconciles: controller-runtime requeues a reconcile that returned an error,
  `ErrRequeue` or a requeue time, every write to a watched object queues another
  one, and a restarted operator reconciles every object. The upgrade controller
  requeues every state that is not in `NoRequeueStates`.
* The status loops: a ticker starts them again, and every probe has a time limit.
* Kubernetes: Deployment and ReplicaSet controllers, kubelet and garbage
  collector make progress; informers deliver in the end.
* A task pod ends, in success or in failure: fairness is on the disjunction, so
  no task is promised to succeed. In `MilvusReconcile` an installed dependency
  comes up again; it may go down as often as `MaxDisturbances` allows.
* Users who resize etcd or change groups: nothing is assumed of them; the
  properties speak of the time after their last edit, which the bounds ensure.

In all modules with one worker per object (`MilvusReconcile`, `DeployModeChange`,
`ComponentOrder`, `HelmRelease`, `Workloads`, `MilvusRender`) fairness is on the
disjunction of the operator's steps: the worker does one thing after the other,
and failing is neither promised nor excluded. In `EndpointCheckCache`
it is per goroutine and per loop.

Where less is enough, less is assumed: a disjunction of steps of several actors says
only that not all of them stop while one of them has something to do. In
`ComponentOrder` one such condition covers the reconcile, the status loop, the cache
and the pods; in `MilvusReconcile` one covers Kubernetes, the caches and the
dependencies, beside one for the reconcile and one for the status loop. In
`TwoDeployRollout` one covers the deploy controller, the HPA's reconcile and the
cluster, and one the three caches. The caches are apart since a controller that
reads an outdated Milvus object can repeat itself (`PrepareNewRollout`, then
`SetRolling`, which is refused) until the cache catches up.

## Proofs

Every theorem is for all values of the constants that the named `ASSUME`s of the
modules allow; TLC evaluates these in every run. Where a theorem needs more (a
cache that keeps up, no faults), it says so in an `ASSUME` of its own, whose name
stands in brackets here. Types aside, none of the properties is inductive as it
stands; the invariants named below are, and TLC found no violation of them on the
instances of the runs.

`MilvusUpgradeProofs`, for all workloads, replicas, retries, faults:

* `TypeCorrect`: `Spec => []TypeOK`. More than types: the retries of the backup
  stay within `maxRetry`. One step per action.
* `BackupPrecedesChange` [`~LagUpgrade`]: `BackupBeforeChange` holds for any number
  of faults, retries and rescales, and for rollbacks requested at any time. That
  the update task is absent until the backup is complete depends on what status
  and memory believe. `MetaInv` adds that what the saved status and the status in
  memory say of the backup is true (`StatusTrue`), that a backup pod the cache
  shows as succeeded did succeed (`BackupSeen`), that no later task exists before
  the backup (`BackupFirst`), and that a reconcile which may create the backup
  pod did not start from a failed one (`NoLateBackup`).
* `RecordIsTakenOnce`: `RecordTakenOnce`, whatever fails, lags or is asked for.
  `RecordInv`: a reconcile whose save will be accepted (`fresh`) has in memory what
  is saved.
* `TasksInTurn` [`~LagUpgrade`, `RollbackAtRest`]: `OneTaskAtATime`. `TurnInv` says of
  the migration what `MetaInv` says of the backup, that a rollback begins when the
  migration has ended, and that one that is asked for at rest is begun before
  anything else.
* `MetaIsQuiet`, `VersionAlwaysMatches`, `ReplicasAreRestored`,
  `RollbackAlwaysRestores` [`Undisturbed`: no faults, rescales or lagging caches,
  rollbacks at rest, an instance that runs at the beginning]: what an upgrade
  and a rollback promise, whichever tasks fail and are retried. One invariant,
  `OutcomeInv`, carries all four: the record is complete before Milvus is stopped
  (`RecordFirst`); nobody else writes the Milvus (`OwnMilvus`); a Milvus marked as
  stopped has no pods (`StopSeen`); it is so while a task runs (`DownWhile`); the
  tasks that have ended determine the version of the metadata (`MetaKnown`), and
  what runs or will be started is of that version (`ImagesMatch`).

`TwoDeployRolloutProofs`, for all strategies, modes, replicas, edits, autoscalings,
crashes and pod failures:

* `RolloutCanProgress`: for every strategy the validation accepts and every
  positive number of replicas, `rolloutSteps` allows a pod to be added or taken
  away. The argument is that percentages of maxSurge round up, and that the code
  lifts maxUnavailable to one when both come out as zero.
* `PlanKeepsReplicas`: `planScaleForRollout` never asks for negative replicas.
* `PlanRespectsSurge`: with equal limits or no surge, a planned step leaves at
  most expected plus surge replicas, or no more than there were. This and all that
  is said of the plan below comes from one lemma, `RolloutPlanSteps`, which sums up
  the three ways of `planScaleForRollout`.
* `RolloutTypes`: `Spec => []TypeOK`; it rests on every planner, not only that of a
  rollout, leaving both Deployments with replicas of zero or more (`Fits`).
* `LastAlwaysIdle`, `TemplateIsFixed` [`DeploysSeen`]: outside a rollout the last
  Deployment has no replicas, and a template changes only where there are none.
  `IdleInv` says the same of the copy of the Milvus object that is read, which
  may be old (`SeenIdle`), that such a copy still names the current slot
  (`SeenCurrent`), and that a slot is current only when its Deployment is there.
* `FinishedIsReplaced` [`DeploysSeen`, `PodsSeen`]: `OldKnown` ties the counts in a
  status that is of its generation to the pods of older templates.

`TwoDeployPodsProofs`, on top of these, for the pods of a rollout:

* `AlwaysAvailable` [`DeploysSeen`, `PodsSeen`]: with replicas set by users, moving
  them between the Deployments leaves the number of ready pods guaranteed. The
  step alone does not say so: a Deployment may be scaled below its pods long
  before these end. `ServedInv` adds that whenever a Deployment has more pods than
  replicas, its replicas and the ready pods the other one keeps are enough
  (`Enough`), that outside a rollout the last Deployment has no pods
  (`EmptyBeside`), that none is of an older template (`PodsUpToDate`), and that no
  copy of the Milvus object asks for fewer than the least the user asked for
  (`FloorKnown`). That a step of the plan keeps `Enough` is arithmetic on the
  planner, `RolloutPlanServes`.
* `SurgeIsRespected` [`DeploysSeen`, `PodsSeen`]: with replicas set by users, the
  two Deployments run no more pods than the most replicas asked for so far and
  `Excess`, and without surge a replica is added only where the pods of the other
  Deployment, terminating ones included, leave room. `Excess` is the larger of
  maxSurge and maxUnavailable, zero without surge, and as much as the replicas if
  templates differ in limits or the component may be stopped. Pods alone are not
  inductive, since a Deployment may have more replicas than pods: `SurgeInv` bounds
  the larger of the two for each slot (`Cap`), for both together, and the pods of a
  slot without replicas, which is what planScaleForNormalState fills up beside.
  Which template the two Deployments have decides on the plan; `TemplateGiven`
  says that a Deployment with replicas, or that is about to get some, has one of
  the user's and not the placeholder it was created with. That the plan keeps
  within the bounds is arithmetic (`RolloutPlanBounds`), as is that they grow with
  the replicas (`StepsGrow`): the controller may act on an old copy that asks for
  fewer.

`ComponentOrderProofs`, its part on the change of mode, for any sets of pods and
ReplicaSets, any pod failures and any caches that lag:

* `ModeTypeCorrect`, `NothingDeletedUnsaved`: the old Deployment and the old
  ReplicaSets are deleted only when they are saved. The invariant adds
  `AllSetsSaved`, that the saved list of ReplicaSets is complete or absent, as it
  is taken once and before the first of them is deleted.
* `NothingStaysBehind`, `PodsAlwaysKept` [`PodsSeen`]: no trace of the old mode when
  the annotation is gone, and no pod restarted where the owner references are
  seen. `SettledInv`: what is created anew is created when the old objects are
  gone and every pod has its new label (`SettledFirst`), although the reconcile
  knows the pods from a cache only. `CacheKnows` is why that is enough: a cache
  that shows one pod of the new label shows every pod that still has the old
  one. A cache that shows no living pod at all would say nothing, hence
  `PodsSeen`: with a pod cache that lags, not all pods die.

`HelmReleaseProofs`, for any sizes, replicas, edits and faults, also with crashes
inside Helm, a cache that lags and sizes that shrink:

* `ReleaseInvariant`, `ChartIsKept`, `UpgradeIsReady`: a release never changes its
  chart, and Helm is asked to upgrade etcd only when the StatefulSet is absent or
  has the size asked for. Neither follows from the step alone: `VersionKnown` says
  that the version in the spec, and in every copy a reconcile works on, is empty
  or that of the release, so that an upgrade asks for the chart there is;
  `KindKnown` the same for the other kinds; `ReleaseKnown` ties the steps to
  whether there is a release; `UpgradePrepared` carries the StatefulSet that
  `reconcilePVCs` left through to the end of the upgrade. Most steps only move the
  reconcile on, which one lemma, `GotoInv`, covers.
* `UpgradesAlwaysBounded`: at most one upgrade for each edit and each fault.
  `OwedInv` counts the upgrades still to come: one if the release is behind what
  the reconcile read, one more if the spec has changed since. Upgrades made and
  owed never exceed edits and faults.

`ComponentOrderProofs`, its part on the order of updates, for any images, instances, edits and failed writes:

* `CoordinatorsAlwaysServe` [`CoordinatorsHaveReplicas`]: a complete set of
  coordinators has pods at any time. A status or a copy that shows mixcoord
  complete has seen its pods (`MixCoordStarted`), and only then are the old
  coordinators removed.
* `UpdatesAreOrdered` [`CacheKeepsUp`]: the refinement of `OrderedUpdate`, under the
  mapping the run checks. `OrderInv`: a status of the present generation that calls
  a component updated is right (`StatusIsTrue`), and so is the copy a reconcile
  decides from (`CopyIsTrue`), since what the cache shows with the image of the
  spec has it (`SeenIsDeployed`) and a generation has one spec (`Generations`).

`WorkloadsProofs`, for any instances, groups, edits and crashes:

* `OneKindOnly`: `KindInv` follows what is left of the other kind through the steps
  of a reconcile, so that there is nothing left when the loop over the workloads
  begins.
* `ServingAlwaysKept` [`Unheld`: not paused, no manual scaling]: proxies that
  are about to lose Deployments of other groups have one that is ready and stays
  (`Covered`), and the condition Available is enough to know that, since a proxy never
  is without replicas (`ProxyReplicas`). For querynodes that is not so. `PairsDone` says
  that a pair passed by the loop without an error has replicas, and `Replaced` that
  this is still so while others are deleted in its favour.
* `EndpointAlwaysKept` [`DocumentedModes`]: `Labels`, the Service selects the label
  only after the pods have it; `OldService`, until then there is the standalone it
  selects by name; `Labelling`, an old instance that has got proxies is not left
  before its Service is changed; `Handover`, proxies serve before the standalone
  goes, and the other way round, which rests on a standalone that was never
  without replicas being available only when it serves (`AloneHonest`).

`MilvusReconcileProofs`, for any images, dependencies and disturbances:

* `ReconcileTypeCorrect`: `Spec => []TypeOK`.
* `GoneIsUninstalled`, `DeletingStaysFinal`: `DeletionInv` says that an object being
  deleted without its finalizer has nothing installed and no reconcile at work
  (`Released`), and that every other copy that is worked on is from before the
  deletion (`CopiesAlive`), so that a status written from it is refused.
* `CurrentImageHasRun`: `RanInv` says that what the caches show as
  complete and not stopped has run, however old they are.

In the same module, on `EndpointCheckCache`, for any number of instances, loops and
endpoints:

* `CacheInvariant`, `CacheTypeCorrect`, `ProbesAreBounded`: at most as many probes of
  the same endpoints run at once as locks were allocated for them. The
  invariant counts: probers that probe plus free locks are never more than the
  locks allocated. Allocation adds a free lock, taking one trades it for a
  prober, and a prober that ends frees at most one lock, whichever it finds in
  the cache. `LocksKnown` says that the lock found was allocated for the same
  endpoints.

`MilvusRenderProofs`, for any specs, edits, versions of operator and Secret,
restarts and crashes, with and without webhook:

* `RenderTypes`: `Spec => []TypeOK`. A ConfigMap has the sections of a message
  stream, so the types need `RecOK`: a reconcile past its defaults works on a spec
  that names one, and on the spec it last read or wrote.
* `MountedConfigMap` [`ActiveKnown`: manual mode is never left, or the active
  ConfigMap is never changed]: `MountedExists`. `MapsOK` adds that every copy of the
  spec names an active ConfigMap that may be mounted, that outside manual mode
  only this one is ever created, and that it is there before the Deployment is
  written, although both are jobs of one parallel run.
* `RestartsExplained`: `NoIdleRollout`, with no condition. `LastOK` says that the
  template is a fixed point of what it was last rendered from: `updateDeployment`
  with the same spec, checksum and go-ahead for the image would change none of
  its fields, whichever operator does it. Then a changed template has another
  source.
* `ReleasesKept` [`ValuesLeft`: users do not edit the values of dependencies]:
  `ChartValuesKept`. `ValuesOK` says of the stored Milvus, and of every copy on its
  way through a reconcile, that values once given to a release are in the spec, or
  that the object is marked as one of an older operator whose values are yet to be
  read back, in which case the reconcile reads them before it comes to Helm.

Only checked by TLC:

* all liveness (`UpgradeEnds`, `Settles`, `Changes`, `Converges`, `CacheCatchesUp`,
  `RoundsEnd`, `EveryComponentUpdated`, `ResizeCompletes`), which is beyond the
  prover.

Every invariant and every action property of the runs that pass is proved, under
the conditions given.

## What is not modelled

* In modelled parts. Rollout: the metadata of groups; a template whose pods never
  become ready (it blocks every later template but the one before it, since a
  step waits for all pods of both Deployments, `deploy_ctrl_util.go:659`). Change
  of mode: rescaling meanwhile and a second change, which would find the
  ControllerRevisions of the first (`rollout_util.go:62`). Endpoint cache: answers
  to different credentials for the same endpoints (`endpoint_check_cache.go:35`),
  panics in probes. Status: error details and the ingress. HPA: the contents of
  the object. Update order: components with two Deployments and groups, which
  `TwoDeployRollout` and `Workloads` have one by one. Workloads: caches that lag,
  `RemoveOldStandlone`, pods that are restarted after they were labelled.
  Rendering: probes, resources, affinity, sidecars, the text of the
  configuration; panics that the parallel runner recovers. Releases: the parts
  of a chart, and a Milvus object recreated over a release that was retained.
* The conversion of v1alpha1 objects: only what it does to an upgrade is
  modelled, in `MilvusUpgrade`. It copies one spec into another.
* Without a protocol: ingress, volumes and monitors (one create-or-update each);
  clients of external services, where a probe is one step; manager, flags,
  metrics; tools that run in pods; generated code.
