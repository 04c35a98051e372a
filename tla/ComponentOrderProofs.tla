------------------------ MODULE ComponentOrderProofs ------------------------
(***************************************************************************)
(* The order of image updates, for every set of images, every instance,    *)
(* every sequence of edits and every number of failed writes: a cluster    *)
(* that replaces its coordinators keeps a complete set of them, and, where *)
(* a reconcile sees what earlier ones wrote, the reconciles implement the  *)
(* ordered update of OrderedUpdate.  At the end, the change of a component *)
(* to two Deployments, for any number of pods and ReplicaSets, whatever    *)
(* the caches show and wherever a reconcile is cut off: nothing that it    *)
(* deletes is lost, nothing of the old mode stays behind, and no pod is    *)
(* restarted by it.                                                        *)
(***************************************************************************)
EXTENDS ComponentOrder, DeployModeChange, FiniteSetTheorems, TLAPS

\* Zenon proves what follows; the steps that need arithmetic cite SMT.
USE Zenon

-----------------------------------------------------------------------------
(* What the operators of Components and ComponentOrder return.              *)

LEMMA ConfigType ==
  ASSUME NEW c \in Configs
  PROVE  /\ c.spec \in SpecType /\ c.spec.mode = "cluster"
         /\ c.edits \subseteq [image: Images, update: {"rollingUpgrade", "rollingDowngrade", "all", "force"}]
         /\ c.idle \subseteq Names /\ c.maxEdits \in Nat
BY OrderAssumption DEF Names

\* Defaulting keeps the image, the mode and the fields that are there.
LEMMA DefaultsType ==
  ASSUME NEW s \in SpecType
  PROVE  /\ DefaultComponents(s) \in SpecType
         /\ DefaultComponents(s).image = s.image /\ DefaultComponents(s).mode = s.mode
         /\ s.fields \subseteq DefaultComponents(s).fields
<1>1. DefaultCoordinators(s) \subseteq AllComponents
  BY DEF DefaultCoordinators, MilvusCoords, AllComponents, MixtureComponents, MilvusComponents
<1>2. {"standalone"} \cup ClusterFields \cup {"indexnode", "streamingnode"} \subseteq AllComponents
  BY DEF ClusterFields, AllComponents, MixtureComponents, MilvusComponents, Milvus26Components
<1> QED
  BY <1>1, <1>2 DEF DefaultComponents, SpecType

\* The graphs name no component but those of a cluster.
LEMMA BeforeType ==
  ASSUME NEW m, NEW c
  PROVE  Before(m, c) \subseteq Names
<1>1. \A graph \in {ClusterGraph, MixCoordGraph, StreamingNodeGraph, Upgrade26Graph} :
        Dependencies(graph, c) \subseteq Names /\ ReversedDependencies(graph, c) \subseteq Names
  <2>1. ClusterGraph \cup MixCoordGraph \cup StreamingNodeGraph \cup Upgrade26Graph \subseteq Names \X Names
    BY SMT DEF Names, AllComponents, MixtureComponents, MilvusComponents, Milvus26Components,
               MilvusCoords, ClusterGraph, MixCoordGraph, StreamingNodeGraph, Upgrade26Graph
  <2>2. \A e \in Names \X Names : e[1] \in Names /\ e[2] \in Names
    BY SMT
  <2> QED
    BY <2>1, <2>2 DEF Dependencies, ReversedDependencies
<1>2. "cdc" \in Names
  BY DEF Names, AllComponents
<1>3. GetDependenciesFor26Upgrade(m.spec, c) \subseteq Names
  BY <1>1 DEF GetDependenciesFor26Upgrade
<1>4. GetDependencies(m.spec, c) \subseteq Names
  BY <1>1 DEF GetDependencies
<1> QED
  BY <1>2, <1>3, <1>4 DEF Before

\* What a reconcile takes offline is not of the spec it works on.
LEMMA OfflineUndeployed ==
  ASSUME NEW s
  PROVE  /\ IsVersionGreaterThan26(s) => "indexnode" \notin Deployed(s)
         /\ UseMixCoord(s) => \A c \in MilvusCoords : c \notin Deployed(s)
<1>1. IsVersionGreaterThan26(s) => "indexnode" \notin Deployed(s)
  BY DEF Deployed, GetComponentsBySpec, Milvus26Components
<1>2. UseMixCoord(s) => \A c \in MilvusCoords : c \notin Deployed(s)
  BY DEF Deployed, GetComponentsBySpec, Milvus26Components, MixtureComponents, MilvusCoords
<1> QED
  BY <1>1, <1>2

LEMMA DeployedType == ASSUME NEW s PROVE Deployed(s) \subseteq Names
<1>1. {"standalone", "streamingnode", "cdc"} \subseteq AllComponents
  BY DEF AllComponents, Milvus26Components
<1> QED
  BY <1>1 DEF Deployed, GetComponentsBySpec, Names, AllComponents

LEMMA StatusType ==
  ASSUME NEW s, NEW view \in [Names -> DeployType], config \in Configs
  PROVE  DeployStatus(s, view) \in [Names -> [image: Images \cup {NoImage}, complete: BOOLEAN]]
BY DEF DeployStatus, DeployType, Complete

\* A new status keeps spec and generation, and is that of the generation.
LEMMA NewStatusType ==
  ASSUME NEW m \in MilvusType, TypeOK
  PROVE  /\ NewStatus(m) \in MilvusType
         /\ NewStatus(m).spec = m.spec /\ NewStatus(m).gen = m.gen /\ NewStatus(m).observed = m.gen
         /\ NewStatus(m).com = DeployStatus(m.spec, seen)
<1>1. DeployStatus(m.spec, seen) \in [Names -> [image: Images \cup {NoImage}, complete: BOOLEAN]]
  BY StatusType DEF TypeOK
<1>2. m.spec.image \in Images
  BY DEF MilvusType, SpecType
<1> QED
  BY <1>1, <1>2 DEF NewStatus, MilvusType

-----------------------------------------------------------------------------
(* The inductive invariant.                                                 *)

\* The component runs the image, and nothing else.
Runs(c, image) ==
  deploy[c].image = image /\ deploy[c].pods = IF c \in config.idle THEN {} ELSE {image}

\* A Deployment that does not exist or has no replicas has no pods.
NoPods ==
  \A c \in Names :
    /\ deploy[c].image = NoImage \/ c \in config.idle => deploy[c].pods = {}
    /\ seen[c].image = NoImage \/ c \in config.idle => seen[c].pods = {}

\* The cache lags behind by at most one image: the operator writes a Deployment
\* only when the cache shows it as it is.
CacheLag == \A c \in Names : seen[c].image = deploy[c].image => seen[c] = deploy[c]

\* A generation has one spec, and the status is up to date only with the
\* generation that the last reconcile read.
Generations ==
  /\ rec.mc.observed <= rec.mc.gen /\ mc.observed <= mc.gen
  /\ rec.mc.gen <= mc.gen
  /\ rec.mc.gen = mc.gen => rec.mc.spec = mc.spec
  /\ mc.observed = mc.gen => rec.mc.gen = mc.gen

\* Once a reconcile has started on the spec, a Deployment that the cache shows
\* with its image has it.
SeenIsDeployed ==
  rec.mc.gen = mc.gen =>
    \A c \in Deployed(mc.spec) :
      seen[c].image = mc.spec.image => deploy[c].image = mc.spec.image

\* A status of the current generation that says updated is right.
StatusIsTrue ==
  mc.observed = mc.gen =>
    \A c \in Names : IsImageUpdated(mc, c) => c \in Deployed(mc.spec) /\ Runs(c, mc.spec.image)

\* So is the copy a reconcile decides from, until it has written.
CopyIsTrue ==
  rec.step = "apply" /\ rec.mc.observed = rec.mc.gen =>
    \A c \in Names : IsImageUpdated(rec.mc, c) => Runs(c, rec.mc.spec.image)

OrderInv ==
  /\ TypeOK /\ NoPods /\ CacheLag /\ Generations
  /\ SeenIsDeployed /\ StatusIsTrue /\ CopyIsTrue

\* A status or a copy that shows mixcoord complete has seen its pods.
MixCoordStarted ==
  /\ TypeOK
  /\ seen["mixcoord"].pods # {} => deploy["mixcoord"].pods # {}
  /\ mc.com["mixcoord"].complete => deploy["mixcoord"].pods # {}
  /\ rec.mc.com["mixcoord"].complete => deploy["mixcoord"].pods # {}
  /\ CoordinatorsServe

-----------------------------------------------------------------------------
(* Types.                                                                   *)

LEMMA OrderTypeInit == Init => TypeOK
<1> SUFFICES ASSUME Init PROVE TypeOK
  OBVIOUS
<1> DEFINE spec == DefaultComponents(config.spec)
<1>1. config \in Configs /\ spec \in SpecType /\ spec.image \in Images
  BY ConfigType, DefaultsType DEF Init, SpecType
<1>2. deploy \in [Names -> DeployType]
  BY <1>1 DEF Init, DeployType, NoDeploy
<1>3. DeployStatus(spec, deploy) \in [Names -> [image: Images \cup {NoImage}, complete: BOOLEAN]]
  BY <1>1, <1>2, StatusType
<1>4. mc = [spec |-> spec, gen |-> 1, observed |-> 1, current |-> spec.image,
            com |-> DeployStatus(spec, deploy)]
  BY DEF Init
<1>5. mc \in MilvusType
  BY <1>1, <1>3, <1>4 DEF MilvusType
<1>6. rec \in [mc: MilvusType, step: {"idle", "apply", "indexnode", "coordinators", "status"}]
  BY <1>5 DEF Init
<1>7. edits \in 0..config.maxEdits /\ failures \in 0..MaxFailures
  BY SMT, <1>1, ConfigType, OrderAssumption DEF Init
<1> QED
  BY <1>1, <1>2, <1>5, <1>6, <1>7 DEF Init, TypeOK

\* A write of another spec makes a new generation and keeps the status.
LEMMA RespecType ==
  ASSUME NEW m \in MilvusType, NEW s \in SpecType
  PROVE  LET n == [m EXCEPT !.spec = s, !.gen = @ + 1]
         IN  /\ n \in MilvusType
             /\ n.gen = m.gen + 1 /\ n.spec = s /\ n.observed = m.observed /\ n.com = m.com
<1>1. [m EXCEPT !.spec = s] \in MilvusType
  BY DEF MilvusType
<1>2. ASSUME NEW k \in MilvusType PROVE [k EXCEPT !.gen = m.gen + 1] \in MilvusType
  BY SMT DEF MilvusType
<1>3. [m EXCEPT !.spec = s, !.gen = @ + 1] \in MilvusType
  BY <1>1, <1>2
<1> QED
  BY <1>3 DEF MilvusType

LEMMA UpdatedType ==
  ASSUME TypeOK, NEW C, NEW image \in Images
  PROVE  Updated(C, image) \in [Names -> DeployType]
BY DEF TypeOK, Updated, DeployType

\* Taking components offline, whatever they are: the write of the Milvus makes
\* a new generation, or there is none.
LEMMA OfflineWrites ==
  ASSUME TypeOK, NEW C, NEW next \in {"coordinators", "status"}, Offline(C, next)
  PROVE  /\ mc' \in MilvusType
         /\ \/ mc' = mc
            \/ /\ rec.mc = mc /\ mc'.gen = mc.gen + 1
               /\ mc'.observed = mc.observed /\ mc'.com = mc.com
         /\ rec' \in [mc: MilvusType, step: {"idle", "coordinators", "status"}]
         /\ rec'.mc = rec.mc
<1>1. rec.mc \in MilvusType
  BY DEF TypeOK
<1>2. [rec.mc.spec EXCEPT !.fields = @ \ C] \in SpecType
  BY <1>1 DEF MilvusType, SpecType
<1>3. LET n == [rec.mc EXCEPT !.spec.fields = @ \ C, !.gen = @ + 1]
      IN  /\ n \in MilvusType
          /\ n.gen = rec.mc.gen + 1 /\ n.observed = rec.mc.observed /\ n.com = rec.mc.com
  BY <1>1, <1>2, RespecType
<1>4. rec' \in [mc: MilvusType, step: {"idle", "coordinators", "status"}] /\ rec'.mc = rec.mc
  BY DEF Offline, TypeOK
<1>5. \/ mc' = mc
      \/ rec.mc = mc /\ mc' = [rec.mc EXCEPT !.spec.fields = @ \ C, !.gen = @ + 1]
  BY DEF Offline, Written
<1>6. mc \in MilvusType
  BY DEF TypeOK
<1> QED
  BY <1>3, <1>4, <1>5, <1>6

LEMMA OfflineType ==
  ASSUME TypeOK, NEW C, NEW next \in {"coordinators", "status"},
         Offline(C, next), UNCHANGED <<config, seen, edits>>
  PROVE  TypeOK'
<1>1. deploy' \in [Names -> DeployType]
  BY DEF Offline, TypeOK, DeployType, NoDeploy
<1>2. /\ mc' \in MilvusType
      /\ rec' \in [mc: MilvusType, step: {"idle", "apply", "indexnode", "coordinators", "status"}]
  BY OfflineWrites
<1>3. failures' \in 0..MaxFailures
  BY SMT, OrderAssumption DEF Offline, TypeOK
<1> QED
  BY <1>1, <1>2, <1>3 DEF Offline, TypeOK

LEMMA GenerationType ==
  ASSUME TypeOK
  PROVE  /\ mc.gen \in Nat /\ mc.observed \in Nat
         /\ rec.mc.gen \in Nat /\ rec.mc.observed \in Nat
BY DEF TypeOK, MilvusType

LEMMA SkipType ==
  ASSUME TypeOK, NEW next \in {"coordinators", "status"}, Skip(next), UNCHANGED <<config, seen, edits>>
  PROVE  TypeOK'
BY DEF Skip, TypeOK

LEMMA OrderTypeStep == TypeOK /\ [Next]_vars => TypeOK'
<1> SUFFICES ASSUME TypeOK, [Next]_vars PROVE TypeOK'
  OBVIOUS
<1>1. CASE StartReconcile
  BY <1>1 DEF StartReconcile, TypeOK
<1>2. CASE ReconcileDeployments
  <2>1. PICK failed \in {{}} \cup (IF failures < MaxFailures THEN {{c} : c \in Updates(rec.mc)} ELSE {}) :
          LET done == {c \in Updates(rec.mc) \ failed : Fresh(c)}
          IN  /\ deploy' = Updated(done, rec.mc.spec.image)
              /\ rec' = [rec EXCEPT !.step = IF done = Updates(rec.mc) THEN "indexnode" ELSE "idle"]
              /\ due' = (due \/ done # Updates(rec.mc))
              /\ failures' = failures + Cardinality(failed)
    BY <1>2 DEF ReconcileDeployments
  <2>2. failures' \in 0..MaxFailures
    <3>1. failed = {} \/ (failures < MaxFailures /\ \E c : failed = {c})
      BY <2>1
    <3>2. Cardinality(failed) = 0 \/ (failures < MaxFailures /\ Cardinality(failed) = 1)
      BY <3>1, FS_EmptySet, FS_Singleton
    <3> QED
      BY SMT, <2>1, <3>2, OrderAssumption DEF TypeOK
  <2>3. rec.mc.spec.image \in Images
    BY DEF TypeOK, MilvusType, SpecType
  <2>4. deploy' \in [Names -> DeployType]
    BY <2>1, <2>3, UpdatedType
  <2>5. rec' \in [mc: MilvusType, step: {"idle", "apply", "indexnode", "coordinators", "status"}]
    BY <2>1 DEF TypeOK
  <2>6. due' \in BOOLEAN
    BY <2>1 DEF TypeOK
  <2> QED
    BY <1>2, <2>2, <2>4, <2>5, <2>6 DEF ReconcileDeployments, TypeOK
<1>3. CASE CleanupIndexNodeIfNeeded
  BY <1>3, OfflineType, SkipType DEF CleanupIndexNodeIfNeeded
<1>4. CASE CleanupCoordinatorsIfNeeded
  BY <1>4, OfflineType, SkipType DEF CleanupCoordinatorsIfNeeded
<1>5. CASE UpdateStatus
  <2>1. NewStatus(rec.mc) \in MilvusType
    BY NewStatusType DEF TypeOK
  <2>2. mc' \in MilvusType
    BY <1>5, <2>1 DEF UpdateStatus, Written, TypeOK
  <2> QED
    BY <1>5, <2>2 DEF UpdateStatus, TypeOK
<1>6. CASE SyncStatus
  <2>1. NewStatus(mc) \in MilvusType
    BY NewStatusType DEF TypeOK
  <2> QED
    BY <1>6, <2>1 DEF SyncStatus, TypeOK
<1>7. CASE SyncCache
  BY <1>7 DEF SyncCache, TypeOK
<1>8. ASSUME NEW c \in Names, Roll(c) PROVE TypeOK'
  <2>1. deploy' \in [Names -> DeployType]
    BY SMT, <1>8 DEF Roll, TypeOK, DeployType
  <2> QED
    BY <1>8, <2>1 DEF Roll, TypeOK
<1>9. ASSUME NEW e \in config.edits, Edit(e) PROVE TypeOK'
  <2>1. e \in [image: Images, update: {"rollingUpgrade", "rollingDowngrade", "all", "force"}]
    BY ConfigType DEF TypeOK
  <2>2. [mc.spec EXCEPT !.image = e.image, !.update = e.update] \in SpecType
    BY <2>1 DEF TypeOK, MilvusType, SpecType
  <2>3. DefaultComponents([mc.spec EXCEPT !.image = e.image, !.update = e.update]) \in SpecType
    BY <2>2, DefaultsType
  <2>4. mc' \in MilvusType
    BY <1>9, <2>3, RespecType DEF Edit, TypeOK
  <2> QED
    BY SMT, <1>9, <2>4, ConfigType DEF Edit, TypeOK
<1>10. CASE UNCHANGED vars
  BY <1>10 DEF vars, TypeOK
<1> QED
  BY <1>1, <1>2, <1>3, <1>4, <1>5, <1>6, <1>7, <1>8, <1>9, <1>10 DEF Next, Reconcile

-----------------------------------------------------------------------------
(* The coordinators.                                                        *)

\* No instance runs its coordinators with zero replicas.
CoordinatorsHaveReplicas ==
  \A c \in Configs : "mixcoord" \notin c.idle /\ c.idle \cap MilvusCoords = {}

LEMMA CoordinatorNames == "mixcoord" \in Names /\ MilvusCoords \subseteq Names
BY DEF Names, AllComponents, MixtureComponents, MilvusComponents, MilvusCoords

LEMMA CoordinatorsInit ==
  ASSUME CoordinatorsHaveReplicas, Init
  PROVE  MixCoordStarted
<1> DEFINE spec == DefaultComponents(config.spec)
<1>1. TypeOK
  BY OrderTypeInit
<1>2. spec.mode = "cluster" /\ config \in Configs
  BY ConfigType, DefaultsType DEF Init
<1>3. "mixcoord" \in Deployed(spec) \/ MilvusCoords \subseteq Deployed(spec)
  <2>1. CASE IsVersionGreaterThan26(spec)
    BY <1>2, <2>1 DEF Deployed, GetComponentsBySpec, Milvus26Components
  <2>2. CASE ~IsVersionGreaterThan26(spec) /\ UseMixCoord(spec)
    BY <1>2, <2>2 DEF Deployed, GetComponentsBySpec, MixtureComponents
  <2>3. CASE ~IsVersionGreaterThan26(spec) /\ ~UseMixCoord(spec)
    BY <1>2, <2>3 DEF Deployed, GetComponentsBySpec, MilvusComponents, MilvusCoords
  <2> QED
    BY <2>1, <2>2, <2>3
<1>4. \A c \in Names : c \in Deployed(spec) /\ c \notin config.idle => deploy[c].pods # {}
  BY DEF Init
<1>5. CoordinatorsServe
  BY <1>2, <1>3, <1>4, CoordinatorNames DEF CoordinatorsServe, CoordinatorsHaveReplicas
<1>6. seen = deploy /\ rec.mc = mc /\ mc.com = DeployStatus(spec, deploy)
  BY DEF Init
<1>7. mc.com["mixcoord"].complete => deploy["mixcoord"].pods # {}
  <2>1. mc.com["mixcoord"].complete => Complete("mixcoord", deploy["mixcoord"])
    BY SMT, <1>6, CoordinatorNames DEF DeployStatus
  <2> QED
    BY <1>2, <2>1 DEF Complete, CoordinatorsHaveReplicas
<1> QED
  BY <1>1, <1>5, <1>6, <1>7 DEF MixCoordStarted

\* A status made from the cache.
LEMMA MixCoordSeen ==
  ASSUME CoordinatorsHaveReplicas, MixCoordStarted, NEW m \in MilvusType,
         NewStatus(m).com["mixcoord"].complete
  PROVE  deploy["mixcoord"].pods # {}
<1>1. DeployStatus(m.spec, seen)["mixcoord"].complete
  BY NewStatusType DEF MixCoordStarted
<1>2. Complete("mixcoord", seen["mixcoord"])
  BY <1>1, CoordinatorNames DEF DeployStatus
<1> QED
  BY <1>2 DEF Complete, CoordinatorsHaveReplicas, MixCoordStarted, TypeOK

\* Removing what is not mixcoord, and no coordinator while mixcoord has no pods.
LEMMA CoordinatorsOffline ==
  ASSUME MixCoordStarted, NEW C, NEW next \in {"coordinators", "status"}, Offline(C, next), UNCHANGED <<config, seen, edits>>,
         "mixcoord" \notin C,
         C \cap MilvusCoords = {} \/ rec.mc.com["mixcoord"].complete,
         TypeOK'
  PROVE  MixCoordStarted'
<1>1. \A c \in Names : c \notin C => deploy'[c] = deploy[c]
  BY DEF Offline
<1>2. deploy'["mixcoord"] = deploy["mixcoord"]
  BY <1>1, CoordinatorNames
<1>3. CoordinatorsServe'
  BY <1>1, <1>2, CoordinatorNames DEF CoordinatorsServe, MixCoordStarted
<1>4. rec'.mc = rec.mc /\ mc'.com = mc.com
  BY OfflineWrites DEF MixCoordStarted
<1> QED
  BY <1>2, <1>3, <1>4 DEF MixCoordStarted

LEMMA CoordinatorsStep ==
  ASSUME CoordinatorsHaveReplicas, MixCoordStarted, [Next]_vars
  PROVE  MixCoordStarted'
<1>1. TypeOK /\ TypeOK'
  BY OrderTypeStep DEF MixCoordStarted
<1> USE CoordinatorNames
<1>2. CASE StartReconcile
  BY <1>1, <1>2 DEF StartReconcile, MixCoordStarted, CoordinatorsServe
<1>3. CASE ReconcileDeployments
  <2>1. \A c \in Names : deploy[c].pods # {} => deploy'[c].pods # {}
    BY SMT, <1>3 DEF ReconcileDeployments, Updated
  <2>2. rec'.mc = rec.mc
    BY <1>1, <1>3 DEF ReconcileDeployments, TypeOK
  <2> QED
    BY <1>1, <1>3, <2>1, <2>2 DEF ReconcileDeployments, MixCoordStarted, CoordinatorsServe
<1>4. CASE CleanupIndexNodeIfNeeded
  <2>1. CASE Offline({"indexnode"}, "coordinators")
    BY <1>1, <1>4, <2>1, CoordinatorsOffline DEF CleanupIndexNodeIfNeeded, MilvusCoords
  <2>2. CASE Skip("coordinators")
    BY <1>1, <1>4, <2>2 DEF CleanupIndexNodeIfNeeded, Skip, MixCoordStarted, TypeOK, CoordinatorsServe
  <2> QED
    BY <1>4, <2>1, <2>2 DEF CleanupIndexNodeIfNeeded
<1>5. CASE CleanupCoordinatorsIfNeeded
  <2>1. CASE Offline(MilvusCoords, "status") /\ IsImageUpdated(rec.mc, "mixcoord")
    <3>1. "mixcoord" \notin MilvusCoords
      BY DEF MilvusCoords
    <3> QED
      BY <1>1, <1>5, <2>1, <3>1, CoordinatorsOffline DEF CleanupCoordinatorsIfNeeded, IsImageUpdated
  <2>2. CASE Skip("status")
    BY <1>1, <1>5, <2>2 DEF CleanupCoordinatorsIfNeeded, Skip, MixCoordStarted, TypeOK, CoordinatorsServe
  <2> QED
    BY <1>5, <2>1, <2>2 DEF CleanupCoordinatorsIfNeeded
<1>6. CASE UpdateStatus
  <2>1. mc'.com["mixcoord"].complete => deploy["mixcoord"].pods # {}
    BY <1>1, <1>6, MixCoordSeen DEF UpdateStatus, Written, MixCoordStarted, TypeOK
  <2>2. rec'.mc = rec.mc
    BY <1>1, <1>6 DEF UpdateStatus, TypeOK
  <2> QED
    BY <1>1, <1>6, <2>1, <2>2 DEF UpdateStatus, MixCoordStarted, CoordinatorsServe
<1>7. CASE SyncStatus
  <2>1. mc'.com["mixcoord"].complete => deploy["mixcoord"].pods # {}
    BY <1>1, <1>7, MixCoordSeen DEF SyncStatus, TypeOK
  <2> QED
    BY <1>1, <1>7, <2>1 DEF SyncStatus, MixCoordStarted, CoordinatorsServe
<1>8. CASE SyncCache
  BY <1>1, <1>8 DEF SyncCache, MixCoordStarted, CoordinatorsServe
<1>9. ASSUME NEW c \in Names, Roll(c) PROVE MixCoordStarted'
  <2>1. \A d \in Names : deploy[d].pods # {} => deploy'[d].pods # {}
    BY ZenonT(120), <1>1, <1>9 DEF Roll, TypeOK, DeployType
  <2>2. seen'["mixcoord"] = seen["mixcoord"] \/ seen'["mixcoord"] = deploy'["mixcoord"]
    BY <1>1, <1>9 DEF Roll, TypeOK
  <2> QED
    BY <1>1, <1>9, <2>1, <2>2 DEF Roll, MixCoordStarted, CoordinatorsServe
<1>10. ASSUME NEW e \in config.edits, Edit(e) PROVE MixCoordStarted'
  <2>1. mc'.com = mc.com
    BY <1>1, <1>10 DEF Edit, TypeOK, MilvusType
  <2> QED
    BY <1>1, <1>10, <2>1 DEF Edit, MixCoordStarted, CoordinatorsServe
<1>11. CASE UNCHANGED vars
  BY <1>1, <1>11 DEF vars, MixCoordStarted, CoordinatorsServe
<1> QED
  BY <1>2, <1>3, <1>4, <1>5, <1>6, <1>7, <1>8, <1>9, <1>10, <1>11 DEF Next, Reconcile

\* A cluster whose coordinators are replaced by a mixcoord, by upgrades,
\* downgrades and cleanups cut off at any point, always has a complete set of
\* coordinators with pods (cleanupCoordinatorsIfNeeded), however far the cache
\* lags behind.
THEOREM CoordinatorsAlwaysServe ==
  ASSUME CoordinatorsHaveReplicas
  PROVE  Spec => []CoordinatorsServe
<1>1. Init => MixCoordStarted
  BY CoordinatorsInit
<1>2. MixCoordStarted /\ [Next]_vars => MixCoordStarted'
  BY CoordinatorsStep
<1>3. MixCoordStarted => CoordinatorsServe
  BY DEF MixCoordStarted
<1> QED
  BY <1>1, <1>2, <1>3, PTL DEF Spec

-----------------------------------------------------------------------------
(* The order of updates.                                                    *)

LEMMA OrderInit == Init => OrderInv
<1> SUFFICES ASSUME Init PROVE OrderInv
  OBVIOUS
<1> DEFINE spec == DefaultComponents(config.spec)
<1>1. TypeOK
  BY OrderTypeInit
<1>2. seen = deploy /\ rec.mc = mc /\ rec.step = "idle"
  BY DEF Init
<1>3. mc.spec = spec /\ mc.gen = 1 /\ mc.observed = 1 /\ mc.com = DeployStatus(spec, deploy)
  BY DEF Init
<1>4. mc.spec.image \in Images /\ NoImage \notin Images
  BY <1>1, OrderAssumption DEF TypeOK, MilvusType, SpecType
<1>5. \A c \in Names : IF c \in Deployed(spec) THEN Runs(c, spec.image) ELSE deploy[c] = NoDeploy
  BY DEF Init, Runs
<1>6. NoPods
  BY SMT, <1>2, <1>3, <1>4, <1>5 DEF NoPods, Runs, NoDeploy
<1>7. StatusIsTrue
  <2> SUFFICES ASSUME NEW c \in Names, IsImageUpdated(mc, c)
               PROVE  c \in Deployed(mc.spec) /\ Runs(c, mc.spec.image)
    BY DEF StatusIsTrue
  <2>1. c \in Deployed(spec)
    BY SMT, <1>3, <1>4 DEF IsImageUpdated, DeployStatus
  <2> QED
    BY <1>3, <1>5, <2>1
<1>8. CacheLag /\ SeenIsDeployed /\ CopyIsTrue
  BY <1>2 DEF CacheLag, SeenIsDeployed, CopyIsTrue
<1>9. Generations
  BY SMT, <1>2, <1>3 DEF Generations
<1> QED
  BY <1>1, <1>6, <1>7, <1>8, <1>9 DEF OrderInv

\* The reconcile takes up the object as it is, and the cache has caught up.
LEMMA StartInv ==
  ASSUME CacheKeepsUp, OrderInv, TypeOK', StartReconcile
  PROVE  OrderInv'
<1>1. rec'.mc = mc /\ mc' = mc /\ deploy' = deploy /\ seen' = seen /\ config' = config
  BY DEF StartReconcile
<1>2. NoPods' /\ CacheLag'
  BY <1>1 DEF OrderInv, NoPods, CacheLag
<1>3. Generations'
  <2>1. mc.gen \in Nat
    BY GenerationType DEF OrderInv
  <2> QED
    BY SMT, <1>1, <2>1 DEF OrderInv, Generations
<1>4. SeenIsDeployed'
  BY <1>1, DeployedType DEF StartReconcile, SeenIsDeployed
<1>5. StatusIsTrue' /\ CopyIsTrue'
  BY <1>1 DEF OrderInv, StatusIsTrue, CopyIsTrue, IsImageUpdated, Runs
<1> QED
  BY <1>2, <1>3, <1>4, <1>5 DEF OrderInv

\* What ReconcileDeployments writes: the image of its spec, to Deployments that
\* have another one and that the cache shows as they are.
LEMMA ReconcileWrites ==
  ASSUME TypeOK, ReconcileDeployments
  PROVE  \E done \in SUBSET Updates(rec.mc) :
           /\ \A c \in done : seen[c] = deploy[c] /\ deploy[c].image # rec.mc.spec.image
           /\ deploy' = Updated(done, rec.mc.spec.image)
           /\ rec'.mc = rec.mc /\ rec'.step # "apply"
<1>1. PICK failed \in {{}} \cup (IF failures < MaxFailures THEN {{c} : c \in Updates(rec.mc)} ELSE {}) :
        LET done == {c \in Updates(rec.mc) \ failed : Fresh(c)}
        IN  /\ deploy' = Updated(done, rec.mc.spec.image)
            /\ rec' = [rec EXCEPT !.step = IF done = Updates(rec.mc) THEN "indexnode" ELSE "idle"]
  BY DEF ReconcileDeployments
<1> DEFINE done == {c \in Updates(rec.mc) \ failed : Fresh(c)}
<1>2. done \in SUBSET Updates(rec.mc)
  OBVIOUS
<1>3. \A c \in done : seen[c] = deploy[c] /\ deploy[c].image # rec.mc.spec.image
  BY DEF Updates, Fresh
<1>4. rec'.mc = rec.mc /\ rec'.step # "apply"
  BY <1>1 DEF TypeOK
<1> QED
  BY <1>1, <1>2, <1>3, <1>4

LEMMA ApplyInv ==
  ASSUME OrderInv, TypeOK', ReconcileDeployments
  PROVE  OrderInv'
<1>1. TypeOK
  BY DEF OrderInv
<1>2. PICK done \in SUBSET Updates(rec.mc) :
        /\ \A c \in done : seen[c] = deploy[c] /\ deploy[c].image # rec.mc.spec.image
        /\ deploy' = Updated(done, rec.mc.spec.image)
        /\ rec'.mc = rec.mc /\ rec'.step # "apply"
  BY <1>1, ReconcileWrites
<1>3. mc' = mc /\ seen' = seen /\ config' = config
  BY DEF ReconcileDeployments
<1>4. rec.mc.spec.image \in Images /\ NoImage \notin Images
  BY <1>1, OrderAssumption DEF TypeOK, MilvusType, SpecType
<1>5. \A c \in Names : \/ c \notin done /\ deploy'[c] = deploy[c]
                      \/ /\ c \in done /\ deploy'[c].image = rec.mc.spec.image
                         /\ deploy[c].pods = {} => deploy'[c].pods = {}
  BY <1>2 DEF Updated
<1>6. NoPods'
  BY <1>3, <1>4, <1>5 DEF OrderInv, NoPods
<1>7. CacheLag'
  BY <1>2, <1>3, <1>5 DEF OrderInv, CacheLag
<1>8. Generations' /\ CopyIsTrue'
  BY <1>2, <1>3 DEF OrderInv, Generations, CopyIsTrue
<1>9. SeenIsDeployed'
  BY SMT, <1>2, <1>3, <1>5, DeployedType DEF OrderInv, SeenIsDeployed, Generations
<1>10. StatusIsTrue'
  <2> SUFFICES ASSUME mc.observed = mc.gen, NEW c \in Names, IsImageUpdated(mc, c)
               PROVE  c \in Deployed(mc.spec) /\ Runs(c, mc.spec.image)'
    BY <1>3 DEF StatusIsTrue, IsImageUpdated
  <2>1. rec.mc.spec = mc.spec
    BY DEF OrderInv, Generations
  <2>2. c \in Deployed(mc.spec) /\ Runs(c, mc.spec.image)
    BY DEF OrderInv, StatusIsTrue
  <2>3. deploy'[c] = deploy[c]
    BY <1>2, <1>5, <2>1, <2>2 DEF Runs
  <2> QED
    BY <1>3, <2>2, <2>3 DEF Runs
<1> QED
  BY <1>6, <1>7, <1>8, <1>9, <1>10 DEF OrderInv

\* What is removed is not of the spec of the reconcile.
LEMMA OfflineInv ==
  ASSUME OrderInv, TypeOK', NEW C, NEW next \in {"coordinators", "status"}, Offline(C, next),
         UNCHANGED <<config, seen, edits>>, \A c \in C : c \notin Deployed(rec.mc.spec)
  PROVE  OrderInv'
<1>1. TypeOK
  BY DEF OrderInv
<1>2. /\ \/ mc' = mc
         \/ /\ rec.mc = mc /\ mc'.gen = mc.gen + 1 /\ mc'.observed = mc.observed
      /\ rec'.mc = rec.mc /\ rec'.step # "apply"
  BY <1>1, OfflineWrites
<1>3. \A c \in Names : IF c \in C THEN deploy'[c] = NoDeploy ELSE deploy'[c] = deploy[c]
  BY DEF Offline
<1>4. NoPods' /\ CacheLag'
  <2>1. NoPods'
    BY SMT, <1>3 DEF OrderInv, NoPods, NoDeploy
  <2>2. ASSUME NEW c \in C, c \in Names, seen[c].image = NoImage PROVE seen[c] = NoDeploy
    BY <1>1, <2>2 DEF OrderInv, NoPods, NoDeploy, TypeOK, DeployType
  <2>3. NoDeploy.image = NoImage
    BY DEF NoDeploy
  <2>4. CacheLag'
    BY <1>3, <2>2, <2>3 DEF OrderInv, CacheLag
  <2> QED
    BY <2>1, <2>4
<1>5. mc.gen \in Nat /\ mc.observed \in Nat /\ rec.mc.gen \in Nat
  BY <1>1, GenerationType
<1>6. Generations'
  BY SMT, <1>2, <1>5 DEF OrderInv, Generations
<1>7. CopyIsTrue'
  BY <1>2 DEF CopyIsTrue
<1>8. CASE mc' = mc
  <2>1. SeenIsDeployed'
    BY <1>2, <1>3, <1>8, DeployedType DEF OrderInv, SeenIsDeployed, Generations
  <2>2. StatusIsTrue'
    BY ZenonT(60), <1>2, <1>3, <1>8 DEF OrderInv, StatusIsTrue, Generations, IsImageUpdated, Runs
  <2> QED
    BY <1>4, <1>6, <1>7, <2>1, <2>2 DEF OrderInv
<1>9. CASE rec.mc = mc /\ mc'.gen = mc.gen + 1 /\ mc'.observed = mc.observed
  <2>1. rec'.mc.gen # mc'.gen /\ mc'.observed # mc'.gen
    BY SMT, <1>2, <1>5, <1>9 DEF OrderInv, Generations
  <2> QED
    BY <1>4, <1>6, <1>7, <2>1 DEF OrderInv, SeenIsDeployed, StatusIsTrue
<1> QED
  BY <1>2, <1>8, <1>9

LEMMA SkipInv ==
  ASSUME OrderInv, TypeOK', NEW next \in {"coordinators", "status"}, Skip(next),
         UNCHANGED <<config, seen, edits>>
  PROVE  OrderInv'
<1>1. rec'.mc = rec.mc /\ rec'.step # "apply"
  BY DEF Skip, OrderInv, TypeOK
<1>2. mc' = mc /\ deploy' = deploy /\ seen' = seen /\ config' = config
  BY DEF Skip
<1> QED
  BY ZenonT(60), <1>1, <1>2 DEF OrderInv, NoPods, CacheLag, Generations, SeenIsDeployed, StatusIsTrue,
                                CopyIsTrue, IsImageUpdated, Runs

\* A status made from the cache for the spec of the last reconcile is true.
LEMMA NewStatusIsTrue ==
  ASSUME OrderInv, rec.mc.gen = mc.gen, NEW c \in Names, IsImageUpdated(NewStatus(mc), c)
  PROVE  c \in Deployed(mc.spec) /\ Runs(c, mc.spec.image)
<1>1. TypeOK /\ mc \in MilvusType
  BY DEF OrderInv, TypeOK
<1>2. /\ DeployStatus(mc.spec, seen)[c].image = mc.spec.image
      /\ DeployStatus(mc.spec, seen)[c].complete
  BY <1>1, NewStatusType DEF IsImageUpdated
<1>3. mc.spec.image # NoImage
  BY <1>1, OrderAssumption DEF MilvusType, SpecType
<1>4. c \in Deployed(mc.spec)
  BY <1>2, <1>3 DEF DeployStatus
<1>5. seen[c].image = mc.spec.image /\ Complete(c, seen[c])
  BY <1>2, <1>4 DEF DeployStatus
<1>6. seen[c] = deploy[c]
  BY <1>4, <1>5 DEF OrderInv, SeenIsDeployed, CacheLag
<1> QED
  BY <1>4, <1>5, <1>6 DEF Complete, Runs

LEMMA StatusInv ==
  ASSUME OrderInv, TypeOK', rec.mc.gen = mc.gen, mc' = NewStatus(mc), rec'.mc = rec.mc,
         rec'.step = rec.step \/ rec'.step # "apply", UNCHANGED <<config, deploy, seen>>
  PROVE  OrderInv'
<1>1. TypeOK /\ mc \in MilvusType
  BY DEF OrderInv, TypeOK
<1>2. mc'.spec = mc.spec /\ mc'.gen = mc.gen /\ mc'.observed = mc.gen
  BY <1>1, NewStatusType
<1>3. StatusIsTrue'
  BY <1>2, NewStatusIsTrue DEF StatusIsTrue, Runs
<1>4. Generations'
  BY <1>1, <1>2 DEF OrderInv, Generations, MilvusType
<1>5. NoPods' /\ CacheLag' /\ SeenIsDeployed'
  BY <1>2 DEF OrderInv, NoPods, CacheLag, SeenIsDeployed
<1>6. CopyIsTrue'
  BY DEF OrderInv, CopyIsTrue, IsImageUpdated, Runs
<1> QED
  BY <1>3, <1>4, <1>5, <1>6 DEF OrderInv

\* A rollout leaves the image alone; its progress is seen at once.
LEMMA RollInv ==
  ASSUME OrderInv, TypeOK', NEW c \in Names, Roll(c)
  PROVE  OrderInv'
<1>1. TypeOK
  BY DEF OrderInv
<1>2. mc' = mc /\ rec' = rec /\ config' = config /\ c \notin config.idle /\ deploy[c].image # NoImage
  BY DEF Roll
<1>3. /\ deploy'[c].image = deploy[c].image /\ deploy'[c].pods = {deploy[c].image}
      /\ \A d \in Names : d # c => deploy'[d] = deploy[d] /\ seen'[d] = seen[d]
  BY <1>1 DEF Roll, TypeOK, DeployType
<1>4. \/ seen'[c] = seen[c] /\ seen[c] # deploy[c]
      \/ seen'[c] = deploy'[c] /\ seen[c] = deploy[c]
  BY <1>1 DEF Roll, Fresh, TypeOK
<1>5. NoPods' /\ CacheLag'
  BY SMT, <1>2, <1>3, <1>4 DEF OrderInv, NoPods, CacheLag
<1>6. \A d \in Names : deploy'[d].image = deploy[d].image /\ seen'[d].image = seen[d].image
  BY <1>3, <1>4
<1>7. SeenIsDeployed' /\ Generations'
  BY <1>2, <1>6, DeployedType DEF OrderInv, SeenIsDeployed, Generations
<1>8. \A d \in Names : \A i : Runs(d, i) => Runs(d, i)'
  BY <1>2, <1>3 DEF Runs
<1>9. StatusIsTrue' /\ CopyIsTrue'
  BY <1>2, <1>8 DEF OrderInv, StatusIsTrue, CopyIsTrue, IsImageUpdated
<1> QED
  BY <1>5, <1>7, <1>9 DEF OrderInv

LEMMA EditInv ==
  ASSUME OrderInv, TypeOK', NEW e \in config.edits, Edit(e)
  PROVE  OrderInv'
<1>1. mc'.gen = mc.gen + 1 /\ mc'.observed = mc.observed
  BY DEF Edit, OrderInv, TypeOK, MilvusType
<1>2. mc.gen \in Nat /\ mc.observed \in Nat /\ rec.mc.gen \in Nat /\ rec.mc.observed \in Nat
  BY GenerationType DEF OrderInv
<1>3. rec' = rec /\ deploy' = deploy /\ seen' = seen /\ config' = config
  BY DEF Edit
<1>4. Generations' /\ rec'.mc.gen # mc'.gen /\ mc'.observed # mc'.gen
  BY SMT, <1>1, <1>2, <1>3 DEF OrderInv, Generations
<1>5. NoPods' /\ CacheLag' /\ CopyIsTrue'
  BY <1>3 DEF OrderInv, NoPods, CacheLag, CopyIsTrue, IsImageUpdated, Runs
<1> QED
  BY <1>4, <1>5 DEF OrderInv, SeenIsDeployed, StatusIsTrue

LEMMA OrderStep ==
  ASSUME CacheKeepsUp, OrderInv, [Next]_vars
  PROVE  OrderInv'
<1>1. TypeOK /\ TypeOK'
  BY OrderTypeStep DEF OrderInv
<1>2. CASE StartReconcile
  BY <1>1, <1>2, StartInv
<1>3. CASE ReconcileDeployments
  BY <1>1, <1>3, ApplyInv
<1>4. CASE CleanupIndexNodeIfNeeded
  <2>1. CASE Offline({"indexnode"}, "coordinators") /\ IsVersionGreaterThan26(rec.mc.spec)
    BY <1>1, <1>4, <2>1, OfflineInv, OfflineUndeployed DEF CleanupIndexNodeIfNeeded
  <2>2. CASE Skip("coordinators")
    BY <1>1, <1>4, <2>2, SkipInv DEF CleanupIndexNodeIfNeeded
  <2> QED
    BY <1>4, <2>1, <2>2 DEF CleanupIndexNodeIfNeeded
<1>5. CASE CleanupCoordinatorsIfNeeded
  <2>1. CASE Offline(MilvusCoords, "status") /\ UseMixCoord(rec.mc.spec)
    BY <1>1, <1>5, <2>1, OfflineInv, OfflineUndeployed DEF CleanupCoordinatorsIfNeeded
  <2>2. CASE Skip("status")
    BY <1>1, <1>5, <2>2, SkipInv DEF CleanupCoordinatorsIfNeeded
  <2> QED
    BY <1>5, <2>1, <2>2 DEF CleanupCoordinatorsIfNeeded
<1>6. CASE UpdateStatus
  <2>1. rec'.mc = rec.mc /\ rec'.step # "apply" /\ UNCHANGED <<config, deploy, seen>>
    BY <1>1, <1>6 DEF UpdateStatus, TypeOK
  <2>2. CASE rec.mc = mc
    BY <1>1, <1>6, <2>1, <2>2, StatusInv DEF UpdateStatus, Written
  <2>3. CASE rec.mc # mc
    <3>1. mc' = mc
      BY <1>6, <2>3 DEF UpdateStatus, Written
    <3> QED
      BY <1>1, <2>1, <3>1 DEF OrderInv, NoPods, CacheLag, Generations, SeenIsDeployed,
                              StatusIsTrue, CopyIsTrue, IsImageUpdated, Runs
  <2> QED
    BY <2>2, <2>3
<1>7. CASE SyncStatus
  <2>1. rec.mc.gen = mc.gen
    BY SMT, <1>1, <1>7, GenerationType DEF SyncStatus, OrderInv, Generations
  <2> QED
    BY <1>1, <1>7, <2>1, StatusInv DEF SyncStatus
<1>8. CASE SyncCache
  <2>1. seen' = deploy /\ UNCHANGED <<config, mc, rec, deploy>>
    BY <1>8 DEF SyncCache
  <2>2. NoPods' /\ CacheLag' /\ SeenIsDeployed' /\ Generations'
    BY <2>1 DEF OrderInv, NoPods, CacheLag, SeenIsDeployed, Generations
  <2>3. StatusIsTrue' /\ CopyIsTrue'
    BY <2>1 DEF OrderInv, StatusIsTrue, CopyIsTrue, IsImageUpdated, Runs
  <2> QED
    BY <1>1, <2>2, <2>3 DEF OrderInv
<1>9. ASSUME NEW c \in Names, Roll(c) PROVE OrderInv'
  BY <1>1, <1>9, RollInv
<1>10. ASSUME NEW e \in config.edits, Edit(e) PROVE OrderInv'
  BY <1>1, <1>10, EditInv
<1>11. CASE UNCHANGED vars
  BY <1>1, <1>11 DEF vars, OrderInv, NoPods, CacheLag, Generations, SeenIsDeployed,
                     StatusIsTrue, CopyIsTrue, IsImageUpdated, Runs
<1> QED
  BY <1>2, <1>3, <1>4, <1>5, <1>6, <1>7, <1>8, <1>9, <1>10, <1>11 DEF Next, Reconcile

-----------------------------------------------------------------------------
(* The refinement of OrderedUpdate.                                         *)

LEMMA PlanType ==
  ASSUME NEW m \in MilvusType
  PROVE  PlanOf(m) \in Ordered!Plans
<1>1. m.spec.image \in Images
  BY DEF MilvusType, SpecType
<1> QED
  BY <1>1, BeforeType DEF PlanOf, Ordered!Plans

LEMMA RefinesInit == Init => Ordered!Init
<1> SUFFICES ASSUME Init PROVE Ordered!Init
  OBVIOUS
<1>1. OrderInv
  BY OrderInit
<1>2. TypeOK /\ PlanOf(mc) \in Ordered!Plans /\ rec.mc = mc
  BY <1>1, PlanType DEF OrderInv, TypeOK, Init
<1>3. config.idle \subseteq Names
  BY <1>2, ConfigType DEF TypeOK
<1>4. \A c \in Names : deploy[c].image \in Images \cup {NoImage}
  BY <1>2 DEF TypeOK, DeployType
<1>5. \A c \in Names : deploy[c].pods = IF deploy[c].image = NoImage \/ c \in config.idle
                                       THEN {} ELSE {deploy[c].image}
  <2> DEFINE spec == DefaultComponents(config.spec)
  <2>1. mc.spec = spec
    BY DEF Init
  <2>2. spec.image \in Images /\ NoImage \notin Images
    BY <1>2, <2>1, OrderAssumption DEF TypeOK, MilvusType, SpecType
  <2>3. \A c \in Names :
          \/ deploy[c].image = NoImage /\ deploy[c].pods = {}
          \/ /\ deploy[c].image = spec.image
             /\ deploy[c].pods = IF c \in config.idle THEN {} ELSE {spec.image}
    BY DEF Init, NoDeploy
  <2> QED
    BY <2>2, <2>3
<1> QED
  BY <1>2, <1>3, <1>4, <1>5 DEF Ordered!Init

\* A reconcile moves components to the image of the plan it took up, each of
\* them without pods or after those before it.
LEMMA ApplyRefines ==
  ASSUME OrderInv, ReconcileDeployments
  PROVE  Ordered!Move
<1>1. TypeOK
  BY DEF OrderInv
<1>2. PICK done \in SUBSET Updates(rec.mc) :
        /\ \A c \in done : seen[c] = deploy[c] /\ deploy[c].image # rec.mc.spec.image
        /\ deploy' = Updated(done, rec.mc.spec.image)
        /\ rec'.mc = rec.mc /\ rec'.step # "apply"
  BY <1>1, ReconcileWrites
<1>3. mc' = mc /\ config' = config /\ rec.step = "apply"
  BY DEF ReconcileDeployments
<1>4. PlanOf(mc)' = PlanOf(mc) /\ PlanOf(rec.mc)' = PlanOf(rec.mc)
  BY <1>2, <1>3 DEF PlanOf, Before, IsUpgradingTo26
<1>5. ASSUME NEW c \in done PROVE Ordered!MayMove(c)
  <2>1. c \in Names /\ c \in Updates(rec.mc)
    BY DeployedType DEF Updates
  <2>2. CASE seen[c].image = NoImage \/ c \in config.idle
    BY <1>2, <1>5, <2>1, <2>2 DEF OrderInv, NoPods, Ordered!MayMove
  <2>3. CASE rec.mc.spec.update \in {"all", "force"}
    BY <2>1, <2>3 DEF PlanOf, Ordered!MayMove
  <2>4. CASE RollingUpdateImageDependencyReady(rec.mc, c)
    <3>1. rec.mc.observed = rec.mc.gen
      BY SMT, <1>1, <2>4, GenerationType DEF RollingUpdateImageDependencyReady, OrderInv, Generations
    <3>2. \A d \in Before(rec.mc, c) : d \in Names /\ Runs(d, rec.mc.spec.image)
      BY <1>3, <2>4, <3>1, BeforeType DEF RollingUpdateImageDependencyReady, OrderInv, CopyIsTrue
    <3>3. \A d \in PlanOf(rec.mc).before[c] : d \in Before(rec.mc, c)
      BY <2>1 DEF PlanOf
    <3>4. PlanOf(rec.mc).image = rec.mc.spec.image
      BY DEF PlanOf
    <3>5. \A d \in Names : Runs(d, rec.mc.spec.image) => Ordered!Done(d, rec.mc.spec.image)
      BY DEF Runs, Ordered!Done
    <3> QED
      BY <3>2, <3>3, <3>4, <3>5 DEF Ordered!MayMove
  <2> QED
    BY <2>1, <2>2, <2>3, <2>4 DEF Updates, UpdatesImage
<1>6. PlanOf(rec.mc).image = rec.mc.spec.image
  BY DEF PlanOf
<1>7. ASSUME NEW c \in Names PROVE Ordered!Stays(c) \/ Ordered!Moves(c)
  <2>1. CASE c \notin done
    BY <1>2, <2>1 DEF Updated, Ordered!Stays
  <2>2. CASE c \in done
    <3>1. /\ deploy'[c].image = rec.mc.spec.image
          /\ deploy'[c].pods = IF deploy[c].pods = {} THEN {} ELSE deploy[c].pods \cup {rec.mc.spec.image}
      BY <1>2, <2>2 DEF Updated
    <3> QED
      BY <1>5, <1>6, <2>2, <3>1 DEF Ordered!Moves
  <2> QED
    BY <2>1, <2>2
<1> QED
  BY <1>3, <1>4, <1>7 DEF Ordered!Move

\* Nothing but the plan changes.
LEMMA PlanRefines ==
  ASSUME mc' \in MilvusType, UNCHANGED <<config, deploy>>, rec'.mc = rec.mc
  PROVE  Ordered!ChangePlan
<1>1. PlanOf(mc)' \in Ordered!Plans
  BY PlanType
<1>2. PlanOf(rec.mc)' = PlanOf(rec.mc)
  BY DEF PlanOf, Before, IsUpgradingTo26
<1> QED
  BY <1>1, <1>2 DEF Ordered!ChangePlan

LEMMA OfflineRefines ==
  ASSUME TypeOK, NEW C, NEW next \in {"coordinators", "status"}, Offline(C, next), config' = config
  PROVE  Ordered!Remove
<1>1. mc' \in MilvusType /\ rec'.mc = rec.mc
  BY OfflineWrites
<1>2. PlanOf(mc)' \in Ordered!Plans
  BY <1>1, PlanType
<1>3. PlanOf(rec.mc)' = PlanOf(rec.mc)
  BY <1>1 DEF PlanOf, Before, IsUpgradingTo26
<1>4. \A c \in Names : Ordered!Stays(c) \/ (deploy'[c].image = NoImage /\ deploy'[c].pods = {})
  BY DEF Offline, NoDeploy, Ordered!Stays
<1> QED
  BY <1>2, <1>3, <1>4 DEF Ordered!Remove

LEMMA RefinesStep ==
  ASSUME OrderInv, [Next]_vars
  PROVE  [Ordered!Next]_(Ordered!vars)
<1>1. TypeOK /\ TypeOK'
  BY OrderTypeStep DEF OrderInv
<1>2. CASE StartReconcile
  <2>1. rec'.mc = mc /\ mc' = mc /\ deploy' = deploy /\ config' = config
    BY <1>2 DEF StartReconcile
  <2>2. PlanOf(rec.mc)' = PlanOf(mc) /\ PlanOf(mc)' = PlanOf(mc)
    BY <2>1 DEF PlanOf, Before, IsUpgradingTo26
  <2> QED
    BY <2>1, <2>2 DEF Ordered!Next, Ordered!TakeUp
<1>3. CASE ReconcileDeployments
  BY <1>3, ApplyRefines DEF Ordered!Next
<1>4. CASE CleanupIndexNodeIfNeeded
  <2>1. CASE Offline({"indexnode"}, "coordinators")
    BY <1>1, <1>4, <2>1, OfflineRefines DEF CleanupIndexNodeIfNeeded, Ordered!Next
  <2>2. CASE Skip("coordinators")
    BY <1>1, <1>4, <2>2, PlanRefines DEF CleanupIndexNodeIfNeeded, Skip, TypeOK, Ordered!Next
  <2> QED
    BY <1>4, <2>1, <2>2 DEF CleanupIndexNodeIfNeeded
<1>5. CASE CleanupCoordinatorsIfNeeded
  <2>1. CASE Offline(MilvusCoords, "status")
    BY <1>1, <1>5, <2>1, OfflineRefines DEF CleanupCoordinatorsIfNeeded, Ordered!Next
  <2>2. CASE Skip("status")
    BY <1>1, <1>5, <2>2, PlanRefines DEF CleanupCoordinatorsIfNeeded, Skip, TypeOK, Ordered!Next
  <2> QED
    BY <1>5, <2>1, <2>2 DEF CleanupCoordinatorsIfNeeded
<1>6. CASE UpdateStatus
  <2>1. mc' \in MilvusType /\ rec'.mc = rec.mc /\ UNCHANGED <<config, deploy>>
    BY <1>1, <1>6 DEF UpdateStatus, TypeOK
  <2> QED
    BY <2>1, PlanRefines DEF Ordered!Next
<1>7. CASE SyncStatus \/ SyncCache \/ \E e \in config.edits : Edit(e)
  <2>1. mc' \in MilvusType /\ rec'.mc = rec.mc /\ UNCHANGED <<config, deploy>>
    BY <1>1, <1>7 DEF SyncStatus, SyncCache, Edit, TypeOK
  <2> QED
    BY <2>1, PlanRefines DEF Ordered!Next
<1>8. ASSUME NEW c \in Names, Roll(c) PROVE Ordered!Next
  <2>1. mc' = mc /\ rec' = rec /\ config' = config
    BY <1>8 DEF Roll
  <2>2. PlanOf(mc)' = PlanOf(mc) /\ PlanOf(rec.mc)' = PlanOf(rec.mc)
    BY <2>1 DEF PlanOf, Before, IsUpgradingTo26
  <2>3. deploy[c].image # NoImage /\ c \notin config.idle
    BY <1>8 DEF Roll
  <2>4. \A d \in Names : /\ deploy'[d].image = deploy[d].image
                       /\ deploy'[d].pods = IF d = c THEN {deploy[c].image} ELSE deploy[d].pods
    BY <1>1, <1>8 DEF Roll, TypeOK, DeployType
  <2>5. Ordered!Roll(c)
    BY <2>1, <2>2, <2>3, <2>4 DEF Ordered!Roll
  <2> QED
    BY <2>5 DEF Ordered!Next
<1>9. CASE UNCHANGED vars
  <2>1. mc' \in MilvusType /\ rec'.mc = rec.mc /\ UNCHANGED <<config, deploy>>
    BY <1>1, <1>9 DEF vars, TypeOK
  <2> QED
    BY <2>1, PlanRefines DEF Ordered!Next
<1> QED
  BY <1>2, <1>3, <1>4, <1>5, <1>6, <1>7, <1>8, <1>9 DEF Next, Reconcile

\* The reconciles implement the ordered update of OrderedUpdate: although each
\* decides from a status that another step wrote some time ago
\* (rollingUpdateImageDependencyReady), a Deployment with pods gets the image
\* of the spec only while every component before it runs that image and no
\* other.  It takes a cache that shows a reconcile the images earlier ones wrote.
THEOREM UpdatesAreOrdered ==
  ASSUME CacheKeepsUp
  PROVE  Spec => UpdatesInOrder
<1>1. Init => OrderInv
  BY OrderInit
<1>2. OrderInv /\ [Next]_vars => OrderInv'
  BY OrderStep
<1>3. Init => Ordered!Init
  BY RefinesInit
<1>4. OrderInv /\ [Next]_vars => [Ordered!Next]_(Ordered!vars)
  BY RefinesStep
<1> QED
  BY <1>1, <1>2, <1>3, <1>4, PTL DEF Spec, UpdatesInOrder, Ordered!Spec

-----------------------------------------------------------------------------
(* The change of mode.                                                      *)

\* The list of ReplicaSets that SaveDeleteOldReplicaSet saved is that of all of
\* them: it is taken before the first one is deleted, and only once.
AllSetsSaved == saved.sets \in {NotSaved, Sets}

ModeInv == ChangeTypeOK /\ SavedBeforeDeleted /\ AllSetsSaved

-----------------------------------------------------------------------------
\* The number of replicas is a number, so it is not the mark of a Deployment
\* that is not saved (SaveObject).
LEMMA SizeType == Size \in Nat /\ Size # NotSaved
<1>1. IsFiniteSet(Initial)
  BY ModeChangeAssumption, FS_Subset
<1>2. Size \in Nat
  BY <1>1, FS_CardinalityType DEF Size
<1> QED
  BY <1>2, ModeChangeAssumption

\* A running component that is not being changed has everything in place.
LEMMA ModeInit == ChangeInit => ModeInv
BY SMT, SizeType, ModeChangeAssumption
   DEF ChangeInit, ModeInv, ChangeTypeOK, SavedBeforeDeleted, AllSetsSaved, MarksType, PodStates, SetStates

\* Steps that write the Milvus object, from a copy that is current.
LEMMA WriteMilvusInv ==
  ASSUME ModeInv, NEW m \in MarksType, WriteMilvus(m)
  PROVE  ModeInv'
BY DEF ModeInv, ChangeTypeOK, SavedBeforeDeleted, AllSetsSaved, WriteMilvus, Size

\* What a cache shows of the Milvus object has its type.
LEMMA MViewType == ChangeTypeOK => MView \in MarksType
BY DEF ChangeTypeOK, MView

\* No step of the operator loses what was saved or deletes what was not.
LEMMA OperatorInv == ModeInv /\ Operator => ModeInv'
<1> SUFFICES ASSUME ModeInv, Operator PROVE ModeInv'
  OBVIOUS
<1> USE DEF ModeInv
<1>1. CASE MarkDeployModeChanging
  BY <1>1, MViewType, WriteMilvusInv DEF MarkDeployModeChanging, MarksType
<1>2. CASE SaveOldDeploy
  <2>1. ChangeTypeOK'
    BY <1>2 DEF SaveOldDeploy, ChangeTypeOK, Size
  <2>2. SavedBeforeDeleted' /\ AllSetsSaved'
    BY <1>2, SizeType DEF SaveOldDeploy, ChangeTypeOK, SavedBeforeDeleted, AllSetsSaved
  <2> QED
    BY <2>1, <2>2
<1>3. CASE DeleteOldDeploy
  BY <1>3 DEF DeleteOldDeploy, ChangeTypeOK, SavedBeforeDeleted, AllSetsSaved, Size
<1>4. CASE SaveOldReplicaSets
  <2>1. PICK owned \in StaleOwners : saved' = [saved EXCEPT !.sets = OldSets, !.owned = owned]
    BY <1>4 DEF SaveOldReplicaSets
  <2>2. OldSets = Sets
    BY <1>4 DEF SaveOldReplicaSets, OldSets, SavedBeforeDeleted
  <2>3. owned \subseteq Sets
    BY <2>2 DEF StaleOwners
  <2>4. Sets # NotSaved
    BY ModeChangeAssumption
  <2>5. ChangeTypeOK'
    BY <1>4, <2>1, <2>2, <2>3 DEF SaveOldReplicaSets, ChangeTypeOK, Size
  <2>6. SavedBeforeDeleted' /\ AllSetsSaved'
    BY <1>4, <2>1, <2>2, <2>4 DEF SaveOldReplicaSets, ChangeTypeOK, SavedBeforeDeleted, AllSetsSaved
  <2> QED
    BY <2>5, <2>6
<1>5. ASSUME NEW s \in Sets, DeleteOldReplicaSet(s) PROVE ModeInv'
  BY <1>5 DEF DeleteOldReplicaSet, ChangeTypeOK, SavedBeforeDeleted, AllSetsSaved, Size
<1>6. ASSUME NEW s \in Sets, RecoverReplicaSet(s) PROVE ModeInv'
  BY <1>6 DEF RecoverReplicaSet, ChangeTypeOK, SavedBeforeDeleted, AllSetsSaved, SetStates, Size
<1>7. ASSUME NEW p \in Pods, UpdateOldPodLabels(p) PROVE ModeInv'
  BY <1>7 DEF UpdateOldPodLabels, ChangeTypeOK, SavedBeforeDeleted, AllSetsSaved, PodStates, Size
<1>8. CASE RecoverDeploy
  BY <1>8 DEF RecoverDeploy, ChangeTypeOK, SavedBeforeDeleted, AllSetsSaved, Size
<1>9. CASE MarkCurrentDeploy
  BY <1>9, MViewType, WriteMilvusInv DEF MarkCurrentDeploy, MarksType
<1>10. CASE UnmarkDeployModeChanging
  BY <1>10, MViewType, WriteMilvusInv DEF UnmarkDeployModeChanging, MarksType
<1>11. CASE UpdateRollingMode
  BY <1>11, MViewType, WriteMilvusInv DEF UpdateRollingMode, MarksType
<1> QED
  BY <1>1, <1>2, <1>3, <1>4, <1>5, <1>6, <1>7, <1>8, <1>9, <1>10, <1>11 DEF Operator

\* A change of one pod's state touches none of the objects of the change.
LEMMA PodStep ==
  ASSUME ModeInv, pods' \in [Pods -> PodStates],
         UNCHANGED <<lagging, milvus, oldDeploy, oldSets, saved, newSets, newDeploy, mseen, pseen>>,
         deaths' \in 0..MaxDeaths
  PROVE  ModeInv'
BY DEF ModeInv, ChangeTypeOK, SavedBeforeDeleted, AllSetsSaved, Size

\* The garbage collector and the controllers delete only what is marked for it.
LEMMA ClusterInv == ModeInv /\ Cluster => ModeInv'
<1> SUFFICES ASSUME ModeInv, Cluster PROVE ModeInv'
  OBVIOUS
<1> USE DEF ModeInv
<1>1. CASE OrphanReplicaSets
  BY <1>1 DEF OrphanReplicaSets, ChangeTypeOK, SavedBeforeDeleted, AllSetsSaved, Size
<1>2. CASE MakeReplicaSet
  BY <1>2 DEF MakeReplicaSet, ChangeTypeOK, SavedBeforeDeleted, AllSetsSaved, SetStates, Size
<1>3. ASSUME NEW s \in Sets, OrphanPods(s) PROVE ModeInv'
  <2>1. pods' \in [Pods -> PodStates]
    BY <1>3 DEF OrphanPods, ChangeTypeOK, PodStates
  <2> QED
    BY <1>3, <2>1 DEF OrphanPods, ChangeTypeOK, SavedBeforeDeleted, AllSetsSaved, Size
<1>4. ASSUME NEW s \in Sets, CollectReplicaSet(s) PROVE ModeInv'
  <2>1. pods' \in [Pods -> PodStates]
    BY <1>4 DEF CollectReplicaSet, ChangeTypeOK, PodStates
  <2> QED
    BY <1>4, <2>1 DEF CollectReplicaSet, ChangeTypeOK, SavedBeforeDeleted, AllSetsSaved, SetStates, Size
<1>5. ASSUME NEW p \in Pods, ReplacePod(p) \/ AdoptPod(p) \/ CreatePod(p) PROVE ModeInv'
  <2>1. pods' \in [Pods -> PodStates]
    BY <1>5 DEF ReplacePod, AdoptPod, CreatePod, SetPod, ChangeTypeOK, PodStates
  <2>2. /\ UNCHANGED <<lagging, milvus, oldDeploy, oldSets, saved, newSets, newDeploy, mseen, pseen>>
        /\ deaths' = deaths
    BY <1>5 DEF ReplacePod, AdoptPod, CreatePod, SetPod
  <2> QED
    BY <2>1, <2>2, PodStep DEF ChangeTypeOK
<1> QED
  BY <1>1, <1>2, <1>3, <1>4, <1>5 DEF Cluster

\* Every step keeps the invariant.
LEMMA ModeNext == ModeInv /\ [ChangeNext]_changeVars => ModeInv'
<1> SUFFICES ASSUME ModeInv, [ChangeNext]_changeVars PROVE ModeInv'
  OBVIOUS
<1>1. CASE SyncMilvus
  BY <1>1 DEF ModeInv, SyncMilvus, ChangeTypeOK, SavedBeforeDeleted, AllSetsSaved, Size
<1>2. CASE SyncPods
  BY <1>2 DEF ModeInv, SyncPods, ChangeTypeOK, SavedBeforeDeleted, AllSetsSaved, Size
<1>3. ASSUME NEW p \in Pods, PodDies(p) PROVE ModeInv'
  <2>1. pods' \in [Pods -> PodStates] /\ deaths' \in 0..MaxDeaths
    BY SMT, <1>3, ModeChangeAssumption DEF PodDies, ModeInv, ChangeTypeOK, PodStates
  <2> QED
    BY <1>3, <2>1, PodStep DEF PodDies
<1>4. CASE UNCHANGED changeVars
  BY SMT, <1>4 DEF changeVars, ModeInv, ChangeTypeOK, SavedBeforeDeleted, AllSetsSaved, Size, MarksType
<1> QED
  BY <1>1, <1>2, <1>3, <1>4, OperatorInv, ClusterInv DEF ChangeNext

\* The objects of the change keep their types, for any pods and ReplicaSets and
\* whichever caches lag (ChangeToTwoDeployMode).
THEOREM ModeTypeCorrect == ChangeSpec => []ChangeTypeOK
<1>1. ChangeSpec => []ModeInv
  BY ModeInit, ModeNext, PTL DEF ChangeSpec
<1>2. ModeInv => ChangeTypeOK
  BY DEF ModeInv
<1> QED
  BY <1>1, <1>2, PTL

\* What SaveDeleteOldDeploy and SaveDeleteOldReplicaSet delete can be created
\* again from the ControllerRevisions, for any pods and ReplicaSets, any pods
\* that die, any lag of the caches and any point a reconcile is cut off at.
THEOREM NothingDeletedUnsaved == ChangeSpec => []SavedBeforeDeleted
<1>1. ChangeSpec => []ModeInv
  BY ModeInit, ModeNext, PTL DEF ChangeSpec
<1>2. ModeInv => SavedBeforeDeleted
  BY DEF ModeInv
<1> QED
  BY <1>1, <1>2, PTL

-----------------------------------------------------------------------------
(* The pods.                                                                *)

\* A cache of the pods that lags is behind by fewer pods than there are: not
\* all of them die during one change of mode.
PodsSeen == \A L \in Lags : "pods" \in L => MaxDeaths < Size

\* The old objects are gone and every pod has the label of group 0: what
\* RecoverReplicaSets waits for.
Settled ==
  /\ oldDeploy = "gone"
  /\ \A s \in Sets : oldSets[s] = "gone"
  /\ \A p \in Pods : pods[p] \notin {"old", "stray"}

SettledFirst == newDeploy # NotSaved \/ (\E s \in Sets : newSets[s] # "none") => Settled

\* While the old ReplicaSet is there, all pods are its own.
OldFirst ==
  /\ oldSets[Active] # "gone" => \A p \in Pods : pods[p] \notin {"stray", "marked", "zero"}
  /\ oldDeploy = "gone" => \A s \in Sets : oldSets[s] # "owned"

\* A cache that shows a pod of group 0 shows every pod that is left of the old
\* ReplicaSet, and a cache that shows none of them shows a pod of the old one.
CacheKnows ==
  /\ \A p \in Initial : pods[p] # "unborn" /\ pseen[p] # "unborn"
  /\ (\E p \in Pods : pseen[p] \in {"marked", "zero"}) =>
       /\ oldSets[Active] = "gone"
       /\ \A p \in Pods : pods[p] \in {"old", "stray"} => pseen[p] \in {"old", "stray"}
  /\ "pods" \in lagging => Settled \/ \E p \in Initial : pseen[p] # "dead"
  /\ Settled \/ Cardinality(In({"dead"})) <= deaths

\* The marks on the Milvus object are set in order, in every copy of it.
MarksInOrder ==
  /\ milvus.current \/ mseen.current => newDeploy # NotSaved
  /\ ~milvus.changing /\ (oldDeploy # "live" \/ mseen.changing) => milvus.current

SettledInv == SettledFirst /\ OldFirst /\ CacheKnows /\ MarksInOrder

\* With the owner references seen, no controller ends a pod or adds one.
KeptInv ==
  CurrentSets =>
    /\ saved.owned = {} /\ \A s \in Sets : newSets[s] \in {"none", "copy"}
    /\ newDeploy # NotSaved => newSets[Active] = "copy"
    /\ Cardinality(In({"dead"})) = deaths
    /\ Cardinality(Running) <= Size

\* When every pod that is seen has its label, every pod has it.
LEMMA LabelledSettles ==
  ASSUME ModeInv, SettledInv, Labelled
  PROVE  Settled
<1>1. oldDeploy = "gone" /\ \A s \in Sets : oldSets[s] = "gone"
  BY DEF Labelled, Deleted, OldSets
<1>2. CASE "pods" \notin lagging
  BY <1>1, <1>2 DEF Labelled, PView, Settled
<1>3. CASE "pods" \in lagging
  <2>1. \A p \in Pods : pseen[p] \notin {"old", "stray"}
    BY <1>3 DEF Labelled, PView
  <2>2. SUFFICES ASSUME ~Settled PROVE FALSE
    OBVIOUS
  <2>3. PICK p \in Initial : pseen[p] # "dead"
    BY <1>3, <2>2 DEF SettledInv, CacheKnows
  <2>4. p \in Pods /\ pseen[p] \in PodStates
    BY ModeChangeAssumption DEF ModeInv, ChangeTypeOK
  <2>5. pseen[p] \in {"marked", "zero"}
    BY <2>1, <2>3, <2>4 DEF SettledInv, CacheKnows, PodStates
  <2>6. \A q \in Pods : pods[q] \notin {"old", "stray"}
    BY <2>1, <2>4, <2>5 DEF SettledInv, CacheKnows
  <2>7. QED
    BY <1>1, <2>2, <2>6 DEF Settled
<1>4. QED
  BY <1>2, <1>3

\* How the steps change the old objects and the pods.
SamePods == UNCHANGED <<pods, deaths>>

OldObjectsStep ==
  \/ UNCHANGED <<oldDeploy, oldSets>> /\ SamePods
  \/ oldDeploy = "live" /\ oldDeploy' = "deleting" /\ oldSets' = oldSets /\ SamePods
  \/ /\ oldDeploy = "deleting" /\ oldDeploy' = "gone" /\ SamePods
     /\ oldSets' = [s \in Sets |-> IF oldSets[s] = "owned" THEN "orphan" ELSE oldSets[s]]
  \/ \E s \in Sets : /\ oldSets[s] \in {"owned", "orphan"} /\ oldSets' = [oldSets EXCEPT ![s] = "deleting"]
                     /\ oldDeploy' = oldDeploy /\ SamePods
  \/ \E s \in Sets : /\ oldSets[s] = "deleting" /\ oldSets' = [oldSets EXCEPT ![s] = "gone"]
                     /\ pods' = [p \in Pods |-> IF s = Active /\ pods[p] = "old" THEN "stray" ELSE pods[p]]
                     /\ UNCHANGED <<oldDeploy, deaths>>

PodsStep ==
  /\ UNCHANGED <<oldDeploy, oldSets>>
  /\ \/ \E p \in Pods : Deleted /\ pods[p] \in {"old", "stray"} /\ pods' = [pods EXCEPT ![p] = "marked"] /\ deaths' = deaths
     \/ \E s \in Sets : /\ newSets[s] = "dangling" /\ deaths' = deaths
                        /\ pods' = [p \in Pods |-> IF s = Active /\ pods[p] = "zero" THEN "dead" ELSE pods[p]]
     \/ \E p \in Pods : /\ oldSets[Active] \in {"owned", "orphan"} /\ pods[p] = "unborn"
                        /\ pods' = [pods EXCEPT ![p] = "old"] /\ deaths' = deaths
     \/ \E p \in Pods : /\ newSets[Active] # "none" /\ pods[p] \in {"marked", "unborn"}
                        /\ pods' = [pods EXCEPT ![p] = "zero"] /\ deaths' = deaths
     \/ \E p \in Pods : /\ pods[p] \in {"old", "stray", "marked", "zero"} /\ pods' = [pods EXCEPT ![p] = "dead"]
                        /\ deaths' = deaths + 1 /\ UNCHANGED <<milvus, mseen, newSets, newDeploy>>

LEMMA ModeStepKinds ==
  ASSUME [ChangeNext]_changeVars
  PROVE  /\ lagging' = lagging
         /\ OldObjectsStep \/ PodsStep
         /\ pseen' = pseen \/ (pseen' = pods /\ UNCHANGED <<oldDeploy, oldSets, pods, deaths>>)
         /\ \/ UNCHANGED <<newSets, newDeploy>>
            \/ Labelled
            \/ newDeploy # NotSaved
            \/ \E s \in Sets : newSets[s] # "none"
<1>1. CASE \/ MarkDeployModeChanging \/ MarkCurrentDeploy \/ UnmarkDeployModeChanging \/ UpdateRollingMode
  BY <1>1 DEF MarkDeployModeChanging, MarkCurrentDeploy, UnmarkDeployModeChanging, UpdateRollingMode, WriteMilvus,
              OldObjectsStep, SamePods
<1>2. CASE SaveOldDeploy \/ SaveOldReplicaSets \/ DeleteOldDeploy
  BY <1>2 DEF SaveOldDeploy, SaveOldReplicaSets, DeleteOldDeploy, OldObjectsStep, SamePods
<1>3. ASSUME NEW s \in Sets, DeleteOldReplicaSet(s) \/ RecoverReplicaSet(s)
      PROVE  /\ lagging' = lagging /\ OldObjectsStep /\ pseen' = pseen
             /\ UNCHANGED <<newSets, newDeploy>> \/ Labelled
  BY <1>3 DEF DeleteOldReplicaSet, RecoverReplicaSet, OldObjectsStep, SamePods
<1>4. CASE RecoverDeploy \/ OrphanReplicaSets \/ MakeReplicaSet \/ SyncMilvus \/ SyncPods
  BY <1>4 DEF RecoverDeploy, SetsRecovered, OrphanReplicaSets, MakeReplicaSet, SyncMilvus, SyncPods,
              OldObjectsStep, SamePods
<1>5. ASSUME NEW s \in Sets, OrphanPods(s)
      PROVE  lagging' = lagging /\ OldObjectsStep /\ UNCHANGED <<pseen, newSets, newDeploy>>
  BY <1>5 DEF OrphanPods, OldObjectsStep
<1>6. ASSUME NEW s \in Sets, CollectReplicaSet(s)
      PROVE  lagging' = lagging /\ PodsStep /\ UNCHANGED pseen /\ newSets[s] # "none"
  BY <1>6 DEF CollectReplicaSet, PodsStep
<1>7. ASSUME NEW p \in Pods, UpdateOldPodLabels(p) \/ ReplacePod(p) \/ AdoptPod(p) \/ CreatePod(p)
      PROVE  lagging' = lagging /\ PodsStep /\ UNCHANGED <<pseen, newSets, newDeploy>>
  BY <1>7 DEF UpdateOldPodLabels, ReplacePod, AdoptPod, CreatePod, SetPod, PodsStep
<1>8. ASSUME NEW p \in Pods, PodDies(p)
      PROVE  lagging' = lagging /\ PodsStep /\ UNCHANGED <<pseen, newSets, newDeploy>>
  BY <1>8 DEF PodDies, PodsStep, Running, In
<1>9. CASE UNCHANGED changeVars
  BY <1>9 DEF changeVars, OldObjectsStep, SamePods
<1>10. QED
  BY <1>1, <1>2, <1>3, <1>4, <1>5, <1>6, <1>7, <1>8, <1>9 DEF ChangeNext, Operator, Cluster

LEMMA SettledStays ==
  ASSUME ModeInv, Settled, OldObjectsStep \/ PodsStep
  PROVE  Settled'
<1>1. pods \in [Pods -> PodStates] /\ Active \in Sets
  BY ModeChangeAssumption DEF ModeInv, ChangeTypeOK
<1>2. CASE OldObjectsStep
  BY <1>2 DEF OldObjectsStep, SamePods, Settled
<1>3. CASE PodsStep
  BY <1>1, <1>3 DEF PodsStep, Settled
<1>4. QED
  BY <1>2, <1>3

\* Numbers of pods.
LEMMA PodsFinite == \A S : IsFiniteSet(In(S)) /\ IsFiniteSet(In(S)')
<1>1. ASSUME NEW S PROVE IsFiniteSet(In(S)) /\ IsFiniteSet(In(S)')
  <2>1. In(S) \subseteq Pods /\ In(S)' \subseteq Pods
    BY DEF In
  <2>2. QED
    BY <2>1, ModeChangeAssumption, FS_Subset
<1>2. QED
  BY <1>1

\* Only pods that die are dead, before the new ReplicaSets are there.
LEMMA DeadCounted ==
  ASSUME ModeInv, SettledInv, OldObjectsStep \/ PodsStep, ~Settled'
  PROVE  Cardinality(In({"dead"}))' <= deaths'
<1>1. pods \in [Pods -> PodStates] /\ Active \in Sets /\ deaths \in Nat
  BY SMT, ModeChangeAssumption DEF ModeInv, ChangeTypeOK
<1>2. ~Settled
  BY SettledStays
<1>3. Cardinality(In({"dead"})) <= deaths /\ \A s \in Sets : newSets[s] = "none"
  BY <1>2 DEF SettledInv, CacheKnows, SettledFirst
<1>4. CASE In({"dead"})' = In({"dead"}) /\ deaths' = deaths
  BY <1>3, <1>4
<1>5. ASSUME NEW p \in Pods, pods[p] \in {"old", "stray", "marked", "zero"}, pods' = [pods EXCEPT ![p] = "dead"],
             deaths' = deaths + 1
      PROVE  Cardinality(In({"dead"}))' <= deaths'
  <2>1. In({"dead"})' = In({"dead"}) \cup {p} /\ p \notin In({"dead"})
    BY <1>1, <1>5 DEF In
  <2>2. Cardinality(In({"dead"}) \cup {p}) = Cardinality(In({"dead"})) + 1
    BY <2>1, PodsFinite, FS_AddElement
  <2>3. Cardinality(In({"dead"})) \in Nat
    BY PodsFinite, FS_CardinalityType
  <2>4. QED
    BY SMTT(60), <1>1, <1>3, <1>5, <2>1, <2>2, <2>3
<1>6. ASSUME NEW p \in Pods, NEW state \in {"old", "marked", "zero"}, pods[p] # "dead",
             pods' = [pods EXCEPT ![p] = state]
      PROVE  In({"dead"})' = In({"dead"})
  BY <1>1, <1>6 DEF In
<1>7. ASSUME NEW s \in Sets, pods' = [p \in Pods |-> IF s = Active /\ pods[p] = "old" THEN "stray" ELSE pods[p]]
      PROVE  In({"dead"})' = In({"dead"})
  BY <1>1, <1>7 DEF In
<1>8. CASE OldObjectsStep
  BY <1>4, <1>7, <1>8 DEF OldObjectsStep, SamePods, In
<1>9. CASE PodsStep
  BY <1>3, <1>4, <1>5, <1>6, <1>9 DEF PodsStep
<1>10. QED
  BY <1>8, <1>9

LEMMA SettledStep ==
  ASSUME PodsSeen, ModeInv, SettledInv, [ChangeNext]_changeVars
  PROVE  SettledInv'
<1> USE DEF SettledInv
<1>1. /\ lagging' = lagging
      /\ OldObjectsStep \/ PodsStep
      /\ pseen' = pseen \/ (pseen' = pods /\ UNCHANGED <<oldDeploy, oldSets, pods, deaths>>)
      /\ \/ UNCHANGED <<newSets, newDeploy>>
         \/ Labelled
         \/ newDeploy # NotSaved
         \/ \E s \in Sets : newSets[s] # "none"
  BY ModeStepKinds
<1>2. /\ pods \in [Pods -> PodStates] /\ pods' \in [Pods -> PodStates] /\ oldSets \in [Sets -> {"owned", "orphan", "deleting", "gone"}]
      /\ Active \in Sets /\ Initial \subseteq Pods
  BY ModeChangeAssumption, ModeNext DEF ModeInv, ChangeTypeOK
<1>3. Settled => Settled'
  BY <1>1, SettledStays
<1>4. SettledFirst'
  BY <1>1, <1>3, LabelledSettles DEF SettledFirst
<1>5. OldFirst'
  <2>1. CASE OldObjectsStep
    BY <1>2, <2>1 DEF OldObjectsStep, SamePods, OldFirst
  <2>2. CASE PodsStep
    <3>1. newSets[Active] # "none" \/ Deleted => oldSets[Active] = "gone"
      BY <1>2 DEF SettledFirst, Settled, Deleted, OldSets
    <3>2. (\E s \in Sets : newSets[s] = "dangling") => oldSets[Active] = "gone"
      BY <1>2 DEF SettledFirst, Settled
    <3>3. QED
      BY <1>2, <2>2, <3>1, <3>2 DEF PodsStep, OldFirst
  <2>3. QED
    BY <1>1, <2>1, <2>2
<1>6. \A p \in Initial : pods'[p] # "unborn" /\ pseen'[p] # "unborn"
  <2>1. \A p \in Pods : pods[p] # "unborn" => pods'[p] # "unborn"
    BY <1>1, <1>2 DEF OldObjectsStep, SamePods, PodsStep
  <2>2. QED
    BY <1>1, <1>2, <2>1 DEF CacheKnows
<1>7. (\E p \in Pods : pseen'[p] \in {"marked", "zero"}) =>
        /\ oldSets'[Active] = "gone"
        /\ \A p \in Pods : pods'[p] \in {"old", "stray"} => pseen'[p] \in {"old", "stray"}
  <2>1. CASE pseen' = pods /\ UNCHANGED <<oldDeploy, oldSets, pods>>
    BY <2>1 DEF OldFirst
  <2>2. CASE pseen' = pseen /\ oldSets[Active] = "gone"
    <3>1. oldSets'[Active] = "gone"
      BY <1>1, <1>2, <2>2 DEF OldObjectsStep, PodsStep
    <3>2. \A p \in Pods : pods'[p] \in {"old", "stray"} => pods[p] \in {"old", "stray"}
      BY <1>1, <1>2, <2>2 DEF OldObjectsStep, SamePods, PodsStep
    <3>3. QED
      BY <2>2, <3>1, <3>2 DEF CacheKnows
  <2>3. QED
    BY <1>1, <2>1, <2>2 DEF CacheKnows
<1>8. Settled' \/ Cardinality(In({"dead"}))' <= deaths'
  BY <1>1, DeadCounted
<1>9. "pods" \in lagging' => Settled' \/ \E p \in Initial : pseen'[p] # "dead"
  <2>1. CASE pseen' = pseen
    BY <1>1, <1>3, <2>1 DEF CacheKnows
  <2>2. CASE pseen' = pods /\ UNCHANGED <<oldDeploy, oldSets, pods, deaths>> /\ "pods" \in lagging
    <3>1. SUFFICES ASSUME ~Settled, \A p \in Initial : pods[p] = "dead" PROVE FALSE
      BY <1>3, <2>2 DEF Settled
    <3>2. Initial \subseteq In({"dead"})
      BY <1>2, <3>1 DEF In
    <3>3. Size <= Cardinality(In({"dead"})) /\ Size \in Nat /\ Cardinality(In({"dead"})) \in Nat
      BY <3>2, PodsFinite, FS_Subset, FS_CardinalityType DEF Size
    <3>4. Cardinality(In({"dead"})) <= deaths /\ deaths \in 0..MaxDeaths /\ MaxDeaths < Size
      BY <2>2, <3>1 DEF CacheKnows, PodsSeen, ModeInv, ChangeTypeOK
    <3>5. QED
      BY SMT, <3>3, <3>4, ModeChangeAssumption
  <2>3. QED
    BY <1>1, <2>1, <2>2
<1>10. CacheKnows'
  BY <1>6, <1>7, <1>8, <1>9 DEF CacheKnows
<1>11. MarksInOrder'
  <2>1. milvus \in MarksType /\ mseen \in MarksType /\ MView \in {milvus, mseen}
    BY DEF ModeInv, ChangeTypeOK, MView
  <2>2. newDeploy # NotSaved => newDeploy' # NotSaved
    <3>1. newDeploy' = newDeploy \/ RecoverDeploy
      BY DEF ChangeNext, Operator, Cluster, MarkDeployModeChanging, MarkCurrentDeploy, UnmarkDeployModeChanging,
             UpdateRollingMode, WriteMilvus, SaveOldDeploy, DeleteOldDeploy, SaveOldReplicaSets,
             DeleteOldReplicaSet, RecoverReplicaSet, UpdateOldPodLabels, OrphanReplicaSets, MakeReplicaSet,
             OrphanPods, CollectReplicaSet, ReplacePod, AdoptPod, CreatePod, SetPod, PodDies, SyncMilvus,
             SyncPods, changeVars
    <3>2. QED
      BY <3>1 DEF RecoverDeploy
  <2>3. CASE MarkDeployModeChanging
    <3>1. milvus' = [milvus EXCEPT !.changing = TRUE] /\ UNCHANGED <<mseen, newDeploy>>
      BY <2>3 DEF MarkDeployModeChanging, WriteMilvus
    <3>2. milvus'.current = milvus.current /\ milvus'.changing = TRUE
      BY <2>1, <3>1 DEF MarksType
    <3>3. QED
      BY <3>1, <3>2 DEF MarksInOrder
  <2>4. CASE MarkCurrentDeploy
    <3>1. milvus' = [milvus EXCEPT !.current = TRUE] /\ UNCHANGED <<mseen, newDeploy>> /\ newDeploy # NotSaved
      BY <2>4 DEF MarkCurrentDeploy, WriteMilvus, Recovered
    <3>2. milvus'.current = TRUE
      BY <2>1, <3>1 DEF MarksType
    <3>3. QED
      BY <3>1, <3>2 DEF MarksInOrder
  <2>5. CASE UnmarkDeployModeChanging
    <3>1. milvus' = [milvus EXCEPT !.changing = FALSE] /\ UNCHANGED <<mseen, newDeploy>> /\ milvus.current
      BY <2>5 DEF UnmarkDeployModeChanging, WriteMilvus
    <3>2. milvus'.current = milvus.current
      BY <2>1, <3>1 DEF MarksType
    <3>3. QED
      BY <3>1, <3>2 DEF MarksInOrder
  <2>6. CASE UpdateRollingMode
    <3>1. milvus' = [milvus EXCEPT !.twoDeploy = TRUE] /\ UNCHANGED <<mseen, newDeploy, oldDeploy>>
      BY <2>6 DEF UpdateRollingMode, WriteMilvus
    <3>2. milvus'.current = milvus.current /\ milvus'.changing = milvus.changing
      BY <2>1, <3>1 DEF MarksType
    <3>3. QED
      BY <3>1, <3>2 DEF MarksInOrder
  <2>7. CASE SyncMilvus
    BY <2>7 DEF SyncMilvus, MarksInOrder
  <2>8. CASE DeleteOldDeploy
    <3>1. UNCHANGED <<milvus, mseen, newDeploy>> /\ (milvus.changing \/ mseen.changing)
      BY <2>1, <2>8 DEF DeleteOldDeploy, Changing
    <3>2. QED
      BY <3>1 DEF MarksInOrder
  <2>9. CASE OrphanReplicaSets
    BY <2>9 DEF OrphanReplicaSets, MarksInOrder
  <2>10. CASE UNCHANGED <<milvus, mseen, oldDeploy>>
    BY <2>2, <2>10 DEF MarksInOrder
  <2>11. QED
    BY <2>3, <2>4, <2>5, <2>6, <2>7, <2>8, <2>9, <2>10
       DEF ChangeNext, Operator, Cluster, SaveOldDeploy, SaveOldReplicaSets,
           DeleteOldReplicaSet, RecoverReplicaSet, RecoverDeploy, UpdateOldPodLabels, MakeReplicaSet,
           OrphanPods, CollectReplicaSet, ReplacePod, AdoptPod, CreatePod, SetPod, PodDies, SyncPods, changeVars
<1>12. QED
  BY <1>4, <1>5, <1>10, <1>11

LEMMA SettledInit ==
  ASSUME PodsSeen, ChangeInit
  PROVE  SettledInv
<1>1. In({"dead"}) = {}
  BY DEF ChangeInit, In
<1>2. Cardinality(In({"dead"})) <= deaths
  BY SMT, <1>1, FS_EmptySet DEF ChangeInit
<1>3. "pods" \in lagging => \E p \in Initial : pseen[p] # "dead"
  <2>1. "pods" \in lagging => Initial # {}
    <3>1. "pods" \in lagging => 0 < Size
      BY SMT, ModeChangeAssumption, SizeType DEF ChangeInit, PodsSeen
    <3>2. QED
      BY SMT, <3>1, FS_EmptySet DEF Size
  <2>2. \A p \in Initial : pseen[p] = "old"
    BY ModeChangeAssumption DEF ChangeInit
  <2>3. QED
    BY <2>1, <2>2
<1>4. SettledFirst /\ OldFirst
  BY DEF ChangeInit, SettledFirst, OldFirst
<1>5. CacheKnows
  BY <1>2, <1>3, ModeChangeAssumption DEF ChangeInit, CacheKnows
<1>6. MarksInOrder
  BY DEF ChangeInit, MarksInOrder
<1>7. QED
  BY <1>4, <1>5, <1>6 DEF SettledInv

\* Whatever caches lag and wherever a reconcile is cut off: once the annotation
\* of the change is gone (UnmarkDeployModeChanging), no pod keeps the old label
\* and the Deployment of group 0 is there, with its replicas, and current.
THEOREM NothingStaysBehind ==
  ASSUME PodsSeen
  PROVE  ChangeSpec => []NothingLeftBehind
<1>1. ChangeInit => ModeInv /\ SettledInv
  BY ModeInit, SettledInit
<1>2. ModeInv /\ SettledInv /\ [ChangeNext]_changeVars => ModeInv' /\ SettledInv'
  BY ModeNext, SettledStep
<1>3. ModeInv /\ SettledInv => NothingLeftBehind
  <2> SUFFICES ASSUME ModeInv, SettledInv, oldDeploy = "gone", ~milvus.changing
               PROVE  In({"old", "stray"}) = {} /\ milvus.current /\ newDeploy = Size
    BY DEF NothingLeftBehind
  <2>1. milvus.current /\ newDeploy # NotSaved
    BY DEF SettledInv, MarksInOrder
  <2>2. newDeploy = Size /\ Settled
    BY <2>1 DEF ModeInv, ChangeTypeOK, SettledInv, SettledFirst
  <2>3. QED
    BY <2>1, <2>2 DEF Settled, In
<1>4. QED
  BY <1>1, <1>2, <1>3, PTL DEF ChangeSpec

\* The ReplicaSets of group 0 are copies without an owner.
LEMMA CopiesStep ==
  ASSUME ModeInv, SettledInv, KeptInv, CurrentSets, [ChangeNext]_changeVars
  PROVE  /\ CurrentSets'
         /\ saved'.owned = {} /\ \A s \in Sets : newSets'[s] \in {"none", "copy"}
         /\ newDeploy' # NotSaved => newSets'[Active] = "copy"
<1>1. CurrentSets'
  BY ModeStepKinds DEF CurrentSets
<1>2. /\ saved \in [deploy: {Size, NotSaved}, sets: {NotSaved} \cup SUBSET Sets, owned: SUBSET Sets]
      /\ newSets \in [Sets -> SetStates] /\ Active \in Sets
  BY ModeChangeAssumption DEF ModeInv, ChangeTypeOK
<1>3. /\ saved.owned = {} /\ \A s \in Sets : newSets[s] \in {"none", "copy"}
      /\ newDeploy # NotSaved => newSets[Active] = "copy"
  BY DEF KeptInv
<1>4. CASE SaveOldReplicaSets
  <2>1. {s \in Sets : oldSets[s] = "owned"} = {}
    BY <1>4 DEF SaveOldReplicaSets, SettledInv, OldFirst
  <2>2. saved' = [saved EXCEPT !.sets = OldSets, !.owned = {}] /\ UNCHANGED <<newSets, newDeploy>>
    BY <1>4, <2>1 DEF SaveOldReplicaSets, StaleOwners, CurrentSets
  <2>3. saved'.owned = {}
    BY <1>2, <2>2
  <2>4. QED
    BY <1>1, <1>3, <2>2, <2>3
<1>5. CASE SaveOldDeploy
  BY <1>1, <1>2, <1>3, <1>5 DEF SaveOldDeploy
<1>6. ASSUME NEW s \in Sets, RecoverReplicaSet(s)
      PROVE  /\ saved'.owned = {} /\ \A t \in Sets : newSets'[t] \in {"none", "copy"}
             /\ newDeploy' # NotSaved => newSets'[Active] = "copy"
  BY <1>2, <1>3, <1>6 DEF RecoverReplicaSet
<1>7. CASE RecoverDeploy
  <2>1. Active \in saved.sets
    BY <1>2, <1>7 DEF RecoverDeploy, SetsRecovered, Labelled, Deleted, ModeInv, AllSetsSaved
  <2>2. QED
    BY <1>1, <1>2, <1>3, <1>7, <2>1 DEF RecoverDeploy, SetsRecovered
<1>8. CASE MakeReplicaSet \/ (\E s \in Sets : CollectReplicaSet(s))
  BY <1>3, <1>8 DEF MakeReplicaSet, CollectReplicaSet
<1>9. CASE UNCHANGED <<saved, newSets, newDeploy>>
  BY <1>1, <1>3, <1>9
<1>10. QED
  BY <1>1, <1>4, <1>5, <1>6, <1>7, <1>8, <1>9
     DEF ChangeNext, Operator, Cluster, MarkDeployModeChanging, MarkCurrentDeploy, UnmarkDeployModeChanging,
         UpdateRollingMode, WriteMilvus, DeleteOldDeploy, DeleteOldReplicaSet, UpdateOldPodLabels,
         OrphanReplicaSets, OrphanPods, ReplacePod, AdoptPod, CreatePod, SetPod, PodDies, SyncMilvus, SyncPods, changeVars

\* So no pod is ended and none is one too many.
LEMMA CountStep ==
  ASSUME ModeInv, SettledInv, KeptInv, CurrentSets, [ChangeNext]_changeVars
  PROVE  Cardinality(In({"dead"}))' = deaths' /\ Cardinality(Running)' <= Size
<1>1. /\ pods \in [Pods -> PodStates] /\ Active \in Sets /\ Size \in Nat /\ deaths \in Nat
      /\ newDeploy \in {Size, NotSaved}
  BY SMT, ModeChangeAssumption, SizeType DEF ModeInv, ChangeTypeOK
<1>2. /\ \A s \in Sets : newSets[s] \in {"none", "copy"}
      /\ Cardinality(In({"dead"})) = deaths /\ Cardinality(Running) <= Size
  BY DEF KeptInv
<1>3. /\ IsFiniteSet(Running) /\ IsFiniteSet(In({"dead"})) /\ IsFiniteSet(In({"old"})) /\ IsFiniteSet(In({"zero"}))
      /\ Cardinality(Running) \in Nat /\ Cardinality(In({"old"})) \in Nat /\ Cardinality(In({"zero"})) \in Nat
  BY PodsFinite, FS_CardinalityType DEF Running
<1>4. CASE Running' = Running /\ In({"dead"})' = In({"dead"}) /\ deaths' = deaths
  BY <1>2, <1>4
<1>5. CASE UNCHANGED <<pods, deaths>>
  BY <1>4, <1>5 DEF Running, In
<1>6. ASSUME NEW s \in Sets, OrphanPods(s)
      PROVE  Running' = Running /\ In({"dead"})' = In({"dead"}) /\ deaths' = deaths
  BY <1>1, <1>6 DEF OrphanPods, Running, In
<1>7. ASSUME NEW p \in Pods, UpdateOldPodLabels(p) \/ AdoptPod(p)
      PROVE  Running' = Running /\ In({"dead"})' = In({"dead"}) /\ deaths' = deaths
  BY <1>1, <1>7 DEF UpdateOldPodLabels, AdoptPod, SetPod, Running, In
<1>8. ASSUME NEW p \in Pods, NEW state \in {"old", "zero"}, SetPod(p, "unborn", state),
             Running = In({state}), Cardinality(In({state})) < Size
      PROVE  Cardinality(In({"dead"}))' = deaths' /\ Cardinality(Running)' <= Size
  <2>1. Running' = Running \cup {p} /\ p \notin Running /\ In({"dead"})' = In({"dead"}) /\ deaths' = deaths
    BY <1>1, <1>8 DEF SetPod, Running, In
  <2>2. Cardinality(Running \cup {p}) = Cardinality(Running) + 1
    BY <1>3, <2>1, FS_AddElement
  <2>3. QED
    BY SMT, <1>1, <1>2, <1>3, <1>8, <2>1, <2>2
<1>9. ASSUME NEW p \in Pods, ReplacePod(p)
      PROVE  Cardinality(In({"dead"}))' = deaths' /\ Cardinality(Running)' <= Size
  <2>1. Running = In({"old"})
    BY <1>9 DEF ReplacePod, SettledInv, OldFirst, Running, In
  <2>2. QED
    BY <1>8, <1>9, <2>1 DEF ReplacePod
<1>10. ASSUME NEW p \in Pods, CreatePod(p)
       PROVE  Cardinality(In({"dead"}))' = deaths' /\ Cardinality(Running)' <= Size
  <2>1. Settled /\ In({"marked"}) = {} /\ Wanted = Size
    BY <1>1, <1>2, <1>10 DEF CreatePod, SettledInv, SettledFirst, Wanted
  <2>2. Running = In({"zero"})
    BY <2>1 DEF Settled, Running, In
  <2>3. QED
    BY <1>8, <1>10, <2>1, <2>2 DEF CreatePod
<1>11. ASSUME NEW p \in Pods, PodDies(p)
       PROVE  Cardinality(In({"dead"}))' = deaths' /\ Cardinality(Running)' <= Size
  <2>1. /\ In({"dead"})' = In({"dead"}) \cup {p} /\ p \notin In({"dead"})
        /\ Running' \subseteq Running /\ deaths' = deaths + 1
    BY <1>1, <1>11 DEF PodDies, Running, In
  <2>2. Cardinality(In({"dead"}) \cup {p}) = Cardinality(In({"dead"})) + 1
    BY <1>3, <2>1, FS_AddElement
  <2>3. Cardinality(Running') <= Cardinality(Running) /\ Cardinality(Running') \in Nat
    BY <1>3, <2>1, FS_Subset, FS_CardinalityType
  <2>4. QED
    BY SMTT(60), <1>1, <1>2, <1>3, <2>1, <2>2, <2>3
<1>12. \A s \in Sets : ~CollectReplicaSet(s)
  BY <1>2 DEF CollectReplicaSet
<1>13. QED
  BY <1>4, <1>5, <1>6, <1>7, <1>9, <1>10, <1>11, <1>12
     DEF ChangeNext, Operator, Cluster, MarkDeployModeChanging, MarkCurrentDeploy, UnmarkDeployModeChanging,
         UpdateRollingMode, WriteMilvus, SaveOldDeploy, SaveOldReplicaSets, DeleteOldDeploy,
         DeleteOldReplicaSet, RecoverReplicaSet, RecoverDeploy, OrphanReplicaSets, MakeReplicaSet,
         SyncMilvus, SyncPods, changeVars

LEMMA KeptInit == ChangeInit => KeptInv
<1> SUFFICES ASSUME ChangeInit PROVE KeptInv
  OBVIOUS
<1>1. In({"dead"}) = {} /\ Running = Initial
  BY ModeChangeAssumption DEF ChangeInit, In, Running
<1>2. Cardinality(In({"dead"})) = deaths /\ Cardinality(Running) <= Size
  BY SMTT(30), <1>1, FS_EmptySet, SizeType DEF ChangeInit, Size
<1>3. QED
  BY <1>2 DEF ChangeInit, KeptInv

\* With owner references that are seen, the change restarts no pod and starts
\* none too many, for any pods and ReplicaSets and wherever it is cut off: the
\* pods that are gone are those that died by themselves.
THEOREM PodsAlwaysKept ==
  ASSUME PodsSeen
  PROVE  ChangeSpec => []PodsKept
<1>1. ChangeInit => ModeInv /\ SettledInv /\ KeptInv
  BY ModeInit, SettledInit, KeptInit
<1>2. ModeInv /\ SettledInv /\ KeptInv /\ [ChangeNext]_changeVars => ModeInv' /\ SettledInv' /\ KeptInv'
  <2>1. SUFFICES ASSUME ModeInv, SettledInv, KeptInv, [ChangeNext]_changeVars PROVE KeptInv'
    BY ModeNext, SettledStep
  <2>2. CurrentSets' => CurrentSets /\ Size' = Size
    BY <2>1, ModeStepKinds DEF CurrentSets, Size
  <2>3. QED
    BY <2>1, <2>2, CopiesStep, CountStep DEF KeptInv
<1>3. KeptInv => PodsKept
  BY DEF KeptInv, PodsKept
<1>4. QED
  BY <1>1, <1>2, <1>3, PTL DEF ChangeSpec
=============================================================================
