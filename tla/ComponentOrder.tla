--------------------------- MODULE ComponentOrder ---------------------------
(***************************************************************************)
(* The images of a cluster's components during upgrades and downgrades:    *)
(* RollingUpdateImageDependencyReady and updateMilvusContainer decide in   *)
(* each reconcile which Deployments get the new image, from the status     *)
(* that the last reconcile or the status loop wrote into the Milvus        *)
(* object; cleanupIndexNodeIfNeeded and cleanupCoordinatorsIfNeeded remove *)
(* what the new version does not have.                                     *)
(*                                                                         *)
(* A reconcile works on the copy of the object it read, and sees the       *)
(* Deployments through a cache.  Only changes of the object make the next  *)
(* one due.  Rolling updates are enabled, the default.                     *)
(***************************************************************************)
EXTENDS Components, Naturals

CONSTANTS
  Configs,      \* the instances to consider
  CacheKeepsUp, \* a reconcile sees the templates that earlier ones wrote
  MaxFailures,  \* bound on writes that fail
  NoImage       \* the image of a Deployment that does not exist

\* spec: what users submit first; edits: images and modes they go on to;
\* idle: components with zero replicas; maxEdits: bound on the edits.
ASSUME OrderAssumption ==
  /\ NoImage \notin Images
  /\ CacheKeepsUp \in BOOLEAN /\ MaxFailures \in Nat
  /\ \A c \in Configs :
       /\ c.spec \in SpecType /\ c.spec.mode = "cluster"
       /\ c.edits \subseteq [image: Images, update: {"rollingUpgrade", "rollingDowngrade", "all", "force"}]
       /\ c.idle \subseteq AllComponents \ {"standalone"} /\ c.maxEdits \in Nat

VARIABLES
  config,   \* the instance; it stays as it is
  mc,       \* the Milvus object: spec, generation and status
  due,      \* a reconcile is due
  rec,      \* the copy the reconcile works on, or last worked on, and its next step
  deploy,   \* the Deployment of each component: image, and the images of its pods
  seen,     \* the same, as the cache shows it
  edits, failures \* so far

vars == <<config, mc, due, rec, deploy, seen, edits, failures>>

\* The standalone component of a cluster is idle and left out.
Names == AllComponents \ {"standalone"}
Deployed(spec) == GetComponentsBySpec(spec) \ {"standalone"}

DeployType == [image: Images \cup {NoImage}, pods: SUBSET Images]
NoDeploy == [image |-> NoImage, pods |-> {}]

\* com: status.componentsDeployStatus.
MilvusType ==
  [spec: SpecType, gen: Nat, observed: Nat, current: Images,
   com: [Names -> [image: Images \cup {NoImage}, complete: BOOLEAN]]]

TypeOK ==
  /\ config \in Configs
  /\ mc \in MilvusType
  /\ rec \in [mc: MilvusType, step: {"idle", "apply", "indexnode", "coordinators", "status"}]
  /\ due \in BOOLEAN
  /\ deploy \in [Names -> DeployType] /\ seen \in [Names -> DeployType]
  /\ edits \in 0..config.maxEdits /\ failures \in 0..MaxFailures

Complete(c, d) == d.image # NoImage /\ d.pods = IF c \in config.idle THEN {} ELSE {d.image}

\* componentsDeployStatusUpdaterImpl.Update, of the components in the spec.
DeployStatus(spec, view) ==
  LET deployed == Deployed(spec)
  IN  [c \in Names |->
         IF c \in deployed THEN [image |-> view[c].image, complete |-> Complete(c, view[c])]
         ELSE [image |-> NoImage, complete |-> FALSE]]

\* An instance that has settled on the spec users submitted first.
Init ==
  /\ config \in Configs
  /\ LET spec == DefaultComponents(config.spec)
     IN  /\ deploy = [c \in Names |->
                        IF c \notin Deployed(spec) THEN NoDeploy
                        ELSE [image |-> spec.image,
                              pods |-> IF c \in config.idle THEN {} ELSE {spec.image}]]
         /\ mc = [spec |-> spec, gen |-> 1, observed |-> 1, current |-> spec.image,
                  com |-> DeployStatus(spec, deploy)]
  /\ due = FALSE
  /\ rec = [mc |-> mc, step |-> "idle"]
  /\ seen = deploy
  /\ edits = 0 /\ failures = 0

\* A write of the copy m as n: refused when the object has changed since.
Written(m, n) == IF m = mc THEN n ELSE mc

-----------------------------------------------------------------------------
(* Which Deployments get the new image.                                     *)

IsImageUpdated(m, c) == m.com[c].image = m.spec.image /\ m.com[c].complete

IsUpgradingTo26(m) == IsVersionGreaterThan26(m.spec) /\ m.current \notin Images26

\* The components that go before c in an update.
Before(m, c) ==
  IF c = "cdc" THEN {}
  ELSE (IF UseCdc(m.spec) THEN {"cdc"} ELSE {}) \cup
       IF IsUpgradingTo26(m) THEN GetDependenciesFor26Upgrade(m.spec, c)
       ELSE GetDependencies(m.spec, c)

\* Mutant: a status of an older spec counts.
MutantRollingUpdateImageDependencyReady(m, c) ==
  \A d \in Before(m, c) : IsImageUpdated(m, d)

RollingUpdateImageDependencyReady(m, c) ==
  /\ m.observed >= m.gen
  /\ \A d \in Before(m, c) : IsImageUpdated(m, d)

\* A Deployment that is created or has no replicas gets everything new.
UpdatesImage(m, c) ==
  \/ seen[c].image = NoImage \/ c \in config.idle
  \/ m.spec.update \in {"all", "force"}
  \/ RollingUpdateImageDependencyReady(m, c)

\* The components the reconcile writes.
Updates(m) == {c \in Deployed(m.spec) : seen[c].image # m.spec.image /\ UpdatesImage(m, c)}

\* A write based on an old copy is refused.
Fresh(c) == seen[c] = deploy[c]

Updated(C, image) ==
  [c \in Names |->
     IF c \notin C THEN deploy[c]
     ELSE [image |-> image, pods |-> IF deploy[c].pods = {} THEN {} ELSE deploy[c].pods \cup {image}]]

-----------------------------------------------------------------------------
(* The reconcile.                                                           *)

StartReconcile ==
  /\ due /\ rec.step = "idle"
  /\ CacheKeepsUp => \A c \in Names : seen[c].image = deploy[c].image
  /\ rec' = [mc |-> mc, step |-> "apply"]
  /\ due' = FALSE
  /\ UNCHANGED <<config, mc, deploy, seen, edits, failures>>

\* ReconcileDeployments goes on after an error, and returns it at the end.
ReconcileDeployments ==
  /\ rec.step = "apply"
  /\ \E failed \in {{}} \cup (IF failures < MaxFailures THEN {{c} : c \in Updates(rec.mc)} ELSE {}) :
       LET done == {c \in Updates(rec.mc) \ failed : Fresh(c)}
       IN  /\ deploy' = Updated(done, rec.mc.spec.image)
           /\ rec' = [rec EXCEPT !.step = IF done = Updates(rec.mc) THEN "indexnode" ELSE "idle"]
           /\ due' = (due \/ done # Updates(rec.mc))
           /\ failures' = failures + Cardinality(failed)
  /\ UNCHANGED <<config, mc, seen, edits>>

\* The Deployments of C are deleted, then their fields of the spec are cleared.
\* The write of the spec may fail.
Offline(C, next) ==
  /\ deploy' = [c \in Names |-> IF c \in C THEN NoDeploy ELSE deploy[c]]
  /\ \/ /\ mc' = Written(rec.mc, [rec.mc EXCEPT !.spec.fields = @ \ C, !.gen = @ + 1])
        /\ rec' = [rec EXCEPT !.step = IF rec.mc = mc THEN next ELSE "idle"]
        /\ UNCHANGED failures
     \/ /\ failures < MaxFailures /\ failures' = failures + 1
        /\ rec' = [rec EXCEPT !.step = "idle"]
        /\ UNCHANGED mc
  /\ due' = TRUE

Skip(next) == rec' = [rec EXCEPT !.step = next] /\ UNCHANGED <<mc, deploy, due, failures>>

CleanupIndexNodeIfNeeded ==
  /\ rec.step = "indexnode"
  /\ IF /\ IsVersionGreaterThan26(rec.mc.spec) /\ "indexnode" \in rec.mc.spec.fields
        /\ IsImageUpdated(rec.mc, "proxy")
     THEN Offline({"indexnode"}, "coordinators")
     ELSE Skip("coordinators")
  /\ UNCHANGED <<config, seen, edits>>

\* Mutant: the coordinators go as soon as there is a mixcoord.
MutantCleanupCoordinatorsIfNeeded ==
  /\ rec.step = "coordinators"
  /\ IF UseMixCoord(rec.mc.spec) /\ HasCoordsSpec(rec.mc.spec)
     THEN Offline(MilvusCoords, "status")
     ELSE Skip("status")
  /\ UNCHANGED <<config, seen, edits>>

CleanupCoordinatorsIfNeeded ==
  /\ rec.step = "coordinators"
  /\ IF UseMixCoord(rec.mc.spec) /\ HasCoordsSpec(rec.mc.spec) /\ IsImageUpdated(rec.mc, "mixcoord")
     THEN Offline(MilvusCoords, "status")
     ELSE Skip("status")
  /\ UNCHANGED <<config, seen, edits>>

\* UpdateStatusForNewGeneration.  The modes all and force do not compare images.
NewStatus(m) ==
  LET com == DeployStatus(m.spec, seen)
      updated == \A c \in Deployed(m.spec) :
                   com[c].complete /\ (m.spec.update \in {"all", "force"} \/ com[c].image = m.spec.image)
  IN  [m EXCEPT !.observed = m.gen, !.com = com,
                !.current = IF updated THEN m.spec.image ELSE @]

UpdateStatus ==
  /\ rec.step = "status"
  /\ mc' = Written(rec.mc, NewStatus(rec.mc))
  /\ due' = (due \/ mc' # rec.mc)
  /\ rec' = [rec EXCEPT !.step = "idle"]
  /\ UNCHANGED <<config, deploy, seen, edits, failures>>

\* Mutant: an instance that was updated once is not looked at again.
MutantSyncStatus ==
  /\ mc.observed >= mc.gen /\ mc.current # mc.spec.image
  /\ NewStatus(mc) # mc
  /\ mc' = NewStatus(mc) /\ due' = TRUE
  /\ UNCHANGED <<config, rec, deploy, seen, edits, failures>>

\* A round of the status loop, whose write is refused unless the object is
\* still what it read.
SyncStatus ==
  /\ mc.observed >= mc.gen
  /\ NewStatus(mc) # mc
  /\ mc' = NewStatus(mc) /\ due' = TRUE
  /\ UNCHANGED <<config, rec, deploy, seen, edits, failures>>

-----------------------------------------------------------------------------
(* Users, the Deployment controller and the cache.                          *)

Edit(e) ==
  /\ edits < config.maxEdits /\ edits' = edits + 1
  /\ e # [image |-> mc.spec.image, update |-> mc.spec.update]
  /\ mc' = [mc EXCEPT !.spec = DefaultComponents([@ EXCEPT !.image = e.image, !.update = e.update]),
                      !.gen = @ + 1]
  /\ due' = TRUE
  /\ UNCHANGED <<config, rec, deploy, seen, failures>>

\* The cache shows the progress of a rollout at once: a cache that lags is a
\* slower rollout.  What the operator wrote it may show later.
Roll(c) ==
  /\ deploy[c].image # NoImage /\ c \notin config.idle
  /\ deploy[c].pods # {deploy[c].image}
  /\ deploy' = [deploy EXCEPT ![c].pods = {deploy[c].image}]
  /\ seen' = IF Fresh(c) THEN [seen EXCEPT ![c] = deploy'[c]] ELSE seen
  /\ UNCHANGED <<config, mc, due, rec, edits, failures>>

SyncCache ==
  /\ seen # deploy /\ seen' = deploy
  /\ UNCHANGED <<config, mc, due, rec, deploy, edits, failures>>

Reconcile ==
  \/ StartReconcile \/ ReconcileDeployments \/ CleanupIndexNodeIfNeeded
  \/ CleanupCoordinatorsIfNeeded \/ UpdateStatus

Next ==
  \/ Reconcile \/ SyncStatus \/ SyncCache
  \/ \E c \in Names : Roll(c)
  \/ \E e \in config.edits : Edit(e)

Spec == Init /\ [][Next]_vars

\* The work queue, the ticker of the status loop, the Deployment controller and
\* the informer keep going.
FairSpec ==
  Spec /\ WF_vars(Reconcile \/ SyncStatus \/ SyncCache \/ \E c \in Names : Roll(c))

-----------------------------------------------------------------------------
(* Properties.                                                              *)

PlanOf(m) ==
  [image |-> m.spec.image,
   before |-> [c \in Names |-> IF m.spec.update \in {"all", "force"} THEN {} ELSE Before(m, c)]]

Ordered ==
  INSTANCE OrderedUpdate
    WITH Tags <- Images, NoTag <- NoImage, plan <- PlanOf(mc), held <- PlanOf(rec.mc),
         template <- [c \in Names |-> deploy[c].image],
         pods <- [c \in Names |-> deploy[c].pods], idle <- config.idle

\* The reconciles implement the ordered update: although they decide from a
\* status that another step wrote some time ago, a Deployment with pods gets
\* the image of the spec only while every component before it runs that image
\* and no other, through edits, reverts, failed writes and lagging caches.
UpdatesInOrder == Ordered!Spec

\* While cleanupCoordinatorsIfNeeded replaces the four coordinators by a
\* mixcoord, there always is a complete set of coordinators with pods.
CoordinatorsServe ==
  deploy["mixcoord"].pods # {} \/ \A c \in MilvusCoords : deploy[c].pods # {}

\* No chain of components waiting for each other comes to a halt: when users
\* come to rest, exactly the components of the spec are deployed, all of them
\* run its image, and status.currentImage says so.
EveryComponentUpdated ==
  <>[](/\ mc.current = mc.spec.image
       /\ \A c \in Deployed(mc.spec) : deploy[c].image = mc.spec.image /\ Complete(c, deploy[c])
       /\ \A c \in Names \ Deployed(mc.spec) : deploy[c] = NoDeploy)
=============================================================================
