----------------------------- MODULE Workloads ------------------------------
(***************************************************************************)
(* Which workloads exist (deployments.go, statefulset.go,                  *)
(* deployment_cluster_to_standalone.go, services.go).  A component runs as *)
(* one Deployment (proxy, standalone), as two Deployments of which one is  *)
(* current (querynode), or as a StatefulSet with claims and a headless     *)
(* Service (querynode, on request); a component with deployment groups     *)
(* runs once for every group.  Users change the mode, the groups, the kind *)
(* of workload, its replicas and the size of its volumes; ReconcileDeploy- *)
(* ments creates what is missing and then removes what is left over.  The  *)
(* Service is reconciled at the same time from the same copy of the        *)
(* Milvus.  Every write is a step, and the operator may crash in between.  *)
(* The rollouts inside a pair of Deployments are in TwoDeployRollout.      *)
(***************************************************************************)
EXTENDS Integers, FiniteSets

CONSTANTS
  Configs,     \* the instances to consider
  Groups,      \* names of deployment groups
  MaxReplicas, \* bound on the replicas of a StatefulSet
  MaxSize,     \* bound on the size of a claim
  None

ASSUME WorkloadsAssumption == {MaxReplicas, MaxSize} \subseteq Nat \ {0} /\ "ungrouped" \notin Groups

VARIABLES
  config,    \* the instance; it stays as it is
  spec,      \* the spec of the Milvus
  slot,      \* labels of the Milvus: the current one of a pair of Deployments
  labelled,  \* annotation pod-service-label-added
  due,       \* a reconcile is due
  rec,       \* the reconcile
  deploy,    \* the Deployments
  sets,      \* the StatefulSets of querynode
  claims,    \* their claims: the size of each ordinal, 0 if there is none
  headless,  \* their headless Services
  service,   \* what the Service selects: a component, or the label
  edits, faults \* so far

crd == <<spec, slot, labelled>>
objects == <<deploy, sets, claims, headless, service>>
vars == <<config, crd, due, rec, objects, edits, faults>>

-----------------------------------------------------------------------------
(* What a spec asks for.                                                    *)

Ungrouped == "ungrouped" \* the name of the group of a component without groups
Names == Groups \cup {Ungrouped}
Ordinals == 0..(MaxReplicas - 1)
SpecType ==
  [mode: {"cluster", "standalone"}, proxy: SUBSET Groups, querynode: SUBSET Groups,
   sts: BOOLEAN, replicas: 0..MaxReplicas, size: 1..MaxSize, standalone: 0..1,
   hold: {"no", "paused", "manual"}]

\* start: the first spec; plans: those users go on to; old: made by an old
\* operator; expands: its storage class lets claims grow.
ASSUME ConfigsAssumption ==
  \A c \in Configs :
    /\ c.start \in SpecType /\ c.plans \subseteq SpecType
    /\ c.old \in BOOLEAN /\ c.expands \in BOOLEAN
    /\ c.maxEdits \in Nat /\ c.maxFaults \in Nat

Standalone == <<"standalone", Ungrouped>>
Workload == {Standalone} \cup ({"proxy", "querynode"} \X Names)

\* A component without groups is one workload.
GroupsOf(groups) == IF groups = {} THEN {Ungrouped} ELSE groups

GetComponentWorkloadsBySpec(s) ==
  {Standalone} \cup
  (IF s.mode # "cluster" THEN {}
   ELSE ({"proxy"} \X GroupsOf(s.proxy)) \cup ({"querynode"} \X GroupsOf(s.querynode)))

ComponentUsesStatefulSet(s, w) == w[1] = "querynode" /\ s.sts
ComponentUsesTwoDeployments(w) == w[1] = "querynode"

IsIdleClusterStandalone(s, w) == w = Standalone /\ s.mode = "cluster" /\ s.standalone = 0

IsChangingMode(s) == s.mode = "cluster" /\ s.standalone > 0

\* A Deployment is a workload and its slot, 0 when there is only one.
Keys == {<<w, 0>> : w \in Workload} \cup {<<w, 1>> : w \in {v \in Workload : ComponentUsesTwoDeployments(v)}}

\* ready: its pod serves; available: the condition Available in its status;
\* idled: history, it has been without replicas.
DeployType == [replicas: 0..1, ready: BOOLEAN, available: BOOLEAN, idled: BOOLEAN, tagged: BOOLEAN]
SetType == [replicas: 0..MaxReplicas, size: 1..MaxSize]

ASSUME NoneAssumption == None \notin DeployType \cup SetType

\* The pods of these components get the label that the Service selects.
IsService(w) == w[1] \in {"proxy", "standalone"}

\* One without replicas is available.
NewDeploy(w, replicas) ==
  [replicas |-> replicas, ready |-> FALSE, available |-> replicas = 0, idled |-> replicas = 0, tagged |-> IsService(w)]

\* One that is scaled up is as available as before, until the Deployment
\* controller has seen it.
Scaled(d, replicas) ==
  [d EXCEPT !.replicas = replicas, !.ready = FALSE, !.available = @ \/ replicas = 0, !.idled = @ \/ replicas = 0]

NewSet(s) == [replicas |-> s.replicas, size |-> s.size]

Exists(k) == deploy[k] # None
Deployed == {k \in Keys : Exists(k)}
ComponentOf(k) == k[1][1]

\* Replicas of the Deployment of a workload that is one.
Replicas(s, w) == IF w = Standalone THEN s.standalone ELSE 1

Steps == {"idle", "legacy", "stale", "reclaim", "loop", "groups", "tostandalone"}

RecType ==
  /\ DOMAIN rec = {"step", "spec", "slot", "labelled", "outdated", "todo", "at", "failed", "service"}
  /\ rec.step \in Steps /\ rec.spec \in SpecType /\ rec.slot \in [Workload -> {"unset", "0", "1"}]
  /\ rec.at \in Names /\ {rec.labelled, rec.outdated, rec.failed, rec.service} \subseteq BOOLEAN
  /\ rec.step = "loop" => rec.todo \subseteq Workload
  /\ rec.step \in {"stale", "reclaim"} => rec.todo \subseteq Names
  /\ rec.step \in {"idle", "legacy", "groups", "tostandalone"} => rec.todo \subseteq Keys

ObjectType ==
  /\ deploy \in [Keys -> DeployType \cup {None}]
  /\ sets \in [Names -> SetType \cup {None}]
  /\ claims \in [Names -> [Ordinals -> 0..MaxSize]]
  /\ headless \subseteq Names
  /\ service \in {"proxy", "standalone", "label"}

TypeOK ==
  /\ config \in Configs
  /\ spec \in SpecType
  /\ slot \in [Workload -> {"unset", "0", "1"}]
  /\ labelled \in BOOLEAN /\ due \in BOOLEAN
  /\ RecType /\ ObjectType
  /\ edits \in 0..config.maxEdits /\ faults \in 0..config.maxFaults

NoRec(s) ==
  [step |-> "idle", spec |-> s, slot |-> slot, labelled |-> labelled, outdated |-> FALSE,
   todo |-> {}, at |-> Ungrouped, failed |-> FALSE, service |-> FALSE]

\* An instance that runs as its first spec asks for; one that an old operator
\* made has pods and a Service without the label.
Init ==
  /\ config \in Configs
  /\ spec = config.start
  /\ labelled = ~config.old
  /\ LET running == GetComponentWorkloadsBySpec(spec)
         pair(w) == ComponentUsesTwoDeployments(w)
         up(w) == [replicas |-> Replicas(spec, w), ready |-> Replicas(spec, w) > 0, available |-> TRUE,
                   idled |-> Replicas(spec, w) = 0, tagged |-> IsService(w) /\ ~config.old]
         there(k) == k[1] \in running /\ ~ComponentUsesStatefulSet(spec, k[1]) /\ ~IsIdleClusterStandalone(spec, k[1])
         set(g) == <<"querynode", g>> \in running /\ spec.sts
     IN  /\ slot = [w \in Workload |-> IF w \in running /\ pair(w) /\ ~spec.sts THEN "0" ELSE "unset"]
         /\ deploy = [k \in Keys |-> IF ~there(k) THEN None
                                     ELSE IF k[2] = 0 THEN up(k[1]) ELSE NewDeploy(k[1], 0)]
         /\ sets = [g \in Names |-> IF set(g) THEN NewSet(spec) ELSE None]
         /\ claims = [g \in Names |-> [i \in Ordinals |-> IF set(g) /\ i < spec.replicas THEN spec.size ELSE 0]]
         /\ headless = {g \in Names : set(g)}
  /\ service = IF labelled THEN "label" ELSE IF spec.mode = "cluster" THEN "proxy" ELSE "standalone"
  /\ due = TRUE /\ rec = NoRec(spec)
  /\ edits = 0 /\ faults = 0

-----------------------------------------------------------------------------
(* ReconcileDeployments: the left-overs of another kind of workload go      *)
(* first.                                                                   *)

At(step) == rec.step = step
Enter(step, todo) == rec' = [rec EXCEPT !.step = step, !.todo = todo]

\* An error ends ReconcileDeployments; the reconcile ends with ReconcileServices.
Fail == rec' = [rec EXCEPT !.step = "idle", !.todo = {}, !.failed = TRUE] /\ due' = TRUE

\* Deployments of a component that is to be a StatefulSet.
LegacyDeployments(s) ==
  IF s.mode = "cluster" /\ s.sts THEN {k \in Deployed : ComponentOf(k) = "querynode"} ELSE {}

StartReconcile ==
  /\ due /\ At("idle") /\ ~rec.service
  /\ due' = FALSE
  /\ rec' = [NoRec(spec) EXCEPT !.step = "legacy", !.todo = LegacyDeployments(spec), !.service = TRUE]
  /\ UNCHANGED <<config, crd, objects, edits, faults>>

\* Outside of cluster mode nothing is pruned.
StaleStatefulSets(s) ==
  IF s.mode # "cluster" THEN {}
  ELSE {g \in Names : sets[g] # None /\ ~(s.sts /\ g \in GroupsOf(s.querynode))}

Delete(k) == deploy' = [deploy EXCEPT ![k] = None]

DeleteLegacyComponentDeployments ==
  /\ At("legacy")
  /\ IF rec.todo = {}
     THEN Enter("stale", StaleStatefulSets(rec.spec)) /\ UNCHANGED deploy
     ELSE \E k \in rec.todo : Delete(k) /\ Enter("legacy", rec.todo \ {k})
  /\ UNCHANGED <<config, crd, due, sets, claims, headless, service, edits, faults>>

\* Mutant: the left-overs of the other kind stay until the workloads are there.
MutantCleanupStaleStatefulSets ==
  /\ At("stale")
  /\ Enter("loop", GetComponentWorkloadsBySpec(rec.spec))
  /\ UNCHANGED <<config, crd, due, objects, edits, faults>>

CleanupStaleStatefulSets ==
  /\ At("stale")
  /\ IF rec.todo = {}
     THEN Enter("loop", GetComponentWorkloadsBySpec(rec.spec)) /\ UNCHANGED sets
     ELSE \E g \in rec.todo :
            /\ sets' = [sets EXCEPT ![g] = None]
            /\ rec' = [rec EXCEPT !.step = "reclaim", !.at = g, !.todo = rec.todo \ {g}]
  /\ UNCHANGED <<config, crd, due, deploy, claims, headless, service, edits, faults>>

\* The claims of the StatefulSet that was deleted, then its Service.
DeletePVCsForStatefulSet ==
  /\ At("reclaim")
  /\ LET g == rec.at
         left == {i \in Ordinals : claims[g][i] # 0}
     IN  IF left # {}
         THEN \E i \in left : claims' = [claims EXCEPT ![g][i] = 0] /\ UNCHANGED <<rec, headless>>
         ELSE /\ headless' = headless \ {g} /\ rec' = [rec EXCEPT !.step = "stale"] /\ UNCHANGED claims
  /\ UNCHANGED <<config, crd, due, deploy, sets, service, edits, faults>>

-----------------------------------------------------------------------------
(* The workloads, one after the other; an error of one does not keep the    *)
(* others from being reconciled.                                            *)

Finished(w) == rec' = [rec EXCEPT !.todo = @ \ {w}]
Failed(w) == rec' = [rec EXCEPT !.todo = @ \ {w}, !.failed = TRUE]

\* A write of the Milvus fails when it has changed since it was read.
WriteMilvus(w, write) ==
  \/ ~rec.outdated /\ write /\ rec' = [rec EXCEPT !.todo = @ \ {w}, !.failed = TRUE, !.outdated = TRUE]
  \/ rec.outdated /\ Failed(w) /\ UNCHANGED crd

ScaleDownIdleStandalone(w) ==
  /\ IF deploy[<<w, 0>>] # None /\ rec.spec.hold # "manual"
     THEN deploy' = [deploy EXCEPT ![<<w, 0>>] = Scaled(@, 0)]
     ELSE UNCHANGED deploy
  /\ Finished(w)
  /\ UNCHANGED <<crd, sets, claims, headless>>

\* Mutant: the pods keep their labels.
MutantLabelServicePods == deploy

LabelServicePods ==
  [k \in Keys |-> IF Exists(k) /\ IsService(k[1])
                  THEN [deploy[k] EXCEPT !.tagged = TRUE] ELSE deploy[k]]

\* The pods of an old instance that changes its mode are labelled before the
\* Milvus says so.
ReconcileComponentDeployment(w) ==
  LET k == <<w, 0>>
      replicas == Replicas(rec.spec, w)
  IN  /\ \/ /\ ~Exists(k) /\ Finished(w) /\ UNCHANGED crd
            /\ deploy' = [deploy EXCEPT ![k] = NewDeploy(w, replicas)]
         \/ /\ Exists(k) /\ w = Standalone /\ IsChangingMode(rec.spec) /\ ~rec.labelled
            /\ deploy' = LabelServicePods
            /\ WriteMilvus(w, labelled' = TRUE /\ UNCHANGED <<spec, slot>>)
         \/ /\ Exists(k) /\ ~(w = Standalone /\ IsChangingMode(rec.spec) /\ ~rec.labelled)
            /\ deploy' = IF deploy[k].replicas = replicas \/ rec.spec.hold = "manual" THEN deploy
                         ELSE [deploy EXCEPT ![k] = Scaled(@, replicas)]
            /\ Finished(w) /\ UNCHANGED crd
      /\ UNCHANGED <<sets, claims, headless>>

\* The slots of a pair that have a Deployment.
Slots(w) == {s \in {"0", "1"} : Exists(<<w, IF s = "0" THEN 0 ELSE 1>>)}

\* One slot is missing that is not the second of a new pair: "admin please fix".
NeedsAdmin(w, s) == Cardinality(Slots(w)) = 1 /\ ~(Slots(w) = {"0"} /\ s[w] = "0")

\* A pair of Deployments: the first slot is marked, each is created without
\* replicas, then the current one gets them.
ReconcileTwoDeployments(w) ==
  LET have == Slots(w)
      current == <<w, IF rec.slot[w] = "1" THEN 1 ELSE 0>>
      held == rec.spec.hold # "no"
      done == IF rec.spec.hold = "paused" THEN Finished(w) ELSE Failed(w)
  IN  /\ \/ /\ have = {} /\ rec.slot[w] # "0" /\ UNCHANGED deploy
            /\ WriteMilvus(w, slot' = [slot EXCEPT ![w] = "0"] /\ UNCHANGED <<spec, labelled>>)
         \/ /\ have = {} /\ rec.slot[w] = "0" /\ done /\ UNCHANGED crd
            /\ deploy' = [deploy EXCEPT ![<<w, 0>>] = NewDeploy(w, 0)]
         \/ /\ have = {"0"} /\ rec.slot[w] = "0" /\ done /\ UNCHANGED crd
            /\ deploy' = [deploy EXCEPT ![<<w, 1>>] = NewDeploy(w, 0)]
         \/ /\ NeedsAdmin(w, rec.slot)
            /\ Failed(w) /\ UNCHANGED <<crd, deploy>>
         \/ /\ have = {"0", "1"} /\ ~held /\ deploy[current].replicas = 0
            /\ deploy' = [deploy EXCEPT ![current].replicas = 1]
            /\ Failed(w) /\ UNCHANGED crd
         \/ /\ have = {"0", "1"} /\ (~held => deploy[current].replicas = 1)
            /\ Finished(w) /\ UNCHANGED <<crd, deploy>>
      /\ UNCHANGED <<sets, claims, headless>>

\* The claims of ordinals that the StatefulSet does not have any more.
ScaledDownPVCs(g) == {i \in Ordinals : claims[g][i] # 0 /\ i >= sets[g].replicas}

\* Claims grow where the storage class lets them, and never shrink.
PVCsToExpand(g) ==
  {i \in Ordinals : config.expands /\ claims[g][i] \in 1..(rec.spec.size - 1)}

\* In manual mode the operator leaves the replicas alone.
ScalesSet(g) == rec.spec.hold # "manual" /\ sets[g].replicas # rec.spec.replicas

\* The first write that is missing: the Service, the StatefulSet, its
\* replicas, the claims of replicas that are gone, the size of the others.
ReconcileComponentStatefulSet(w) ==
  LET g == w[2]
  IN  /\ \/ /\ g \notin headless
            /\ headless' = headless \cup {g} /\ UNCHANGED <<rec, sets, claims>>
         \/ /\ g \in headless /\ sets[g] = None
            /\ sets' = [sets EXCEPT ![g] = NewSet(rec.spec)]
            /\ Finished(w) /\ UNCHANGED <<headless, claims>>
         \/ /\ g \in headless /\ sets[g] # None /\ ScalesSet(g)
            /\ sets' = [sets EXCEPT ![g].replicas = rec.spec.replicas]
            /\ UNCHANGED <<rec, headless, claims>>
         \/ /\ g \in headless /\ sets[g] # None /\ ~ScalesSet(g)
            /\ LET surplus == ScaledDownPVCs(g)
                   small == PVCsToExpand(g)
               IN  IF surplus \cup small = {} THEN Finished(w) /\ UNCHANGED claims
                   ELSE \E i \in IF surplus # {} THEN surplus ELSE small :
                          /\ claims' = [claims EXCEPT ![g][i] = IF i \in surplus THEN 0 ELSE rec.spec.size]
                          /\ UNCHANGED rec
            /\ UNCHANGED <<sets, headless>>
      /\ UNCHANGED <<crd, deploy>>

First(todo) == CHOOSE w \in todo : TRUE

\* The status follows a StatefulSet that was created or changed, and a change
\* of the status starts a reconcile.
ReconcileWorkload ==
  /\ At("loop") /\ rec.todo # {}
  /\ LET w == First(rec.todo)
     IN  CASE IsIdleClusterStandalone(rec.spec, w) -> ScaleDownIdleStandalone(w)
           [] ComponentUsesStatefulSet(rec.spec, w) -> ReconcileComponentStatefulSet(w)
           [] ~ComponentUsesStatefulSet(rec.spec, w) /\ ComponentUsesTwoDeployments(w) ->
                ReconcileTwoDeployments(w)
           [] OTHER -> ReconcileComponentDeployment(w)
  /\ due' = (due \/ sets' # sets)
  /\ UNCHANGED <<config, service, edits, faults>>

-----------------------------------------------------------------------------
(* The left-overs of groups, and of the cluster that became a standalone.   *)

\* Mutant: Deployments are compared by component, without the group.
MutantStaleDeployments(s) ==
  {k \in Deployed : s.mode = "cluster" /\ ComponentOf(k) \notin {w[1] : w \in GetComponentWorkloadsBySpec(s)}}

\* Owned Deployments of a component that is there, of a group that is not.
StaleDeployments(s) ==
  LET workloads == GetComponentWorkloadsBySpec(s)
      managed == {w[1] : w \in workloads}
  IN  {k \in Deployed : ComponentOf(k) \in managed /\ k[1] \notin workloads}

\* The Deployment that has to be ready in the place of the stale ones; without
\* replicas it counts as ready.
DesiredDeployment(w) ==
  IF ComponentUsesTwoDeployments(w) THEN <<w, IF rec.slot[w] = "1" THEN 1 ELSE 0>> ELSE <<w, 0>>

\* Mutant: a Deployment that exists is good enough.
MutantDesiredWorkloadsReadyForCleanup(workloads) ==
  \A w \in workloads : Exists(DesiredDeployment(w))

DesiredWorkloadsReadyForCleanup(workloads) ==
  \A w \in workloads :
    LET k == DesiredDeployment(w)
    IN  /\ ComponentUsesTwoDeployments(w) => rec.slot[w] # "unset"
        /\ Exists(k)
        /\ deploy[k].replicas = 0 \/ deploy[k].available

\* Nothing is removed when a workload could not be reconciled.
EndOfLoop ==
  /\ At("loop") /\ rec.todo = {}
  /\ IF rec.failed THEN Fail
     ELSE /\ UNCHANGED due
          /\ LET stale == StaleDeployments(rec.spec)
                 gate == {w \in GetComponentWorkloadsBySpec(rec.spec) : \E k \in stale : w[1] = ComponentOf(k)}
             IN  Enter("groups", IF DesiredWorkloadsReadyForCleanup(gate) THEN stale ELSE {})
  /\ UNCHANGED <<config, crd, objects, edits, faults>>

AloneKey == <<Standalone, 0>>

\* Outside of manual mode, when the standalone is there and available.
ClusterDeployments(s) ==
  IF /\ s.mode = "standalone" /\ s.hold # "manual"
     /\ Exists(AloneKey) /\ deploy[AloneKey].available
  THEN {k \in Deployed : k[1] # Standalone} ELSE {}

CleanupStaleDeploymentGroups ==
  /\ At("groups")
  /\ IF rec.todo = {}
     THEN Enter("tostandalone", ClusterDeployments(rec.spec)) /\ UNCHANGED deploy
     ELSE \E k \in rec.todo : Delete(k) /\ Enter("groups", rec.todo \ {k})
  /\ UNCHANGED <<config, crd, due, sets, claims, headless, service, edits, faults>>

CleanupDeploymentClusterToStandalone ==
  /\ At("tostandalone")
  /\ IF rec.todo = {}
     THEN Enter("idle", {}) /\ UNCHANGED deploy
     ELSE \E k \in rec.todo : Delete(k) /\ Enter("tostandalone", rec.todo \ {k})
  /\ UNCHANGED <<config, crd, due, sets, claims, headless, service, edits, faults>>

\* ReconcileServices runs beside ReconcileDeployments.  The Service of an old
\* instance that changes its mode stays until the pods are labelled.
ReconcileServices ==
  /\ rec.service
  /\ rec' = [rec EXCEPT !.service = FALSE]
  /\ service' = IF IsChangingMode(rec.spec) /\ ~rec.labelled THEN service
                ELSE IF rec.labelled THEN "label"
                ELSE IF rec.spec.mode = "cluster" THEN "proxy" ELSE "standalone"
  /\ UNCHANGED <<config, crd, due, deploy, sets, claims, headless, edits, faults>>

-----------------------------------------------------------------------------
(* Users, faults and the cluster.                                           *)

Serves(c) == \E k \in Deployed : ComponentOf(k) = c /\ deploy[k].ready

Quiet == ~due /\ At("idle") /\ ~rec.service

\* A user who moves from standalone to cluster gives the standalone up when
\* the proxies serve and the operator has nothing left to do; one who moves
\* back asks for it again.
Edit(s) ==
  /\ edits < config.maxEdits /\ edits' = edits + 1
  /\ s # spec
  /\ LET alone(sp) == ~IsIdleClusterStandalone(sp, Standalone)
     IN  alone(spec) /\ ~alone(s) => Serves("proxy") /\ Quiet
  /\ spec' = s /\ due' = TRUE
  /\ rec' = [rec EXCEPT !.outdated = TRUE]
  /\ UNCHANGED <<config, slot, labelled, objects, faults>>

Crash ==
  /\ ~At("idle") \/ rec.service
  /\ faults < config.maxFaults /\ faults' = faults + 1
  /\ rec' = NoRec(spec) /\ due' = TRUE
  /\ UNCHANGED <<config, crd, objects, edits>>

\* The pods are ready and the status says so; the status of the Milvus changes
\* with it, which starts a reconcile.  A paused Deployment makes no pods, a pair
\* that is paused keeps those it has.
BecomeReady(k) ==
  /\ Exists(k) /\ deploy[k].replicas > 0 /\ ~deploy[k].ready
  /\ spec.hold = "paused" => ComponentUsesTwoDeployments(k[1])
  /\ deploy' = [deploy EXCEPT ![k] = [@ EXCEPT !.ready = TRUE, !.available = TRUE]]
  /\ due' = TRUE
  /\ UNCHANGED <<config, crd, rec, sets, claims, headless, service, edits, faults>>

\* The Deployment controller sees that a Deployment was scaled up, sooner or later.
Observe(k) ==
  /\ Exists(k) /\ deploy[k].replicas > 0 /\ ~deploy[k].ready /\ deploy[k].available
  /\ deploy' = [deploy EXCEPT ![k] = [@ EXCEPT !.available = FALSE]]
  /\ due' = TRUE
  /\ UNCHANGED <<config, crd, rec, sets, claims, headless, service, edits, faults>>

\* The claim of a new pod has the size in the template, which cannot change.
ProvisionClaim(g, i) ==
  /\ sets[g] # None /\ i < sets[g].replicas /\ claims[g][i] = 0
  /\ claims' = [claims EXCEPT ![g][i] = sets[g].size]
  /\ due' = TRUE
  /\ UNCHANGED <<config, crd, rec, deploy, sets, headless, service, edits, faults>>

Reconcile ==
  \/ StartReconcile \/ DeleteLegacyComponentDeployments \/ CleanupStaleStatefulSets
  \/ DeletePVCsForStatefulSet \/ ReconcileWorkload \/ EndOfLoop
  \/ CleanupStaleDeploymentGroups \/ CleanupDeploymentClusterToStandalone

Next ==
  \/ Reconcile \/ ReconcileServices \/ Crash
  \/ \E s \in config.plans : Edit(s)
  \/ \E k \in Keys : BecomeReady(k) \/ Observe(k)
  \/ \E g \in Names, i \in Ordinals : ProvisionClaim(g, i)

Spec == Init /\ [][Next]_vars

\* Failed reconciles are retried and a restarted operator reconciles every
\* object; the Deployment and StatefulSet controllers keep going.
FairSpec ==
  /\ Spec /\ WF_vars(Reconcile) /\ WF_vars(ReconcileServices)
  /\ \A k \in Keys : WF_vars(BecomeReady(k)) /\ WF_vars(Observe(k))
  /\ \A g \in Names, i \in Ordinals : WF_vars(ProvisionClaim(g, i))

-----------------------------------------------------------------------------
(* Properties.                                                              *)

\* The Service selects a pod that is ready.
HasEndpoint ==
  \E k \in Deployed : deploy[k].ready /\ IF service = "label" THEN deploy[k].tagged ELSE ComponentOf(k) = service

\* No change of the mode takes the Service's last endpoint away, whatever the
\* interleaving of labelling the pods, changing the selector, crashes, and the
\* removal of what is left over ("to no downtime support upgrading from
\* standalone to cluster", updateService).  The way back to standalone is covered
\* as long as the standalone has not been without replicas before.
EndpointKept ==
  [][HasEndpoint /\ (rec.spec.mode = "standalone" => ~(Exists(AloneKey) /\ deploy[AloneKey].idled))
       => HasEndpoint']_vars

\* The same without the exception, which does not hold: a standalone without
\* replicas is available, and CleanupDeploymentClusterToStandalone reads that
\* condition right after it was scaled up again.
EndpointKeptOnTheWayBack == [][HasEndpoint => HasEndpoint']_vars

\* What is to run of a component c has its replicas.
Scheduled(c) ==
  \A w \in GetComponentWorkloadsBySpec(rec.spec) :
    w[1] = c => Exists(DesiredDeployment(w)) /\ deploy[DesiredDeployment(w)].replicas > 0

\* "Desired workloads are made ready first so topology transitions do not
\* remove the serving deployment prematurely" (cleanupStaleDeploymentGroups): a
\* component that serves keeps serving while groups come and go.  Querynodes
\* may lose the group that serves once every pair in its place has got its
\* replicas.  Changing the kind of workload restarts the component, and leaving
\* cluster mode ends it.
ServingKept ==
  [][\A c \in {"proxy", "querynode"} :
       Serves(c) /\ rec.spec.mode = "cluster" /\ ~(rec.spec.sts /\ c = "querynode")
         => Serves(c)' \/ (c = "querynode" /\ Scheduled(c)')]_vars

\* The same without the allowance, which does not hold: the pair in the place of
\* a group was made without replicas, hence available, and counts as ready until
\* the Deployment controller has seen that it was scaled.
ServingKeptByPairs ==
  [][Serves("querynode") /\ rec.spec.mode = "cluster" /\ ~rec.spec.sts => Serves("querynode")']_vars

\* The Deployments of querynodes are deleted before there is a StatefulSet, and
\* the other way round (the order in ReconcileDeployments); pods of a workload
\* that was deleted may still be stopping.
OneKind == ~\E g \in Names, k \in Keys : sets[g] # None /\ Exists(k) /\ ComponentOf(k) = "querynode"

IsSet(g) == spec.mode = "cluster" /\ spec.sts /\ g \in GroupsOf(spec.querynode)

\* A Deployment for each workload the spec asks for and no other, ready; a
\* StatefulSet with a claim of the right size for each replica and no more.
AsAsked ==
  LET asked == {w \in GetComponentWorkloadsBySpec(spec) : ~ComponentUsesStatefulSet(spec, w)}
  IN  /\ {k[1] : k \in Deployed} \ {Standalone} = asked \ {Standalone}
      /\ \A k \in Deployed : deploy[k].replicas > 0 => deploy[k].ready
      /\ \A w \in asked : IsIdleClusterStandalone(spec, w) \/ \E k \in Deployed : k[1] = w /\ deploy[k].ready
      /\ \A g \in Names : IsSet(g) =>
           /\ sets[g] # None /\ sets[g].replicas = spec.replicas /\ g \in headless
           /\ \A i \in Ordinals : IF i < spec.replicas THEN claims[g][i] >= (IF config.expands THEN spec.size ELSE 1)
                              ELSE claims[g][i] = 0

\* In the end the workloads are as the spec asks, after any sequence of edits
\* and crashes but one, which is left to an admin (GetDeploys): a crash between
\* removing the two Deployments of a pair, and the component asked for again.
Settles ==
  <>[](\/ AsAsked
       \/ faults > 0 /\ \E w \in GetComponentWorkloadsBySpec(spec) :
            ComponentUsesTwoDeployments(w) /\ NeedsAdmin(w, slot))

\* cleanupStatefulSetWorkloadModes: "it always prunes StatefulSets (and their
\* headless services + PVCs) that are no longer desired".
StatefulSetsPruned ==
  <>[](\A g \in Names : ~IsSet(g) =>
         sets[g] = None /\ g \notin headless /\ \A i \in Ordinals : claims[g][i] = 0)
=============================================================================
