-------------------------- MODULE TwoDeployRollout --------------------------
(***************************************************************************)
(* A component of a Milvus instance in two-deployment mode: the deploy     *)
(* controller keeps two Deployments (slots 0 and 1), writes a new pod      *)
(* template to the idle one, and moves the replicas over step by step      *)
(* (pkg/controllers/deploy_ctrl.go, deploy_ctrl_util.go, rollout_util.go). *)
(* Beside it the HPA reconciler removes the autoscaler while a rollout is  *)
(* in progress (hpa.go), users edit the spec, autoscalers scale, and the   *)
(* cluster starts and stops pods.                                          *)
(*                                                                         *)
(* Every API write is a step of its own.  A reconcile reads the informers' *)
(* caches, which may lag; the API server refuses a write based on an       *)
(* outdated copy.                                                          *)
(***************************************************************************)
EXTENDS ScalePlan

CONSTANTS
  Templates,      \* pod templates the spec can render to
  Dummy,          \* template of slot 1 when it is created: the dummy image
  Configs,        \* the configurations of the component to consider
  HpaMin, HpaMax  \* bounds of the autoscaler

Slots == {0, 1}
NoSlot == 2

Last(slot) == 1 - slot

\* mode: who decides the replicas, or ImageUpdateModeForce; strategy: the
\* effective rollingUpdate; limits: the resource limits of each template;
\* replicas: what users ask for, -1 leaving them to an external autoscaler;
\* lagging: the caches that may lag behind the API server; and bounds:
\* maxEdits on the edits of the spec, maxScales on the changes made by the
\* autoscaler, maxFailures on pods that become unready, maxFaults on crashes
\* inside PrepareNewRollout.
IsConfig(c) ==
  /\ c.mode \in {"static", "hpa", "external", "force"}
  /\ c.strategy \in [maxSurge: IntOrString, maxUnavailable: IntOrString]
  /\ ValidRollingUpdate(c.strategy)
  /\ DOMAIN c.limits = Templates \cup {Dummy}
  /\ c.replicas \subseteq IF c.mode = "external" THEN {-1, 0} ELSE Nat
  /\ c.lagging \subseteq {"milvus", "deploy", "pods"}
  /\ {c.maxEdits, c.maxScales, c.maxFailures, c.maxFaults} \subseteq Nat

ASSUME RolloutAssumption ==
  /\ Dummy \notin Templates
  /\ \A c \in Configs : IsConfig(c)
  /\ HpaMin \in Nat \ {0} /\ HpaMax \in Nat /\ HpaMin <= HpaMax

VARIABLES
  config,   \* the configuration of the component; it stays as it is
  milvus,   \* spec (rendered template, replicas), current-group-id, rolling-id
  deploy,   \* the Deployment of each slot: spec and status
  pods,     \* the pods of each slot
  hpa,      \* the slot the managed HPA targets, or NoSlot
  mseen, dseen, pseen, \* the informers' view of milvus, deploy and pods
  prep,     \* a reconcile between the two stages of PrepareNewRollout
  edits, scales, failures, faults, \* events so far
  floor, ceiling       \* least and most replicas users ever asked for

objects == <<config, milvus, deploy, pods, hpa>>
views   == <<mseen, dseen, pseen>>
history == <<edits, scales, failures, faults, floor, ceiling>>
vars    == <<objects, views, prep, history>>

-----------------------------------------------------------------------------
(* State.                                                                   *)

MilvusType == [template: Templates, replicas: config.replicas,
               current: Slots \cup {NoSlot}, rolling: BOOLEAN]

\* observed: status.observedGeneration is the generation of the spec.
DeployType == [exists: BOOLEAN, template: Templates \cup {Dummy}, replicas: Nat,
               observed: BOOLEAN, total: Nat, updated: Nat, available: Nat]

\* old: serving pods of an earlier template of the same Deployment.
PodsType == [old: Nat, starting: Nat, ready: Nat, dying: Nat]

Absent == [exists |-> FALSE, template |-> Dummy, replicas |-> 0,
           observed |-> TRUE, total |-> 0, updated |-> 0, available |-> 0]
NoPods == [old |-> 0, starting |-> 0, ready |-> 0, dying |-> 0]

Live(p)    == p.old + p.starting + p.ready
AllPods(p) == Live(p) + p.dying
Serving    == pods[0].old + pods[0].ready + pods[1].old + pods[1].ready

MView == IF "milvus" \in config.lagging THEN mseen ELSE milvus
DView == IF "deploy" \in config.lagging THEN dseen ELSE deploy
PView == IF "pods" \in config.lagging THEN pseen ELSE pods

TypeOK ==
  /\ config \in Configs
  /\ milvus \in MilvusType /\ mseen \in MilvusType
  /\ deploy \in [Slots -> DeployType] /\ dseen \in [Slots -> DeployType]
  /\ pods \in [Slots -> PodsType] /\ pseen \in [Slots -> PodsType]
  /\ hpa \in Slots \cup {NoSlot}
  /\ prep \subseteq [milvus: MilvusType, slot: Slots]
  /\ edits \in 0..config.maxEdits /\ scales \in 0..config.maxScales
  /\ failures \in 0..config.maxFailures /\ faults \in 0..config.maxFaults
  /\ floor \in config.replicas /\ ceiling \in config.replicas

Init ==
  /\ config \in Configs
  /\ \E t \in Templates, r \in config.replicas :
       /\ milvus = [template |-> t, replicas |-> r, current |-> NoSlot, rolling |-> FALSE]
       /\ floor = r /\ ceiling = r
  /\ deploy = [i \in Slots |-> Absent]
  /\ pods = [i \in Slots |-> NoPods]
  /\ hpa = NoSlot
  /\ mseen = milvus /\ dseen = deploy /\ pseen = pods
  /\ prep = {}
  /\ edits = 0 /\ scales = 0 /\ failures = 0 /\ faults = 0

-----------------------------------------------------------------------------
(* Reads and writes of a reconcile.                                         *)

\* A write of the object read from a cache: refused when the copy is outdated.
WriteMilvus(read, m) ==
  /\ read = milvus
  /\ milvus' = m

\* Only a change of the spec gives the Deployment a new generation.
Written(d, template, replicas) ==
  [d EXCEPT !.template = template, !.replicas = replicas,
            !.observed = d.observed /\ template = d.template /\ replicas = d.replicas]

\* Pods that run when the template of their Deployment changes become old.
Outdated(p) == [p EXCEPT !.old = @ + p.ready, !.dying = @ + p.starting,
                         !.starting = 0, !.ready = 0]

UpdateDeploy(i, template, replicas) ==
  /\ DView[i] = deploy[i]
  /\ deploy' = [deploy EXCEPT ![i] = Written(@, template, replicas)]
  /\ pods' = IF template = deploy[i].template THEN pods
             ELSE [pods EXCEPT ![i] = Outdated(@)]

\* GetDeploys finds both Deployments and knows which one is current.
TwoDeploys == MView.current # NoSlot /\ \A i \in Slots : DView[i].exists

\* HandleStop is due instead of rolling and scaling.
Stopping == MView.replicas = 0 /\ config.mode # "hpa"

Current == MView.current
Desired == MView.template

-----------------------------------------------------------------------------
(* HandleCreate.                                                            *)

MarkFirstGroup ==
  /\ prep = {}
  /\ \A i \in Slots : ~DView[i].exists
  /\ MView.current # 0
  /\ WriteMilvus(MView, [MView EXCEPT !.current = 0])
  /\ UNCHANGED <<config, deploy, pods, hpa, views, prep, history>>

\* CreateDeploy: no replicas; the second slot runs a dummy image, so that it
\* equals no template of the spec.  Creating what exists is an error.
CreateDeploy(i) ==
  /\ ~deploy[i].exists
  /\ deploy' = [deploy EXCEPT ![i] =
                  [Absent EXCEPT !.exists = TRUE, !.observed = FALSE,
                     !.template = IF i = 0 THEN Desired ELSE Dummy]]
  /\ UNCHANGED <<config, milvus, pods, hpa, views, prep, history>>

HandleCreate ==
  /\ prep = {}
  /\ Current = 0
  /\ \/ ~DView[0].exists /\ ~DView[1].exists /\ CreateDeploy(0)
     \/ DView[0].exists /\ ~DView[1].exists /\ CreateDeploy(1)

-----------------------------------------------------------------------------
(* HandleStop: the current Deployment, then the last, then the rolling id.   *)

HandleStop ==
  /\ prep = {}
  /\ TwoDeploys /\ Stopping
  /\ LET busy == {i \in Slots : DView[i].replicas # 0}
     IN  \/ /\ busy # {}
            /\ LET i == IF Current \in busy THEN Current ELSE Last(Current)
               IN  UpdateDeploy(i, DView[i].template, 0)
            /\ UNCHANGED milvus
         \/ /\ busy = {} /\ MView.rolling
            /\ WriteMilvus(MView, [MView EXCEPT !.rolling = FALSE])
            /\ UNCHANGED <<deploy, pods>>
  /\ UNCHANGED <<config, hpa, views, prep, history>>

-----------------------------------------------------------------------------
(* HandleRolling.                                                           *)

IsPodTemplateChanged(i) == DView[i].template # Desired

ShouldRollback ==
  /\ IsPodTemplateChanged(Current)
  /\ ~IsPodTemplateChanged(Last(Current))

GetLeastReplicasRegardingHPA(m) == IF m.replicas < 0 THEN 1 ELSE m.replicas

\* Mutant: only the specs are compared, not what runs.
MutantLastDown(last) == DView[last].replicas = 0

\* The last Deployment is down: in its spec, its status, and its pods.
LastDown(last) ==
  /\ DView[last].observed
  /\ DView[last].replicas = 0 /\ DView[last].total = 0
  /\ AllPods(PView[last]) = 0

CurrentUp(current) ==
  /\ GetLeastReplicasRegardingHPA(MView) <= DView[current].replicas
  /\ DView[current].observed
  /\ DView[current].replicas = DView[current].updated
  /\ DView[current].updated = DView[current].total
  /\ DView[current].updated = DView[current].available

\* Mutant: only the new Deployment is looked at.
MutantDeploymentShowsRolloutFinished == CurrentUp(Current)

DeploymentShowsRolloutFinished == CurrentUp(Current) /\ LastDown(Last(Current))

Rolling == prep = {} /\ TwoDeploys /\ ~Stopping

\* LastRolloutFinished clears the rolling id and ends the reconcile.
FinishRollout ==
  /\ Rolling
  /\ ~ShouldRollback
  /\ MView.rolling /\ DeploymentShowsRolloutFinished
  /\ WriteMilvus(MView, [MView EXCEPT !.rolling = FALSE])
  /\ UNCHANGED <<config, deploy, pods, hpa, views, prep, history>>

\* Mutant: a new template is always written to the current Deployment.
MutantRolloutSlot == Current

\* The Deployment that gets the new template.
RolloutSlot ==
  IF ShouldRollback \/ DView[Current].replicas > 0 THEN Last(Current) ELSE Current

CanStartRollout ==
  \/ ShouldRollback
  \/ ~MView.rolling /\ IsPodTemplateChanged(Current)

\* PrepareNewRollout, stage 1: the template.
PrepareNewRollout ==
  /\ Rolling
  /\ CanStartRollout
  /\ UpdateDeploy(RolloutSlot, Desired, DView[RolloutSlot].replicas)
  /\ prep' = {[milvus |-> MView, slot |-> RolloutSlot]}
  /\ UNCHANGED <<config, milvus, hpa, views, history>>

\* PrepareNewRollout, stage 2: the group id and the rolling id, unless the
\* Milvus object has changed since the reconcile read it.
SetRolling ==
  \E p \in prep :
    /\ milvus' = IF p.milvus = milvus
                 THEN [milvus EXCEPT !.current = p.slot, !.rolling = TRUE]
                 ELSE milvus
    /\ prep' = {}
    /\ UNCHANGED <<config, deploy, pods, hpa, views, history>>

Crash ==
  /\ prep # {} /\ faults < config.maxFaults
  /\ prep' = {} /\ faults' = faults + 1
  /\ UNCHANGED <<objects, views, edits, scales, failures, floor, ceiling>>

-----------------------------------------------------------------------------
(* HandleScaling: ScaleDeployments.                                         *)

CheckScaleKind(last) ==
  CASE config.mode = "force"    -> "force"
    [] config.mode = "hpa"      -> "hpa"
    [] MView.replicas < 0     -> "external"
    [] OTHER -> IF DView[last].replicas > 0 THEN "rollout" ELSE "normal"

DeploymentIsStable(i) ==
  LET p == PView[i]
      d == DView[i]
  IN  /\ p.dying = 0 /\ p.starting = 0 /\ AllPods(p) = d.replicas
      /\ d.observed
      /\ d.replicas = d.total /\ d.total = d.updated /\ d.total = d.available

\* A surged pod may be pending for ever on a full pool: with no surge, old
\* capacity is released once the last scaling has settled.
SettledWithPending(i) ==
  LET p == PView[i]
      d == DView[i]
  IN  /\ d.available <= p.old + p.ready
      /\ \/ DeploymentIsStable(i)
         \/ /\ d.observed /\ d.total = d.replicas /\ d.updated = d.total
            /\ AllPods(p) = d.replicas /\ p.dying = 0

CheckDeploymentsStable(current, last, allowUnavailable) ==
  /\ DeploymentIsStable(last)
  /\ IF allowUnavailable THEN SettledWithPending(current)
     ELSE DeploymentIsStable(current)

\* Mutant: nothing is waited for.
MutantCheckCanScaleNow(current, last) == TRUE

CheckCanScaleNow(current, last) ==
  LET kind  == CheckScaleKind(last)
      steps == RolloutSteps(config.strategy, MView.replicas)
  IN  CASE kind \in {"hpa", "force"} -> TRUE
        [] kind = "rollout" ->
             CheckDeploymentsStable(current, last,
                                    steps.surge = 0 /\ steps.unavailable > 0)
        [] OTHER ->
             (steps.surge = 0 /\ DView[current].replicas < MView.replicas)
               => DeploymentIsStable(last)

Planned(i) ==
  [replicas |-> DView[i].replicas, available |-> DView[i].available,
   ready |-> DView[i].available, limits |-> config.limits[DView[i].template]]

PlanNextScaleAction(current, last) ==
  LET kind == CheckScaleKind(last)
      c == Planned(current)
      l == Planned(last)
  IN  CASE kind = "hpa"      -> PlanScaleForHPA(HpaMin, c, l)
        [] kind = "external" -> PlanScaleForExternalHPA(MView.rolling, c, l)
        [] kind = "rollout"  -> PlanScaleForRollout(MView.replicas, config.strategy, c, l)
        [] kind = "force"    -> PlanScaleForForceUpgrade(MView.replicas, c, l)
        [] OTHER             -> PlanScaleForNormalState(MView.replicas, c)

\* HandleRolling leaves the reconcile to HandleScaling.
NothingToRoll ==
  /\ ~ShouldRollback
  /\ IF MView.rolling THEN ~DeploymentShowsRolloutFinished
     ELSE ~IsPodTemplateChanged(Current)

ScaleDeployments ==
  /\ Rolling
  /\ NothingToRoll
  /\ CheckCanScaleNow(Current, Last(Current))
  /\ LET action == PlanNextScaleAction(Current, Last(Current))
         i == IF action.deploy = "current" THEN Current ELSE Last(Current)
     IN  /\ action.replicaChange # 0
         /\ UpdateDeploy(i, DView[i].template, DView[i].replicas + action.replicaChange)
  /\ UNCHANGED <<config, milvus, hpa, views, prep, history>>

-----------------------------------------------------------------------------
(* ReconcileHPAs runs beside the deploy controller, on the same view.        *)

\* The target of the HPA: none during a rollout, else the current Deployment.
ReconcileTwoDeployHPA(m) ==
  CASE m.rolling          -> NoSlot
    [] m.current = NoSlot -> 0
    [] OTHER              -> m.current

ReconcileHPAs ==
  /\ config.mode = "hpa"
  /\ hpa' = ReconcileTwoDeployHPA(MView) /\ hpa' # hpa
  /\ UNCHANGED <<config, milvus, deploy, pods, views, prep, history>>

\* The autoscaler, managed or external: it never scales from zero.
AutoScale(i, n) ==
  /\ scales < config.maxScales
  /\ IF config.mode = "hpa" THEN hpa = i ELSE config.mode = "external"
  /\ deploy[i].replicas > 0 /\ deploy[i].replicas # n
  /\ deploy' = [deploy EXCEPT ![i] = Written(@, @.template, n)]
  /\ scales' = scales + 1
  /\ UNCHANGED <<config, milvus, pods, hpa, views, prep, edits, failures, faults, floor, ceiling>>

-----------------------------------------------------------------------------
(* Users.                                                                   *)

Edit(t, r) ==
  /\ edits < config.maxEdits
  /\ milvus.template # t \/ milvus.replicas # r
  /\ milvus' = [milvus EXCEPT !.template = t, !.replicas = r]
  /\ edits' = edits + 1
  /\ floor' = Min2(floor, r) /\ ceiling' = Max2(ceiling, r)
  /\ UNCHANGED <<config, deploy, pods, hpa, views, prep, scales, failures, faults>>

-----------------------------------------------------------------------------
(* The cluster (outside the repository): the Deployment and ReplicaSet       *)
(* controllers and the kubelets.                                            *)

\* Pods of an old template are replaced, pods that are not ready go first.
ScaledPods(p, n) ==
  LET s == Min2(p.starting, Max2(0, n - p.ready))
      r == Min2(p.ready, n)
  IN  [old |-> 0, starting |-> Max2(0, n - r), ready |-> r,
       dying |-> p.dying + p.old + (p.starting - s) + (p.ready - r)]

ScalePods(i) ==
  /\ deploy[i].exists /\ deploy[i].observed
  /\ pods[i].old > 0 \/ Live(pods[i]) # deploy[i].replicas
  /\ pods' = [pods EXCEPT ![i] = ScaledPods(@, deploy[i].replicas)]
  /\ UNCHANGED <<config, milvus, deploy, hpa, views, prep, history>>

SyncStatus(i) ==
  /\ deploy[i].exists
  /\ deploy' = [deploy EXCEPT ![i] =
                  [@ EXCEPT !.observed = TRUE, !.total = Live(pods[i]),
                            !.updated = pods[i].starting + pods[i].ready,
                            !.available = pods[i].old + pods[i].ready]]
  /\ deploy' # deploy
  /\ UNCHANGED <<config, milvus, pods, hpa, views, prep, history>>

PodReady(i) ==
  /\ pods[i].starting > 0
  /\ pods' = [pods EXCEPT ![i].starting = @ - 1, ![i].ready = @ + 1]
  /\ UNCHANGED <<config, milvus, deploy, hpa, views, prep, history>>

PodGone(i) ==
  /\ pods[i].dying > 0
  /\ pods' = [pods EXCEPT ![i].dying = @ - 1]
  /\ UNCHANGED <<config, milvus, deploy, hpa, views, prep, history>>

PodUnready(i) ==
  /\ failures < config.maxFailures
  /\ pods[i].ready > 0
  /\ pods' = [pods EXCEPT ![i].starting = @ + 1, ![i].ready = @ - 1]
  /\ failures' = failures + 1
  /\ UNCHANGED <<config, milvus, deploy, hpa, views, prep, edits, scales, faults, floor, ceiling>>

\* The watches bring the caches up to date, each in its own time.
SyncMilvus ==
  /\ "milvus" \in config.lagging /\ mseen # milvus /\ mseen' = milvus
  /\ UNCHANGED <<objects, dseen, pseen, prep, history>>

SyncDeploys ==
  /\ "deploy" \in config.lagging /\ dseen # deploy /\ dseen' = deploy
  /\ UNCHANGED <<objects, mseen, pseen, prep, history>>

SyncPods ==
  /\ "pods" \in config.lagging /\ pseen # pods /\ pseen' = pods
  /\ UNCHANGED <<objects, mseen, dseen, prep, history>>

-----------------------------------------------------------------------------
Next ==
  \/ MarkFirstGroup \/ HandleCreate \/ HandleStop \/ FinishRollout
  \/ PrepareNewRollout \/ SetRolling \/ ScaleDeployments \/ ReconcileHPAs
  \/ Crash
  \/ \E t \in Templates, r \in config.replicas : Edit(t, r)
  \/ \E i \in Slots :
       \/ ScalePods(i) \/ SyncStatus(i) \/ PodReady(i) \/ PodGone(i) \/ PodUnready(i)
       \/ \E n \in HpaMin..HpaMax : AutoScale(i, n)
  \/ SyncMilvus \/ SyncDeploys \/ SyncPods

Spec == Init /\ [][Next]_vars

\* Reconciles are requeued until nothing is left to do, the cluster does its
\* work (one of them goes on as long as one can), and the watches deliver; users,
\* autoscalers and faults owe nothing.
FairSpec ==
  /\ Spec
  /\ WF_vars(\/ \E i \in Slots : PodReady(i) \/ PodGone(i) \/ ScalePods(i) \/ SyncStatus(i)
             \/ MarkFirstGroup \/ HandleCreate \/ SetRolling \/ ReconcileHPAs
             \/ HandleStop \/ FinishRollout \/ PrepareNewRollout \/ ScaleDeployments)
  /\ WF_vars(SyncMilvus \/ SyncDeploys \/ SyncPods)

-----------------------------------------------------------------------------
(* Properties.                                                              *)

\* Outside a rollout only the current Deployment has replicas: a new rollout
\* finds the other one at zero, as the comment in HandleRolling promises
\* (deploy_ctrl.go:336), whatever edits, autoscalers and crashes came before.
LastIdle ==
  (milvus.current \in Slots /\ ~milvus.rolling)
    => deploy[Last(milvus.current)].replicas = 0

\* The template of a Deployment that has replicas never changes: pods are
\* replaced by moving replicas between the slots, never in place.
TemplateFixedWhileUsed ==
  [][\A i \in Slots :
       deploy'[i].template # deploy[i].template => deploy[i].replicas = 0]_vars

\* When LastRolloutFinished clears the rolling id of a component that is not
\* being stopped, no pod of the other slot or of an earlier template is left,
\* not even a terminating one.
FinishedMeansReplaced ==
  [][(milvus.rolling /\ ~milvus'.rolling /\ milvus.replicas # 0)
       => /\ AllPods(pods[Last(milvus.current)]) = 0
          /\ pods[milvus.current].old = 0]_vars

\* What the operator may take away: the replicas asked for less maxUnavailable;
\* with an autoscaler its minimum (one for an external autoscaler).
Guaranteed ==
  CASE config.mode = "static"   -> floor - RolloutSteps(config.strategy, floor).unavailable
    [] config.mode = "hpa"      -> HpaMin
    [] config.mode = "external" -> IF floor = 0 THEN 0 ELSE 1
    [] OTHER                  -> 0

\* Moving replicas between the Deployments never takes the serving pods below
\* the guaranteed number, pods that failed on their own aside.
Available ==
  [][(config.mode = "static" /\ Serving' < Serving /\ failures' = failures)
       => Serving' + failures >= Guaranteed]_vars

\* The same with an autoscaler: planScaleForHPA does not keep to it.
AvailableAutoscaled ==
  [][(config.mode # "static" /\ Serving' < Serving /\ failures' = failures)
       => Serving' + failures >= Guaranteed]_vars

\* The pods that rollouts may have beside the replicas asked for: none without
\* surge; else the surge, or what a step gives up where that is more, since those
\* pods may still run when the other Deployment is filled up.  New limits may
\* double the pods, and so may a component that is stopped and started again in
\* the middle of a rollout.
Excess ==
  LET steps == RolloutSteps(config.strategy, ceiling)
  IN  IF steps.surge = 0 THEN 0
      ELSE IF floor # 0 /\ \A t, u \in Templates : config.limits[t] = config.limits[u]
      THEN Max2(steps.surge, steps.unavailable)
      ELSE ceiling

\* Rollouts respect maxSurge: the pods of both slots never exceed the replicas
\* asked for by more than the surge allows.  Where it allows none, a Deployment
\* grows only into what the other one has released, the pods of the other one
\* that are still terminating included.
SurgeRespected ==
  [][config.mode = "static" =>
       /\ (Live(pods[0]) + Live(pods[1]) <= ceiling + Excess)'
       /\ RolloutSteps(config.strategy, ceiling).surge = 0 =>
            \A i \in Slots :
              deploy'[i].replicas > deploy[i].replicas =>
                deploy'[i].replicas + AllPods(pods[Last(i)]) <= ceiling]_vars

\* The component is what its spec asks for, and nobody has to do anything.
Settled ==
  /\ TwoDeploys /\ prep = {} /\ ~milvus.rolling
  /\ deploy[Last(milvus.current)].replicas = 0
  /\ IF milvus.replicas = 0 /\ config.mode # "hpa"
     THEN deploy[milvus.current].replicas = 0
     ELSE /\ deploy[milvus.current].template = milvus.template
          /\ Serving = deploy[milvus.current].replicas
          /\ CASE config.mode = "hpa" ->
                    hpa = milvus.current /\ deploy[milvus.current].replicas >= HpaMin
               [] config.mode = "external" -> deploy[milvus.current].replicas > 0
               [] OTHER -> deploy[milvus.current].replicas = milvus.replicas

\* Once users stop editing, every rollout, rollback, stop and scaling ends,
\* and a managed HPA is back on the current Deployment.
Settles == <>[]Settled
=============================================================================
