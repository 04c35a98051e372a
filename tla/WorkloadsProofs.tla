-------------------------- MODULE WorkloadsProofs ---------------------------
(***************************************************************************)
(* For any instances, groups and bounds: querynodes have never a           *)
(* StatefulSet and Deployments at the same time; a component that serves   *)
(* keeps serving while groups come and go, or has what replaces it         *)
(* scheduled; and the Service keeps an endpoint while the mode changes.    *)
(***************************************************************************)
EXTENDS Workloads, TLAPS

\* Zenon proves what follows; the steps that need arithmetic cite SMT.
USE Zenon

\* The status of a Deployment is brought up to date.
Reports(k) == BecomeReady(k) \/ Observe(k)

QueryNodes == {k \in Keys : ComponentOf(k) = "querynode"}

\* The reconcile is past the removal of what the other kind has left.
Cleaned == {"loop", "groups", "tostandalone"}

\* The workloads still to be reconciled are those the spec asks for.
TodoAsked == At("loop") => rec.todo \subseteq GetComponentWorkloadsBySpec(rec.spec)

\* A reconcile towards StatefulSets: the Deployments that are left are to be
\* deleted, and none is left after that.
ToSets ==
  rec.spec.mode = "cluster" /\ rec.spec.sts =>
    /\ At("legacy") => \A k \in QueryNodes : Exists(k) => k \in rec.todo
    /\ rec.step \in Cleaned \cup {"stale", "reclaim"} => \A k \in QueryNodes : ~Exists(k)

\* A reconcile towards Deployments, likewise.
ToDeployments ==
  rec.spec.mode = "cluster" /\ ~rec.spec.sts =>
    /\ rec.step \in {"stale", "reclaim"} => \A g \in Names : sets[g] # None => g \in rec.todo
    /\ rec.step \in Cleaned => \A g \in Names : sets[g] = None

KindInv == TypeOK /\ OneKind /\ TodoAsked /\ ToSets /\ ToDeployments

-----------------------------------------------------------------------------
(* Types.                                                                   *)

\* getComponentWorkloadsBySpec returns workloads.
LEMMA WorkloadsType ==
  ASSUME NEW s \in SpecType
  PROVE  /\ GetComponentWorkloadsBySpec(s) \subseteq Workload
         /\ Standalone \in GetComponentWorkloadsBySpec(s)
  BY DEF SpecType, GetComponentWorkloadsBySpec, Workload, GroupsOf, Standalone, Names, Ungrouped

LEMMA KeysType ==
  ASSUME NEW w \in Workload
  PROVE  <<w, 0>> \in Keys /\ (ComponentUsesTwoDeployments(w) => <<w, 1>> \in Keys)
  BY DEF Keys

LEMMA WorkloadParts ==
  ASSUME NEW w \in Workload
  PROVE  /\ w = <<w[1], w[2]>> /\ w[2] \in Names
         /\ w[1] \in {"standalone", "proxy", "querynode"}
         /\ w[1] = "standalone" <=> w = Standalone
  BY SMT DEF Workload, Standalone, Names, Ungrouped

LEMMA KeyParts ==
  ASSUME NEW k \in Keys
  PROVE  /\ k[1] \in Workload /\ k[2] \in 0..1 /\ k = <<k[1], k[2]>>
         /\ k[2] = 1 => ComponentUsesTwoDeployments(k[1])
  BY SMT DEF Keys

LEMMA NewDeployType ==
  ASSUME NEW w, NEW r \in 0..1
  PROVE  /\ NewDeploy(w, r) \in DeployType /\ NewDeploy(w, r) # None
         /\ NewDeploy(w, r).replicas = r /\ NewDeploy(w, r).ready = FALSE
         /\ r = 1 => NewDeploy(w, r).available = FALSE /\ NewDeploy(w, r).idled = FALSE
         /\ IsService(w) => NewDeploy(w, r).tagged = TRUE
         /\ ~IsService(w) => NewDeploy(w, r).tagged = FALSE
<1> DEFINE tag == IsService(w)
           none == r = 0
<1>1. tag \in BOOLEAN /\ none \in BOOLEAN /\ (r = 1 => none = FALSE)
  BY SMT DEF IsService
<1>2. NewDeploy(w, r) = [replicas |-> r, ready |-> FALSE, available |-> none, idled |-> none, tagged |-> tag]
  BY DEF NewDeploy
<1> HIDE DEF tag, none
<1>3. NewDeploy(w, r) \in DeployType
  <2>1. FALSE \in BOOLEAN
    OBVIOUS
  <2>2. [replicas |-> r, ready |-> FALSE, available |-> none, idled |-> none, tagged |-> tag] \in DeployType
    BY <1>1, <2>1 DEF DeployType
  <2>3. QED
    BY <1>2, <2>2
<1>4. /\ NewDeploy(w, r).replicas = r /\ NewDeploy(w, r).ready = FALSE
      /\ NewDeploy(w, r).available = none /\ NewDeploy(w, r).idled = none /\ NewDeploy(w, r).tagged = tag
  BY SMT, <1>2
<1>5. QED
  BY <1>1, <1>3, <1>4, NoneAssumption DEF tag

\* A Deployment that is scaled down counts as available, one that is scaled up
\* as available as it was.
LEMMA ScaledType ==
  ASSUME NEW d \in DeployType, NEW r \in 0..1
  PROVE  /\ Scaled(d, r) \in DeployType
         /\ Scaled(d, r).replicas = r /\ Scaled(d, r).ready = FALSE /\ Scaled(d, r).tagged = d.tagged
         /\ Scaled(d, r).available = (d.available \/ r = 0) /\ Scaled(d, r).idled = (d.idled \/ r = 0)
<1> DEFINE available == d.available \/ r = 0
           idled == d.idled \/ r = 0
<1>1. available \in BOOLEAN /\ idled \in BOOLEAN
  OBVIOUS
<1>2. Scaled(d, r) = [d EXCEPT !.replicas = r, !.ready = FALSE, !.available = available, !.idled = idled]
  BY DEF Scaled
<1> HIDE DEF available, idled
<1>3. Scaled(d, r) \in DeployType
  BY <1>1, <1>2 DEF DeployType
<1>4. /\ Scaled(d, r).replicas = r /\ Scaled(d, r).ready = FALSE /\ Scaled(d, r).tagged = d.tagged
      /\ Scaled(d, r).available = available /\ Scaled(d, r).idled = idled
  BY <1>2 DEF DeployType
<1>5. QED
  BY <1>3, <1>4 DEF available, idled

\* What is reported of a Deployment.
LEMMA ReportType ==
  ASSUME NEW d \in DeployType
  PROVE  LET up == [d EXCEPT !.ready = TRUE, !.available = TRUE]
             seen == [d EXCEPT !.available = FALSE]
         IN  /\ up \in DeployType /\ up.ready = TRUE
             /\ up.replicas = d.replicas /\ up.idled = d.idled /\ up.tagged = d.tagged
             /\ seen \in DeployType /\ seen.available = FALSE /\ seen.ready = d.ready
             /\ seen.replicas = d.replicas /\ seen.idled = d.idled /\ seen.tagged = d.tagged
  BY DEF DeployType

\* Each way of writing a Deployment leaves a Deployment.
LEMMA WriteDeployType ==
  ASSUME deploy \in [Keys -> DeployType \cup {None}], NEW k \in Keys, NEW r \in 0..1, NEW w
  PROVE  /\ [deploy EXCEPT ![k] = None] \in [Keys -> DeployType \cup {None}]
         /\ [deploy EXCEPT ![k] = NewDeploy(w, r)] \in [Keys -> DeployType \cup {None}]
         /\ deploy[k] # None =>
              /\ [deploy EXCEPT ![k].replicas = r] \in [Keys -> DeployType \cup {None}]
              /\ [deploy EXCEPT ![k] = Scaled(@, r)] \in [Keys -> DeployType \cup {None}]
<1>1. NewDeploy(w, r) \in DeployType
  BY NewDeployType
<1>2. [deploy EXCEPT ![k] = None] \in [Keys -> DeployType \cup {None}]
  OBVIOUS
<1>3. [deploy EXCEPT ![k] = NewDeploy(w, r)] \in [Keys -> DeployType \cup {None}]
  BY <1>1
<1>4. ASSUME deploy[k] # None
      PROVE  [deploy EXCEPT ![k].replicas = r] \in [Keys -> DeployType \cup {None}]
  BY <1>4 DEF DeployType
<1>5. ASSUME deploy[k] # None
      PROVE  [deploy EXCEPT ![k] = Scaled(@, r)] \in [Keys -> DeployType \cup {None}]
  <2>1. deploy[k] \in DeployType
    BY <1>5
  <2>2. Scaled(deploy[k], r) \in DeployType
    BY <2>1, ScaledType
  <2>3. QED
    BY <2>2
<1>6. QED
  BY <1>2, <1>3, <1>4, <1>5

LEMMA TypeInit == Init => TypeOK
<1> SUFFICES ASSUME Init PROVE TypeOK
  OBVIOUS
<1> USE ConfigsAssumption, WorkloadsAssumption DEF Init
<1>1. spec \in SpecType /\ config \in Configs
  OBVIOUS
<1>2. slot \in [Workload -> {"unset", "0", "1"}] /\ labelled \in BOOLEAN /\ due \in BOOLEAN
  OBVIOUS
<1>3. RecType
  BY <1>1, <1>2 DEF RecType, NoRec, Steps, Names
<1>4. deploy \in [Keys -> DeployType \cup {None}]
  BY SMT, <1>1, KeyParts DEF SpecType, DeployType, NewDeploy, IsService, Replicas
<1>5. sets \in [Names -> SetType \cup {None}] /\ headless \subseteq Names
  BY <1>1 DEF SpecType, SetType, NewSet
<1>6. claims \in [Names -> [Ordinals -> 0..MaxSize]]
  BY SMT, <1>1 DEF SpecType
<1>7. service \in {"proxy", "standalone", "label"}
  OBVIOUS
<1>8. edits \in 0..config.maxEdits /\ faults \in 0..config.maxFaults
  BY SMT, <1>1
<1>9. QED
  BY <1>1, <1>2, <1>3, <1>4, <1>5, <1>6, <1>7, <1>8 DEF TypeOK, ObjectType

LEMMA EnterType ==
  ASSUME RecType, NEW step \in Steps, NEW todo, Enter(step, todo),
         step = "loop" => todo \subseteq Workload,
         step \in {"stale", "reclaim"} => todo \subseteq Names,
         step \in {"idle", "legacy", "groups", "tostandalone"} => todo \subseteq Keys
  PROVE  /\ RecType' /\ rec'.step = step /\ rec'.todo = todo
         /\ rec'.spec = rec.spec /\ rec'.slot = rec.slot /\ rec'.labelled = rec.labelled
         /\ rec'.failed = rec.failed /\ rec'.service = rec.service /\ rec'.outdated = rec.outdated
  BY DEF RecType, Enter, Steps

\* The loop takes one of the workloads and reconciles it as its kind asks.
LEMMA LoopCases ==
  ASSUME RecType, ReconcileWorkload
  PROVE  \E w \in rec.todo :
           /\ w \in Workload
           /\ \/ w = Standalone /\ IsIdleClusterStandalone(rec.spec, w) /\ ScaleDownIdleStandalone(w)
              \/ w[1] = "querynode" /\ rec.spec.sts /\ ReconcileComponentStatefulSet(w)
              \/ w[1] = "querynode" /\ ~rec.spec.sts /\ ReconcileTwoDeployments(w)
              \/ w[1] # "querynode" /\ ~IsIdleClusterStandalone(rec.spec, w) /\ ReconcileComponentDeployment(w)
<1> DEFINE w == First(rec.todo)
<1>1. w \in rec.todo
  BY DEF First, ReconcileWorkload
<1>2. w \in Workload
  BY <1>1 DEF RecType, ReconcileWorkload, At
<1>3. Standalone[1] # "querynode"
  BY DEF Standalone
<1> HIDE DEF w
<1>4. CASE IsIdleClusterStandalone(rec.spec, w)
  <2>1. ~ComponentUsesStatefulSet(rec.spec, w)
    BY <1>4, <1>3 DEF IsIdleClusterStandalone, ComponentUsesStatefulSet
  <2>2. ScaleDownIdleStandalone(w)
    BY <1>4, <2>1, <1>3 DEF ReconcileWorkload, w, IsIdleClusterStandalone, ComponentUsesTwoDeployments
  <2>3. QED
    BY <1>1, <1>2, <1>4, <2>2 DEF IsIdleClusterStandalone
<1>5. CASE ~IsIdleClusterStandalone(rec.spec, w) /\ ComponentUsesStatefulSet(rec.spec, w)
  <2>1. ReconcileComponentStatefulSet(w)
    BY <1>5 DEF ReconcileWorkload, w
  <2>2. QED
    BY <1>1, <1>2, <1>5, <2>1 DEF ComponentUsesStatefulSet
<1>6. CASE ~IsIdleClusterStandalone(rec.spec, w) /\ ~ComponentUsesStatefulSet(rec.spec, w) /\ ComponentUsesTwoDeployments(w)
  <2>1. ReconcileTwoDeployments(w)
    BY <1>6 DEF ReconcileWorkload, w
  <2>2. QED
    BY <1>1, <1>2, <1>6, <2>1 DEF ComponentUsesStatefulSet, ComponentUsesTwoDeployments
<1>7. CASE ~IsIdleClusterStandalone(rec.spec, w) /\ ~ComponentUsesStatefulSet(rec.spec, w) /\ ~ComponentUsesTwoDeployments(w)
  <2>1. ReconcileComponentDeployment(w)
    BY <1>7 DEF ReconcileWorkload, w
  <2>2. QED
    BY <1>1, <1>2, <1>7, <2>1 DEF ComponentUsesTwoDeployments
<1>8. QED
  BY <1>4, <1>5, <1>6, <1>7

\* Whichever it is, the copy of the Milvus stays, and an error is remembered.
LEMMA LoopRec ==
  ASSUME RecType, ReconcileWorkload
  PROVE  /\ RecType' /\ At("loop") /\ At("loop")'
         /\ rec'.spec = rec.spec /\ rec'.slot = rec.slot
         /\ rec'.labelled = rec.labelled /\ rec'.service = rec.service
         /\ rec'.todo \subseteq rec.todo
         /\ rec.failed => rec'.failed
<1>1. PICK w \in rec.todo :
        \/ rec' = rec
        \/ rec' = [rec EXCEPT !.todo = @ \ {w}]
        \/ rec' = [rec EXCEPT !.todo = @ \ {w}, !.failed = TRUE]
        \/ rec' = [rec EXCEPT !.todo = @ \ {w}, !.failed = TRUE, !.outdated = TRUE]
  <2>1. PICK w \in rec.todo :
          \/ ScaleDownIdleStandalone(w) \/ ReconcileComponentStatefulSet(w)
          \/ ReconcileTwoDeployments(w) \/ ReconcileComponentDeployment(w)
    BY LoopCases
  <2>2. CASE ScaleDownIdleStandalone(w)
    BY <2>2 DEF ScaleDownIdleStandalone, Finished
  <2>3. CASE ReconcileComponentStatefulSet(w)
    BY <2>3 DEF ReconcileComponentStatefulSet, Finished
  <2>4. CASE ReconcileTwoDeployments(w)
    BY <2>4 DEF ReconcileTwoDeployments, Finished, Failed, WriteMilvus
  <2>5. CASE ReconcileComponentDeployment(w)
    BY <2>5 DEF ReconcileComponentDeployment, Finished, Failed, WriteMilvus
  <2>6. QED
    BY <2>1, <2>2, <2>3, <2>4, <2>5
<1>2. At("loop")
  BY DEF ReconcileWorkload
<1>3. CASE rec' = rec
  BY <1>2, <1>3 DEF At, RecType
<1>4. CASE rec' = [rec EXCEPT !.todo = @ \ {w}]
  BY <1>2, <1>4 DEF At, RecType
<1>5. CASE rec' = [rec EXCEPT !.todo = @ \ {w}, !.failed = TRUE]
  BY <1>2, <1>5 DEF At, RecType
<1>6. CASE rec' = [rec EXCEPT !.todo = @ \ {w}, !.failed = TRUE, !.outdated = TRUE]
  BY <1>2, <1>6 DEF At, RecType
<1>7. QED
  BY <1>1, <1>3, <1>4, <1>5, <1>6

LEMMA ScaleDownType ==
  ASSUME TypeOK, ScaleDownIdleStandalone(Standalone)
  PROVE  deploy' \in [Keys -> DeployType \cup {None}]
<1>1. <<Standalone, 0>> \in Keys
  BY KeysType DEF Workload
<1>2. deploy \in [Keys -> DeployType \cup {None}] /\ 0 \in 0..1
  BY SMT DEF TypeOK, ObjectType
<1> DEFINE k == <<Standalone, 0>>
           down == [deploy EXCEPT ![k] = Scaled(@, 0)]
<1>3. deploy' = deploy \/ (deploy[k] # None /\ deploy' = down)
  BY DEF ScaleDownIdleStandalone
<1>4. deploy[k] # None => down \in [Keys -> DeployType \cup {None}]
  <2> HIDE DEF k
  <2>1. k \in Keys
    BY <1>1 DEF k
  <2>2. QED
    BY <1>2, <2>1, WriteDeployType
<1>5. QED
  BY <1>2, <1>3, <1>4

LEMMA ReconcileDeploymentType ==
  ASSUME TypeOK, NEW w \in Workload, ReconcileComponentDeployment(w)
  PROVE  /\ deploy' \in [Keys -> DeployType \cup {None}]
         /\ labelled' \in BOOLEAN /\ spec' = spec /\ slot' = slot
<1> DEFINE k == <<w, 0>>
<1>1. k \in Keys
  BY KeysType
<1>2. Replicas(rec.spec, w) \in 0..1
  BY SMT DEF Replicas, TypeOK, RecType, SpecType
<1>3. LabelServicePods \in [Keys -> DeployType \cup {None}]
  BY DEF LabelServicePods, TypeOK, ObjectType, Exists, DeployType
<1>4. deploy \in [Keys -> DeployType \cup {None}]
  BY DEF TypeOK, ObjectType
<1> HIDE DEF k
<1>5. /\ [deploy EXCEPT ![k] = NewDeploy(w, Replicas(rec.spec, w))] \in [Keys -> DeployType \cup {None}]
      /\ deploy[k] # None => [deploy EXCEPT ![k] = Scaled(@, Replicas(rec.spec, w))]
                               \in [Keys -> DeployType \cup {None}]
  BY <1>1, <1>2, <1>4, WriteDeployType
<1>6. \/ deploy' = [deploy EXCEPT ![k] = NewDeploy(w, Replicas(rec.spec, w))]
      \/ deploy' = LabelServicePods
      \/ deploy' = deploy
      \/ Exists(k) /\ deploy' = [deploy EXCEPT ![k] = Scaled(@, Replicas(rec.spec, w))]
  BY DEF ReconcileComponentDeployment, k
<1>7. deploy' \in [Keys -> DeployType \cup {None}]
  BY <1>3, <1>4, <1>5, <1>6 DEF Exists
<1>8. labelled' \in {labelled, TRUE} /\ spec' = spec /\ slot' = slot
  BY DEF ReconcileComponentDeployment, WriteMilvus, crd
<1>9. QED
  BY <1>7, <1>8 DEF TypeOK

LEMMA TwoDeploymentsType ==
  ASSUME TypeOK, NEW w \in Workload, w[1] = "querynode", ReconcileTwoDeployments(w)
  PROVE  /\ deploy' \in [Keys -> DeployType \cup {None}]
         /\ slot' \in [Workload -> {"unset", "0", "1"}] /\ spec' = spec /\ labelled' = labelled
<1> DEFINE cur == <<w, IF rec.slot[w] = "1" THEN 1 ELSE 0>>
<1>1. <<w, 0>> \in Keys /\ <<w, 1>> \in Keys /\ cur \in Keys
  BY KeysType DEF ComponentUsesTwoDeployments
<1>2. deploy \in [Keys -> DeployType \cup {None}]
  BY DEF TypeOK, ObjectType
<1>3. 0 \in 0..1 /\ 1 \in 0..1
  BY SMT
<1>4. /\ [deploy EXCEPT ![<<w, 0>>] = NewDeploy(w, 0)] \in [Keys -> DeployType \cup {None}]
      /\ [deploy EXCEPT ![<<w, 1>>] = NewDeploy(w, 0)] \in [Keys -> DeployType \cup {None}]
  BY <1>1, <1>2, <1>3, WriteDeployType
<1>5. deploy[cur] # None => [deploy EXCEPT ![cur].replicas = 1] \in [Keys -> DeployType \cup {None}]
  <2> HIDE DEF cur
  <2>1. QED
    BY <1>1, <1>2, <1>3, WriteDeployType
<1>6. Slots(w) = {"0", "1"} => deploy[cur] # None
  BY DEF Slots, Exists
<1>7. \/ deploy' = deploy
      \/ deploy' = [deploy EXCEPT ![<<w, 0>>] = NewDeploy(w, 0)]
      \/ deploy' = [deploy EXCEPT ![<<w, 1>>] = NewDeploy(w, 0)]
      \/ Slots(w) = {"0", "1"} /\ deploy' = [deploy EXCEPT ![cur].replicas = 1]
  BY DEF ReconcileTwoDeployments
<1>8. deploy' \in [Keys -> DeployType \cup {None}]
  BY <1>2, <1>4, <1>5, <1>6, <1>7
<1>9. /\ spec' = spec /\ labelled' = labelled
      /\ slot' = slot \/ slot' = [slot EXCEPT ![w] = "0"]
  BY DEF ReconcileTwoDeployments, WriteMilvus, crd
<1>10. slot' \in [Workload -> {"unset", "0", "1"}]
  BY <1>9 DEF TypeOK
<1>11. QED
  BY <1>8, <1>9, <1>10

LEMMA StatefulSetType ==
  ASSUME TypeOK, NEW w \in Workload, ReconcileComponentStatefulSet(w)
  PROVE  /\ sets' \in [Names -> SetType \cup {None}]
         /\ claims' \in [Names -> [Ordinals -> 0..MaxSize]]
         /\ headless' \subseteq Names
<1> DEFINE g == w[2]
<1>1. g \in Names
  BY WorkloadParts
<1>2. rec.spec.replicas \in 0..MaxReplicas /\ rec.spec.size \in 1..MaxSize
  BY DEF TypeOK, RecType, SpecType
<1>3. NewSet(rec.spec) \in SetType
  BY <1>2 DEF NewSet, SetType
<1>4. \/ sets' = sets
      \/ sets' = [sets EXCEPT ![g] = NewSet(rec.spec)]
      \/ sets[g] # None /\ sets' = [sets EXCEPT ![g].replicas = rec.spec.replicas]
  BY DEF ReconcileComponentStatefulSet
<1>5. \/ claims' = claims
      \/ \E i \in Ordinals, n \in {0, rec.spec.size} : claims' = [claims EXCEPT ![g][i] = n]
  BY DEF ReconcileComponentStatefulSet, ScaledDownPVCs, PVCsToExpand
<1>6. headless' = headless \/ headless' = headless \cup {g}
  BY DEF ReconcileComponentStatefulSet
<1> HIDE DEF g
<1>7. sets' \in [Names -> SetType \cup {None}]
  <2>1. sets \in [Names -> SetType \cup {None}]
    BY DEF TypeOK, ObjectType
  <2>2. CASE sets[g] # None /\ sets' = [sets EXCEPT ![g].replicas = rec.spec.replicas]
    <3>1. sets[g] \in SetType
      BY <1>1, <2>1, <2>2
    <3>2. [sets[g] EXCEPT !.replicas = rec.spec.replicas] \in SetType
      BY <1>2, <3>1 DEF SetType
    <3>3. QED
      BY <1>1, <2>1, <2>2, <3>2
  <2>3. QED
    BY <1>1, <1>3, <1>4, <2>1, <2>2
<1>8. claims' \in [Names -> [Ordinals -> 0..MaxSize]]
  <2>1. claims \in [Names -> [Ordinals -> 0..MaxSize]]
    BY DEF TypeOK, ObjectType
  <2>2. {0, rec.spec.size} \subseteq 0..MaxSize
    BY SMT, <1>2, WorkloadsAssumption
  <2>3. QED
    BY SMT, <1>1, <1>5, <2>1, <2>2
<1>9. QED
  BY <1>1, <1>6, <1>7, <1>8 DEF TypeOK, ObjectType

LEMMA LoopType ==
  ASSUME TypeOK, ReconcileWorkload
  PROVE  TypeOK'
<1>1. RecType'
  BY LoopRec DEF TypeOK
<1>2. config' = config /\ service' = service /\ edits' = edits /\ faults' = faults /\ due' \in BOOLEAN
  BY DEF ReconcileWorkload, TypeOK
<1>3. PICK w \in rec.todo :
        /\ w \in Workload
        /\ \/ w = Standalone /\ IsIdleClusterStandalone(rec.spec, w) /\ ScaleDownIdleStandalone(w)
           \/ w[1] = "querynode" /\ rec.spec.sts /\ ReconcileComponentStatefulSet(w)
           \/ w[1] = "querynode" /\ ~rec.spec.sts /\ ReconcileTwoDeployments(w)
           \/ w[1] # "querynode" /\ ~IsIdleClusterStandalone(rec.spec, w) /\ ReconcileComponentDeployment(w)
  BY LoopCases DEF TypeOK
<1>4. CASE w = Standalone /\ ScaleDownIdleStandalone(w)
  <2>1. deploy' \in [Keys -> DeployType \cup {None}]
    BY <1>4, ScaleDownType
  <2>2. UNCHANGED <<spec, slot, labelled, sets, claims, headless>>
    BY <1>4 DEF ScaleDownIdleStandalone, crd
  <2>3. QED
    BY <1>1, <1>2, <2>1, <2>2 DEF TypeOK, ObjectType
<1>5. CASE ReconcileComponentStatefulSet(w)
  <2>1. UNCHANGED <<spec, slot, labelled, deploy>>
    BY <1>5 DEF ReconcileComponentStatefulSet, crd
  <2>2. QED
    BY <1>1, <1>2, <1>3, <1>5, <2>1, StatefulSetType DEF TypeOK, ObjectType
<1>6. CASE w[1] = "querynode" /\ ReconcileTwoDeployments(w)
  <2>1. UNCHANGED <<sets, claims, headless>>
    BY <1>6 DEF ReconcileTwoDeployments
  <2>2. QED
    BY <1>1, <1>2, <1>3, <1>6, <2>1, TwoDeploymentsType DEF TypeOK, ObjectType
<1>7. CASE ReconcileComponentDeployment(w)
  <2>1. UNCHANGED <<sets, claims, headless>>
    BY <1>7 DEF ReconcileComponentDeployment
  <2>2. QED
    BY <1>1, <1>2, <1>3, <1>7, <2>1, ReconcileDeploymentType DEF TypeOK, ObjectType
<1>8. QED
  BY <1>3, <1>4, <1>5, <1>6, <1>7

\* Deployments are only deleted in the steps that remove what is left over.
Removes(step) ==
  \E k \in rec.todo : Delete(k) /\ Enter(step, rec.todo \ {k})

LEMMA RemovesType ==
  ASSUME TypeOK, NEW step \in {"legacy", "groups", "tostandalone"}, At(step), Removes(step)
  PROVE  deploy' \in [Keys -> DeployType \cup {None}] /\ RecType'
<1>1. PICK k \in rec.todo : Delete(k) /\ Enter(step, rec.todo \ {k})
  BY DEF Removes
<1>2. rec.todo \subseteq Keys /\ step \in Steps
  BY DEF TypeOK, RecType, At, Steps
<1>3. RecType'
  BY <1>1, <1>2, EnterType DEF TypeOK
<1>4. QED
  BY <1>1, <1>2, <1>3 DEF TypeOK, ObjectType, Delete

LEMMA CleanupType ==
  ASSUME TypeOK,
         \/ DeleteLegacyComponentDeployments \/ CleanupStaleDeploymentGroups
         \/ CleanupDeploymentClusterToStandalone
  PROVE  TypeOK'
<1>1. UNCHANGED <<config, spec, slot, labelled, due, sets, claims, headless, service, edits, faults>>
  BY DEF DeleteLegacyComponentDeployments, CleanupStaleDeploymentGroups, CleanupDeploymentClusterToStandalone, crd
<1>2. deploy' \in [Keys -> DeployType \cup {None}] /\ RecType'
  <2>1. CASE DeleteLegacyComponentDeployments
    <3>1. CASE rec.todo = {}
      <4>1. Enter("stale", StaleStatefulSets(rec.spec)) /\ deploy' = deploy
        BY <2>1, <3>1 DEF DeleteLegacyComponentDeployments
      <4>2. StaleStatefulSets(rec.spec) \subseteq Names
        BY DEF StaleStatefulSets
      <4>3. RecType'
        BY <4>1, <4>2, EnterType DEF TypeOK, Steps
      <4>4. QED
        BY <4>1, <4>3 DEF TypeOK, ObjectType
    <3>2. CASE rec.todo # {}
      BY <2>1, <3>2, RemovesType DEF DeleteLegacyComponentDeployments, Removes
    <3>3. QED
      BY <3>1, <3>2
  <2>2. CASE CleanupStaleDeploymentGroups
    <3>1. CASE rec.todo = {}
      <4>1. Enter("tostandalone", ClusterDeployments(rec.spec)) /\ deploy' = deploy
        BY <2>2, <3>1 DEF CleanupStaleDeploymentGroups
      <4>2. ClusterDeployments(rec.spec) \subseteq Keys
        BY DEF ClusterDeployments, Deployed
      <4>3. RecType'
        BY <4>1, <4>2, EnterType DEF TypeOK, Steps
      <4>4. QED
        BY <4>1, <4>3 DEF TypeOK, ObjectType
    <3>2. CASE rec.todo # {}
      BY <2>2, <3>2, RemovesType DEF CleanupStaleDeploymentGroups, Removes
    <3>3. QED
      BY <3>1, <3>2
  <2>3. CASE CleanupDeploymentClusterToStandalone
    <3>1. CASE rec.todo = {}
      <4>1. Enter("idle", {}) /\ deploy' = deploy
        BY <2>3, <3>1 DEF CleanupDeploymentClusterToStandalone
      <4>2. RecType'
        BY <4>1, EnterType DEF TypeOK, Steps
      <4>3. QED
        BY <4>1, <4>2 DEF TypeOK, ObjectType
    <3>2. CASE rec.todo # {}
      BY <2>3, <3>2, RemovesType DEF CleanupDeploymentClusterToStandalone, Removes
    <3>3. QED
      BY <3>1, <3>2
  <2>4. QED
    BY <2>1, <2>2, <2>3
<1>3. QED
  BY <1>1, <1>2 DEF TypeOK, ObjectType

LEMMA PruneType ==
  ASSUME TypeOK, CleanupStaleStatefulSets \/ DeletePVCsForStatefulSet
  PROVE  TypeOK'
<1>1. UNCHANGED <<config, spec, slot, labelled, due, deploy, service, edits, faults>>
  BY DEF CleanupStaleStatefulSets, DeletePVCsForStatefulSet, crd
<1>2. CASE CleanupStaleStatefulSets
  <2>1. UNCHANGED <<claims, headless>>
    BY <1>2 DEF CleanupStaleStatefulSets
  <2>2. CASE rec.todo = {}
    <3>1. Enter("loop", GetComponentWorkloadsBySpec(rec.spec)) /\ sets' = sets
      BY <1>2, <2>2 DEF CleanupStaleStatefulSets
    <3>2. RecType'
      BY <3>1, EnterType, WorkloadsType DEF TypeOK, RecType, Steps
    <3>3. QED
      BY <1>1, <2>1, <3>1, <3>2 DEF TypeOK, ObjectType
  <2>3. CASE rec.todo # {}
    <3>1. PICK g \in rec.todo :
            /\ sets' = [sets EXCEPT ![g] = None]
            /\ rec' = [rec EXCEPT !.step = "reclaim", !.at = g, !.todo = rec.todo \ {g}]
      BY <1>2, <2>3 DEF CleanupStaleStatefulSets
    <3>2. rec.todo \subseteq Names
      BY <1>2 DEF CleanupStaleStatefulSets, At, TypeOK, RecType
    <3>3. RecType'
      <4>1. /\ DOMAIN rec' = DOMAIN rec /\ rec'.step = "reclaim" /\ rec'.at = g
            /\ rec'.todo = rec.todo \ {g} /\ rec'.spec = rec.spec /\ rec'.slot = rec.slot
            /\ rec'.labelled = rec.labelled /\ rec'.outdated = rec.outdated
            /\ rec'.failed = rec.failed /\ rec'.service = rec.service
        BY <3>1 DEF TypeOK, RecType
      <4>2. QED
        BY <3>2, <4>1 DEF TypeOK, RecType, Steps
    <3>4. sets' \in [Names -> SetType \cup {None}]
      BY <3>1, <3>2 DEF TypeOK, ObjectType
    <3>5. QED
      BY <1>1, <2>1, <3>3, <3>4 DEF TypeOK, ObjectType
  <2>4. QED
    BY <2>2, <2>3
<1>3. CASE DeletePVCsForStatefulSet
  <2>1. sets' = sets /\ headless' \subseteq headless
    BY <1>3 DEF DeletePVCsForStatefulSet
  <2>2. rec' = rec \/ rec' = [rec EXCEPT !.step = "stale"]
    BY <1>3 DEF DeletePVCsForStatefulSet
  <2>3. RecType'
    BY SMT, <1>3, <2>2 DEF DeletePVCsForStatefulSet, At, TypeOK, RecType, Steps
  <2>4. claims' \in [Names -> [Ordinals -> 0..MaxSize]]
    <3> DEFINE g == rec.at
    <3>1. claims' = claims \/ \E i \in Ordinals : claims' = [claims EXCEPT ![g][i] = 0]
      BY <1>3 DEF DeletePVCsForStatefulSet
    <3>2. claims \in [Names -> [Ordinals -> 0..MaxSize]] /\ g \in Names /\ 0 \in 0..MaxSize
      BY SMT, WorkloadsAssumption DEF TypeOK, ObjectType, RecType
    <3> HIDE DEF g
    <3>3. QED
      BY SMTT(60), <3>1, <3>2
  <2>5. QED
    BY <1>1, <2>1, <2>3, <2>4 DEF TypeOK, ObjectType
<1>4. QED
  BY <1>2, <1>3

\* What is reported leaves the Deployments as they are, and none is available
\* after it that was not, or is not ready.
LEMMA ReportKeeps ==
  ASSUME TypeOK, NEW k \in Keys, Reports(k)
  PROVE  /\ \A j \in Keys : Exists(j) <=> Exists(j)'
         /\ \A j \in Keys : Exists(j) =>
              /\ deploy'[j].replicas = deploy[j].replicas /\ deploy'[j].tagged = deploy[j].tagged
              /\ deploy'[j].idled = deploy[j].idled
              /\ deploy[j].ready => deploy'[j].ready
              /\ deploy'[j].available => deploy[j].available \/ deploy'[j].ready
<1>1. deploy[k] # None
  BY DEF Reports, BecomeReady, Observe, Exists
<1>2. deploy[k] \in DeployType
  BY <1>1 DEF TypeOK, ObjectType
<1>3. \A j \in Keys \ {k} : deploy'[j] = deploy[j]
  BY DEF Reports, BecomeReady, Observe, TypeOK, ObjectType
<1>4. deploy'[k] \in {[deploy[k] EXCEPT !.ready = TRUE, !.available = TRUE], [deploy[k] EXCEPT !.available = FALSE]}
  BY DEF Reports, BecomeReady, Observe, TypeOK, ObjectType
<1>5. /\ deploy'[k] \in DeployType
      /\ deploy'[k].replicas = deploy[k].replicas /\ deploy'[k].tagged = deploy[k].tagged
      /\ deploy'[k].idled = deploy[k].idled
      /\ deploy[k].ready => deploy'[k].ready
      /\ deploy'[k].available => deploy'[k].ready
  BY <1>2, <1>4, ReportType
<1>6. Exists(k) /\ Exists(k)'
  BY <1>1, <1>5, NoneAssumption DEF Exists
<1>7. QED
  BY <1>3, <1>5, <1>6 DEF Exists

LEMMA OtherType ==
  ASSUME TypeOK,
         \/ StartReconcile \/ EndOfLoop \/ ReconcileServices \/ Crash
         \/ (\E s \in config.plans : Edit(s)) \/ (\E k \in Keys : Reports(k))
         \/ (\E g \in Names, i \in Ordinals : ProvisionClaim(g, i))
  PROVE  TypeOK'
<1> USE DEF crd, objects
<1>1. CASE StartReconcile
  <2>1. /\ UNCHANGED <<config, spec, slot, labelled, deploy, sets, claims, headless, service, edits, faults>>
        /\ due' \in BOOLEAN
    BY <1>1 DEF StartReconcile
  <2>2. LegacyDeployments(spec) \subseteq Keys
    BY DEF LegacyDeployments, Deployed
  <2>3. RecType'
    BY SMT, <1>1, <2>2 DEF StartReconcile, NoRec, TypeOK, RecType, Steps, Names
  <2>4. QED
    BY <2>1, <2>3 DEF TypeOK, ObjectType
<1>2. CASE EndOfLoop
  <2>1. /\ UNCHANGED <<config, spec, slot, labelled, deploy, sets, claims, headless, service, edits, faults>>
        /\ due' \in BOOLEAN
    BY <1>2 DEF EndOfLoop, Fail, TypeOK
  <2>2. CASE rec.failed
    <3>1. rec' = [rec EXCEPT !.step = "idle", !.todo = {}, !.failed = TRUE]
      BY <1>2, <2>2 DEF EndOfLoop, Fail
    <3>2. RecType'
      BY <3>1 DEF TypeOK, RecType, Steps
    <3>3. QED
      BY <2>1, <3>2 DEF TypeOK, ObjectType
  <2>3. CASE ~rec.failed
    <3>1. PICK todo \in {StaleDeployments(rec.spec), {}} : Enter("groups", todo)
      BY <1>2, <2>3 DEF EndOfLoop
    <3>2. StaleDeployments(rec.spec) \subseteq Keys
      BY DEF StaleDeployments, Deployed
    <3>3. RecType'
      BY <3>1, <3>2, EnterType DEF TypeOK, Steps
    <3>4. QED
      BY <2>1, <3>3 DEF TypeOK, ObjectType
  <2>4. QED
    BY <2>2, <2>3
<1>3. CASE ReconcileServices
  <2>1. UNCHANGED <<config, spec, slot, labelled, due, deploy, sets, claims, headless, edits, faults>>
    BY <1>3 DEF ReconcileServices
  <2>2. RecType'
    BY <1>3 DEF ReconcileServices, TypeOK, RecType
  <2>3. service' \in {"proxy", "standalone", "label"}
    BY <1>3 DEF ReconcileServices, TypeOK, ObjectType
  <2>4. QED
    BY <2>1, <2>2, <2>3 DEF TypeOK, ObjectType
<1>4. CASE Crash
  <2>1. /\ UNCHANGED <<config, spec, slot, labelled, deploy, sets, claims, headless, service, edits>>
        /\ due' \in BOOLEAN
    BY <1>4 DEF Crash
  <2>2. RecType'
    BY <1>4 DEF Crash, NoRec, TypeOK, RecType, Steps, Names
  <2>3. faults' \in 0..config.maxFaults
    BY SMT, <1>4, ConfigsAssumption DEF Crash, TypeOK
  <2>4. QED
    BY <2>1, <2>2, <2>3 DEF TypeOK, ObjectType
<1>5. ASSUME NEW s \in config.plans, Edit(s)
      PROVE  TypeOK'
  <2>1. /\ UNCHANGED <<config, slot, labelled, deploy, sets, claims, headless, service, faults>>
        /\ due' \in BOOLEAN /\ spec' = s
    BY <1>5 DEF Edit
  <2>2. s \in SpecType
    BY <1>5, ConfigsAssumption DEF TypeOK
  <2>3. RecType'
    BY <1>5 DEF Edit, TypeOK, RecType
  <2>4. edits' \in 0..config.maxEdits
    BY SMT, <1>5, ConfigsAssumption DEF Edit, TypeOK
  <2>5. QED
    BY <2>1, <2>2, <2>3, <2>4 DEF TypeOK, ObjectType
<1>6. ASSUME NEW k \in Keys, Reports(k)
      PROVE  TypeOK'
  <2>1. /\ UNCHANGED <<config, spec, slot, labelled, rec, sets, claims, headless, service, edits, faults>>
        /\ due' \in BOOLEAN
    BY <1>6 DEF Reports, BecomeReady, Observe
  <2>2. deploy' \in [Keys -> DeployType \cup {None}]
    <3>1. deploy[k] # None
      BY <1>6 DEF Reports, BecomeReady, Observe, Exists
    <3>2. deploy[k] \in DeployType
      BY <1>6, <3>1 DEF TypeOK, ObjectType
    <3>3. \E d \in DeployType : deploy' = [deploy EXCEPT ![k] = d]
      BY <1>6, <3>2, ReportType DEF Reports, BecomeReady, Observe
    <3>4. QED
      BY <1>6, <3>3 DEF TypeOK, ObjectType
  <2>3. QED
    BY <2>1, <2>2 DEF TypeOK, ObjectType, RecType
<1>7. ASSUME NEW g \in Names, NEW i \in Ordinals, ProvisionClaim(g, i)
      PROVE  TypeOK'
  <2>1. /\ UNCHANGED <<config, spec, slot, labelled, rec, deploy, sets, headless, service, edits, faults>>
        /\ due' \in BOOLEAN
    BY <1>7 DEF ProvisionClaim
  <2>2. sets[g].size \in 0..MaxSize
    BY SMT, <1>7 DEF ProvisionClaim, TypeOK, ObjectType, SetType
  <2>3. claims' \in [Names -> [Ordinals -> 0..MaxSize]]
    BY <1>7, <2>2 DEF ProvisionClaim, TypeOK, ObjectType
  <2>4. QED
    BY <2>1, <2>3 DEF TypeOK, ObjectType, RecType
<1>8. QED
  BY <1>1, <1>2, <1>3, <1>4, <1>5, <1>6, <1>7

LEMMA TypeStep ==
  ASSUME TypeOK, [Next]_vars
  PROVE  TypeOK'
<1>1. CASE UNCHANGED vars
  BY <1>1 DEF vars, crd, objects, TypeOK, RecType, ObjectType
<1>2. CASE Next
  BY <1>2, LoopType, CleanupType, PruneType, OtherType DEF Next, Reconcile, Reports
<1>3. QED
  BY <1>1, <1>2

-----------------------------------------------------------------------------
(* One kind of workload.                                                    *)

LEMMA RemovesEffect ==
  ASSUME TypeOK, NEW step \in {"legacy", "groups", "tostandalone"}, At(step), Removes(step)
  PROVE  \E k \in rec.todo \cap Keys :
           /\ deploy'[k] = None /\ \A j \in Keys \ {k} : deploy'[j] = deploy[j]
           /\ rec'.step = step /\ rec'.todo = rec.todo \ {k} /\ rec'.spec = rec.spec
           /\ rec'.labelled = rec.labelled /\ rec'.service = rec.service /\ rec'.slot = rec.slot
<1>1. PICK k \in rec.todo : Delete(k) /\ Enter(step, rec.todo \ {k})
  BY DEF Removes
<1>2. rec.todo \subseteq Keys /\ step \in Steps
  BY DEF TypeOK, RecType, At, Steps
<1>3. /\ rec'.step = step /\ rec'.todo = rec.todo \ {k} /\ rec'.spec = rec.spec
      /\ rec'.labelled = rec.labelled /\ rec'.service = rec.service /\ rec'.slot = rec.slot
  BY <1>1, <1>2, EnterType DEF TypeOK
<1>4. deploy'[k] = None /\ \A j \in Keys \ {k} : deploy'[j] = deploy[j]
  BY <1>1, <1>2 DEF TypeOK, ObjectType, Delete
<1>5. QED
  BY <1>1, <1>2, <1>3, <1>4

\* What is left over of the other kind is removed one by one.
LEMMA KindRemoves ==
  ASSUME KindInv, NEW step \in {"legacy", "groups", "tostandalone"}, At(step), Removes(step), sets' = sets
  PROVE  OneKind' /\ TodoAsked' /\ ToSets' /\ ToDeployments'
<1>1. PICK k \in rec.todo \cap Keys :
        /\ deploy'[k] = None /\ \A j \in Keys \ {k} : deploy'[j] = deploy[j]
        /\ rec'.step = step /\ rec'.todo = rec.todo \ {k} /\ rec'.spec = rec.spec
  BY RemovesEffect DEF KindInv
<1>2. \A j \in Keys : Exists(j)' => Exists(j) /\ j # k
  BY <1>1 DEF Exists
<1>3. OneKind'
  BY <1>2 DEF KindInv, OneKind, Exists
<1>4. TodoAsked'
  BY <1>1 DEF TodoAsked, At
<1>5. ToSets'
  BY <1>1, <1>2 DEF KindInv, ToSets, At, Cleaned, QueryNodes
<1>6. ToDeployments'
  BY <1>1 DEF KindInv, ToDeployments, At, Cleaned
<1>7. QED
  BY <1>3, <1>4, <1>5, <1>6

\* The loop makes Deployments of a querynode only when the spec asks for them,
\* and StatefulSets only when it asks for those.
LEMMA LoopCreates ==
  ASSUME TypeOK, TodoAsked, ReconcileWorkload
  PROVE  /\ (rec.spec.mode = "cluster" /\ ~rec.spec.sts) \/ \A k \in QueryNodes : Exists(k)' => Exists(k)
         /\ (rec.spec.mode = "cluster" /\ rec.spec.sts) \/ \A g \in Names : sets'[g] # None => sets[g] # None
<1>1. PICK w \in rec.todo :
        /\ w \in Workload
        /\ \/ w = Standalone /\ IsIdleClusterStandalone(rec.spec, w) /\ ScaleDownIdleStandalone(w)
           \/ w[1] = "querynode" /\ rec.spec.sts /\ ReconcileComponentStatefulSet(w)
           \/ w[1] = "querynode" /\ ~rec.spec.sts /\ ReconcileTwoDeployments(w)
           \/ w[1] # "querynode" /\ ~IsIdleClusterStandalone(rec.spec, w) /\ ReconcileComponentDeployment(w)
  BY LoopCases DEF TypeOK
<1>2. w[1] = "querynode" => rec.spec.mode = "cluster"
  <2>1. w \in GetComponentWorkloadsBySpec(rec.spec)
    BY <1>1 DEF ReconcileWorkload, TodoAsked
  <2>2. QED
    BY SMT, <2>1 DEF GetComponentWorkloadsBySpec, Standalone
<1>3. /\ <<w, 0>> \in Keys
      /\ w[1] # "querynode" => <<w, 0>> \notin QueryNodes
  BY <1>1, KeysType DEF QueryNodes, ComponentOf
<1>4. CASE w = Standalone /\ ScaleDownIdleStandalone(w)
  <2>1. \A k \in QueryNodes : k \in Keys /\ k # <<w, 0>>
    BY <1>3, <1>4 DEF Standalone, QueryNodes
  <2>2. \A k \in QueryNodes : deploy'[k] = deploy[k]
    BY <1>4, <2>1 DEF ScaleDownIdleStandalone, TypeOK, ObjectType
  <2>3. sets' = sets
    BY <1>4 DEF ScaleDownIdleStandalone
  <2>4. QED
    BY <2>2, <2>3 DEF Exists
<1>5. CASE w[1] = "querynode" /\ rec.spec.sts /\ ReconcileComponentStatefulSet(w)
  BY <1>2, <1>5 DEF ReconcileComponentStatefulSet, Exists
<1>6. CASE w[1] = "querynode" /\ ~rec.spec.sts /\ ReconcileTwoDeployments(w)
  BY <1>2, <1>6 DEF ReconcileTwoDeployments
<1>7. CASE w[1] # "querynode" /\ ReconcileComponentDeployment(w)
  <2>1. sets' = sets
    BY <1>7 DEF ReconcileComponentDeployment
  <2>2. ASSUME NEW k \in QueryNodes
        PROVE  deploy'[k] = deploy[k]
    <3>1. k \in Keys /\ k # <<w, 0>>
      BY <1>3, <1>7 DEF QueryNodes
    <3>2. ~IsService(k[1])
      BY DEF QueryNodes, ComponentOf, IsService
    <3>3. LabelServicePods[k] = deploy[k]
      BY <3>1, <3>2 DEF LabelServicePods
    <3>4. QED
      BY <1>7, <3>1, <3>3 DEF ReconcileComponentDeployment, TypeOK, ObjectType
  <2>3. QED
    BY <2>1, <2>2 DEF Exists
<1>8. QED
  BY <1>1, <1>4, <1>5, <1>6, <1>7

LEMMA KindLoop ==
  ASSUME KindInv, ReconcileWorkload
  PROVE  OneKind' /\ TodoAsked' /\ ToSets' /\ ToDeployments'
<1>1. /\ (rec.spec.mode = "cluster" /\ ~rec.spec.sts) \/ \A k \in QueryNodes : Exists(k)' => Exists(k)
      /\ (rec.spec.mode = "cluster" /\ rec.spec.sts) \/ \A g \in Names : sets'[g] # None => sets[g] # None
  BY LoopCreates DEF KindInv
<1>2. At("loop") /\ At("loop")' /\ rec'.spec = rec.spec /\ rec'.todo \subseteq rec.todo
  BY LoopRec DEF KindInv, TypeOK
<1>3. TodoAsked'
  BY <1>2 DEF KindInv, TodoAsked
<1>4. ToSets'
  BY <1>1, <1>2 DEF KindInv, ToSets, At, Cleaned
<1>5. ToDeployments'
  BY <1>1, <1>2 DEF KindInv, ToDeployments, At, Cleaned
<1>6. OneKind'
  BY <1>1, <1>2 DEF KindInv, OneKind, ToSets, ToDeployments, At, Cleaned, QueryNodes, Exists
<1>7. QED
  BY <1>3, <1>4, <1>5, <1>6

\* Between the removal of one kind and the loop, nothing is made.
LEMMA KindPrune ==
  ASSUME KindInv,
         \/ DeleteLegacyComponentDeployments /\ rec.todo = {}
         \/ CleanupStaleStatefulSets \/ DeletePVCsForStatefulSet
  PROVE  OneKind' /\ TodoAsked' /\ ToSets' /\ ToDeployments'
<1>1. CASE DeleteLegacyComponentDeployments /\ rec.todo = {}
  <2>1. At("legacy") /\ Enter("stale", StaleStatefulSets(rec.spec)) /\ UNCHANGED <<deploy, sets>>
    BY <1>1 DEF DeleteLegacyComponentDeployments
  <2>2. StaleStatefulSets(rec.spec) \subseteq Names
    BY DEF StaleStatefulSets
  <2>3. rec'.step = "stale" /\ rec'.todo = StaleStatefulSets(rec.spec) /\ rec'.spec = rec.spec
    BY SMT, <2>1, <2>2, EnterType DEF KindInv, TypeOK, Steps
  <2>4. OneKind' /\ TodoAsked'
    BY <2>1, <2>3 DEF KindInv, OneKind, TodoAsked, At, Exists
  <2>5. ToSets'
    BY <1>1, <2>1, <2>3 DEF KindInv, ToSets, At, Cleaned, Exists
  <2>6. ToDeployments'
    BY <2>1, <2>3 DEF ToDeployments, StaleStatefulSets, Cleaned
  <2>7. QED
    BY <2>4, <2>5, <2>6
<1>2. CASE CleanupStaleStatefulSets /\ rec.todo = {}
  <2>1. At("stale") /\ Enter("loop", GetComponentWorkloadsBySpec(rec.spec)) /\ UNCHANGED <<deploy, sets>>
    BY <1>2 DEF CleanupStaleStatefulSets
  <2>2. rec'.step = "loop" /\ rec'.todo = GetComponentWorkloadsBySpec(rec.spec) /\ rec'.spec = rec.spec
    BY <2>1, EnterType, WorkloadsType DEF KindInv, TypeOK, RecType, Steps
  <2>3. OneKind' /\ TodoAsked'
    BY <2>1, <2>2 DEF KindInv, OneKind, TodoAsked, Exists
  <2>4. ToSets' /\ ToDeployments'
    BY <1>2, <2>1, <2>2 DEF KindInv, ToSets, ToDeployments, At, Cleaned, Exists
  <2>5. QED
    BY <2>3, <2>4
<1>3. CASE CleanupStaleStatefulSets /\ rec.todo # {}
  <2>1. PICK g \in rec.todo :
          /\ sets' = [sets EXCEPT ![g] = None]
          /\ rec' = [rec EXCEPT !.step = "reclaim", !.at = g, !.todo = rec.todo \ {g}]
    BY <1>3 DEF CleanupStaleStatefulSets
  <2>2. At("stale") /\ deploy' = deploy
    BY <1>3 DEF CleanupStaleStatefulSets
  <2>3. rec'.step = "reclaim" /\ rec'.todo = rec.todo \ {g} /\ rec'.spec = rec.spec
    BY <2>1 DEF KindInv, TypeOK, RecType
  <2>4. \A h \in Names : sets'[h] # None => sets[h] # None /\ h # g
    BY <2>1 DEF KindInv, TypeOK, ObjectType
  <2>5. OneKind' /\ TodoAsked'
    BY <2>2, <2>3, <2>4 DEF KindInv, OneKind, TodoAsked, At, Exists
  <2>6. ToSets'
    BY <2>2, <2>3 DEF KindInv, ToSets, At, Cleaned, Exists
  <2>7. ToDeployments'
    BY <2>2, <2>3, <2>4 DEF KindInv, ToDeployments, At, Cleaned
  <2>8. QED
    BY <2>5, <2>6, <2>7
<1>4. CASE DeletePVCsForStatefulSet
  <2>1. At("reclaim") /\ UNCHANGED <<deploy, sets>>
    BY <1>4 DEF DeletePVCsForStatefulSet
  <2>2. rec'.step \in {"reclaim", "stale"} /\ rec'.todo = rec.todo /\ rec'.spec = rec.spec
    BY <1>4, <2>1 DEF DeletePVCsForStatefulSet, KindInv, TypeOK, RecType, At
  <2>3. OneKind' /\ TodoAsked'
    BY <2>1, <2>2 DEF KindInv, OneKind, TodoAsked, At, Exists
  <2>4. ToSets' /\ ToDeployments'
    BY <2>1, <2>2 DEF KindInv, ToSets, ToDeployments, At, Cleaned, Exists
  <2>5. QED
    BY <2>3, <2>4
<1>5. QED
  BY <1>1, <1>2, <1>3, <1>4

\* The other steps make and remove no workload.
LEMMA KindOther ==
  ASSUME KindInv,
         /\ \A k \in QueryNodes : Exists(k)' => Exists(k)
         /\ sets' = sets,
         \/ rec'.step = "idle"
         \/ rec'.step = rec.step /\ rec'.todo = rec.todo /\ rec'.spec = rec.spec
         \/ rec'.step = "legacy" /\ rec'.todo = LegacyDeployments(rec'.spec) /\ deploy' = deploy
         \/ At("loop") /\ rec'.step = "groups" /\ rec'.spec = rec.spec
         \/ At("groups") /\ rec'.step = "tostandalone" /\ rec'.spec = rec.spec
  PROVE  OneKind' /\ TodoAsked' /\ ToSets' /\ ToDeployments'
<1>1. OneKind'
  BY DEF KindInv, OneKind, QueryNodes, Exists
<1>2. TodoAsked'
  BY DEF KindInv, TodoAsked, At
<1>3. ToSets'
  BY DEF KindInv, ToSets, At, Cleaned, LegacyDeployments, QueryNodes, Deployed, Exists
<1>4. ToDeployments'
  BY DEF KindInv, ToDeployments, At, Cleaned
<1>5. QED
  BY <1>1, <1>2, <1>3, <1>4

LEMMA KindInit == Init => KindInv
<1> SUFFICES ASSUME Init PROVE KindInv
  OBVIOUS
<1>1. TypeOK
  BY TypeInit
<1>2. OneKind
  <2> SUFFICES ASSUME NEW g \in Names, NEW k \in Keys, ComponentOf(k) = "querynode",
                      sets[g] # None, deploy[k] # None
               PROVE  FALSE
    BY DEF OneKind, Exists
  <2>1. spec.sts
    BY DEF Init
  <2>2. ~ComponentUsesStatefulSet(spec, k[1])
    BY DEF Init
  <2>3. QED
    BY <2>1, <2>2 DEF ComponentUsesStatefulSet, ComponentOf
<1>3. rec.step = "idle"
  BY DEF Init, NoRec
<1>4. QED
  BY <1>1, <1>2, <1>3 DEF KindInv, TodoAsked, ToSets, ToDeployments, At, Cleaned

LEMMA KindStep ==
  ASSUME KindInv, [Next]_vars
  PROVE  KindInv'
<1>1. TypeOK'
  BY TypeStep DEF KindInv
<1> SUFFICES OneKind' /\ TodoAsked' /\ ToSets' /\ ToDeployments'
  BY <1>1 DEF KindInv
<1> USE DEF objects
<1>2. CASE UNCHANGED vars
  BY <1>2, KindOther DEF vars, Exists
<1>3. CASE StartReconcile
  <2>1. UNCHANGED <<deploy, sets>>
    BY <1>3 DEF StartReconcile
  <2>2. rec'.step = "legacy" /\ rec'.todo = LegacyDeployments(rec'.spec)
    BY <1>3 DEF StartReconcile, NoRec
  <2>3. QED
    BY <2>1, <2>2, KindOther DEF Exists
<1>4. CASE DeleteLegacyComponentDeployments /\ rec.todo # {}
  BY <1>4, KindRemoves DEF DeleteLegacyComponentDeployments, Removes
<1>5. CASE \/ DeleteLegacyComponentDeployments /\ rec.todo = {}
           \/ CleanupStaleStatefulSets \/ DeletePVCsForStatefulSet
  BY <1>5, KindPrune
<1>6. CASE ReconcileWorkload
  BY <1>6, KindLoop
<1>7. CASE EndOfLoop
  <2>1. UNCHANGED <<deploy, sets>> /\ At("loop")
    BY <1>7 DEF EndOfLoop
  <2>2. rec'.step = "idle" \/ (rec'.step = "groups" /\ rec'.spec = rec.spec)
    BY <1>7 DEF EndOfLoop, Fail, Enter, KindInv, TypeOK, RecType
  <2>3. QED
    BY <2>1, <2>2, KindOther DEF Exists
<1>8. CASE CleanupStaleDeploymentGroups
  <2>1. CASE rec.todo # {}
    BY <1>8, <2>1, KindRemoves DEF CleanupStaleDeploymentGroups, Removes
  <2>2. CASE rec.todo = {}
    <3>1. UNCHANGED <<deploy, sets>> /\ At("groups")
      BY <1>8, <2>2 DEF CleanupStaleDeploymentGroups
    <3>2. rec'.step = "tostandalone" /\ rec'.spec = rec.spec
      BY <1>8, <2>2 DEF CleanupStaleDeploymentGroups, Enter, KindInv, TypeOK, RecType
    <3>3. QED
      BY <3>1, <3>2, KindOther DEF Exists
  <2>3. QED
    BY <2>1, <2>2
<1>9. CASE CleanupDeploymentClusterToStandalone
  <2>1. CASE rec.todo # {}
    BY <1>9, <2>1, KindRemoves DEF CleanupDeploymentClusterToStandalone, Removes
  <2>2. CASE rec.todo = {}
    <3>1. UNCHANGED <<deploy, sets>>
      BY <1>9, <2>2 DEF CleanupDeploymentClusterToStandalone
    <3>2. rec'.step = "idle"
      BY <1>9, <2>2 DEF CleanupDeploymentClusterToStandalone, Enter, KindInv, TypeOK, RecType
    <3>3. QED
      BY <3>1, <3>2, KindOther DEF Exists
  <2>3. QED
    BY <2>1, <2>2
<1>10. CASE ReconcileServices \/ \E s \in config.plans : Edit(s)
  <2>1. UNCHANGED <<deploy, sets>>
    BY <1>10 DEF ReconcileServices, Edit
  <2>2. rec'.step = rec.step /\ rec'.todo = rec.todo /\ rec'.spec = rec.spec
    BY <1>10 DEF ReconcileServices, Edit, KindInv, TypeOK, RecType
  <2>3. QED
    BY <2>1, <2>2, KindOther DEF Exists
<1>11. CASE Crash
  <2>1. UNCHANGED <<deploy, sets>> /\ rec'.step = "idle"
    BY <1>11 DEF Crash, NoRec
  <2>2. QED
    BY <2>1, KindOther DEF Exists
<1>12. ASSUME NEW k \in Keys, Reports(k)
       PROVE  OneKind' /\ TodoAsked' /\ ToSets' /\ ToDeployments'
  <2>1. UNCHANGED <<rec, sets>>
    BY <1>12 DEF Reports, BecomeReady, Observe
  <2>2. \A j \in Keys : Exists(j)' => Exists(j)
    BY <1>12, ReportKeeps DEF KindInv
  <2>3. QED
    BY <2>1, <2>2, KindOther DEF QueryNodes
<1>13. CASE \E g \in Names, i \in Ordinals : ProvisionClaim(g, i)
  <2>1. UNCHANGED <<rec, deploy, sets>>
    BY <1>13 DEF ProvisionClaim
  <2>2. QED
    BY <2>1, KindOther DEF Exists
<1>14. QED
  BY <1>2, <1>3, <1>4, <1>5, <1>6, <1>7, <1>8, <1>9, <1>10, <1>11, <1>12, <1>13 DEF Next, Reconcile, Reports

\* There is never a StatefulSet of querynodes beside Deployments of them: the
\* workloads of the other kind are deleted before ReconcileDeployments makes the
\* first of the new one, whatever users change meanwhile and wherever the
\* operator crashes.
THEOREM OneKindOnly == Spec => []OneKind
<1>1. KindInv /\ [Next]_vars => KindInv'
  BY KindStep
<1>2. KindInv => OneKind
  BY DEF KindInv
<1>3. QED
  BY <1>1, <1>2, KindInit, PTL DEF Spec

-----------------------------------------------------------------------------
(* A component that serves keeps serving.                                   *)

\* What is removed in which step.
TodoKinds ==
  /\ At("legacy") /\ rec.todo # {} => rec.spec.sts /\ rec.todo \subseteq QueryNodes
  /\ At("tostandalone") /\ rec.todo # {} => rec.spec.mode = "standalone"

\* Proxies are made with their replicas and keep them, so that one of them is
\* available only when it is ready.
ProxyReplicas ==
  \A k \in Deployed : ComponentOf(k) = "proxy" =>
    deploy[k].replicas = 1 /\ (deploy[k].available => deploy[k].ready)

\* When proxies lose Deployments to other groups, one is ready that stays.
Covered ==
  At("groups") /\ (\E k \in rec.todo : ComponentOf(k) = "proxy") =>
    \E k \in Deployed \ rec.todo : ComponentOf(k) = "proxy" /\ deploy[k].ready

ServingInv == TypeOK /\ TodoAsked /\ TodoKinds /\ ProxyReplicas /\ Covered

\* The step takes nothing from the Deployments of a component.
Keeps(c) ==
  \A k \in Keys : ComponentOf(k) = c /\ Exists(k) =>
    /\ Exists(k)'
    /\ deploy[k].ready => deploy'[k].ready
    /\ deploy[k].replicas = 1 => deploy'[k].replicas = 1

LEMMA SameKeeps ==
  ASSUME TypeOK, deploy' = deploy, NEW c
  PROVE  Keeps(c)
  BY DEF Keeps, Exists

\* reconcileComponentDeployment makes the Deployments of proxies, all with one
\* replica, and labels their pods.
LEMMA LoopOnProxies ==
  ASSUME TypeOK, ProxyReplicas, ReconcileWorkload, NEW k \in Keys, ComponentOf(k) = "proxy"
  PROVE  \/ deploy'[k] = deploy[k]
         \/ ~Exists(k) /\ deploy'[k] = NewDeploy(k[1], 1)
         \/ Exists(k) /\ deploy'[k] = [deploy[k] EXCEPT !.tagged = TRUE]
<1>1. PICK w \in rec.todo :
        /\ w \in Workload
        /\ \/ w = Standalone /\ IsIdleClusterStandalone(rec.spec, w) /\ ScaleDownIdleStandalone(w)
           \/ w[1] = "querynode" /\ rec.spec.sts /\ ReconcileComponentStatefulSet(w)
           \/ w[1] = "querynode" /\ ~rec.spec.sts /\ ReconcileTwoDeployments(w)
           \/ w[1] # "querynode" /\ ~IsIdleClusterStandalone(rec.spec, w) /\ ReconcileComponentDeployment(w)
  BY LoopCases DEF TypeOK
<1>2. <<w, 0>> \in Keys
  BY <1>1, KeysType
<1>3. k[1][1] = "proxy" /\ IsService(k[1])
  BY DEF ComponentOf, IsService
<1>4. CASE w = Standalone /\ ScaleDownIdleStandalone(w)
  <2>1. k # <<w, 0>>
    BY SMT, <1>3, <1>4 DEF Standalone
  <2>2. QED
    BY <1>2, <1>4, <2>1 DEF ScaleDownIdleStandalone, TypeOK, ObjectType
<1>5. CASE ReconcileComponentStatefulSet(w)
  BY <1>5 DEF ReconcileComponentStatefulSet
<1>6. CASE w[1] = "querynode" /\ ReconcileTwoDeployments(w)
  <2>1. k[1] # w
    BY <1>3, <1>6
  <2>2. <<w, 1>> \in Keys
    BY <1>1, <1>6, KeysType DEF ComponentUsesTwoDeployments
  <2>3. \/ deploy' = deploy
        \/ \E r \in {0, 1} : \E d : deploy' = [deploy EXCEPT ![<<w, r>>] = d]
    BY <1>6 DEF ReconcileTwoDeployments
  <2>4. \A r \in {0, 1} : k # <<w, r>>
    BY SMT, <2>1
  <2>5. QED
    BY <1>2, <2>2, <2>3, <2>4 DEF TypeOK, ObjectType
<1>7. CASE w[1] # "querynode" /\ ReconcileComponentDeployment(w)
  <2>1. CASE k # <<w, 0>>
    <3>1. Exists(k) => LabelServicePods[k] = [deploy[k] EXCEPT !.tagged = TRUE]
      BY <1>3 DEF LabelServicePods
    <3>2. ~Exists(k) => LabelServicePods[k] = deploy[k]
      BY DEF LabelServicePods
    <3>3. \/ deploy' = deploy \/ deploy' = LabelServicePods
          \/ \E d : deploy' = [deploy EXCEPT ![<<w, 0>>] = d]
      BY <1>7 DEF ReconcileComponentDeployment
    <3>4. QED
      BY <1>2, <2>1, <3>1, <3>2, <3>3 DEF TypeOK, ObjectType
  <2>2. CASE k = <<w, 0>>
    <3>1. k[1] = w /\ w # Standalone
      BY SMT, <1>3, <2>2 DEF Standalone
    <3>2. Replicas(rec.spec, w) = 1
      BY <3>1 DEF Replicas
    <3>3. Exists(k) => deploy[k].replicas = 1
      BY DEF ProxyReplicas, Deployed
    <3>4. CASE ~Exists(k)
      BY <1>2, <1>7, <2>2, <3>1, <3>2, <3>4 DEF ReconcileComponentDeployment, TypeOK, ObjectType
    <3>5. CASE Exists(k)
      BY <1>7, <2>2, <3>1, <3>2, <3>3, <3>5 DEF ReconcileComponentDeployment
    <3>6. QED
      BY <3>4, <3>5
  <2>3. QED
    BY <2>1, <2>2
<1>8. QED
  BY <1>1, <1>4, <1>5, <1>6, <1>7

\* A pair is made without replicas, and the current one then gets them.
LEMMA LoopOnPairs ==
  ASSUME TypeOK, ReconcileWorkload, NEW k \in QueryNodes
  PROVE  \/ deploy'[k] = deploy[k]
         \/ ~Exists(k) /\ deploy'[k] = NewDeploy(k[1], 0)
         \/ Exists(k) /\ deploy'[k] = [deploy[k] EXCEPT !.replicas = 1]
<1>1. PICK w \in rec.todo :
        /\ w \in Workload
        /\ \/ w = Standalone /\ IsIdleClusterStandalone(rec.spec, w) /\ ScaleDownIdleStandalone(w)
           \/ w[1] = "querynode" /\ rec.spec.sts /\ ReconcileComponentStatefulSet(w)
           \/ w[1] = "querynode" /\ ~rec.spec.sts /\ ReconcileTwoDeployments(w)
           \/ w[1] # "querynode" /\ ~IsIdleClusterStandalone(rec.spec, w) /\ ReconcileComponentDeployment(w)
  BY LoopCases DEF TypeOK
<1>2. <<w, 0>> \in Keys
  BY <1>1, KeysType
<1>3. k \in Keys /\ k[1][1] = "querynode" /\ ~IsService(k[1])
  BY DEF ComponentOf, IsService, QueryNodes
<1>4. CASE w = Standalone /\ ScaleDownIdleStandalone(w)
  <2>1. k # <<w, 0>>
    BY SMT, <1>3, <1>4 DEF Standalone
  <2>2. QED
    BY <1>2, <1>3, <1>4, <2>1 DEF ScaleDownIdleStandalone, TypeOK, ObjectType
<1>5. CASE ReconcileComponentStatefulSet(w)
  BY <1>5 DEF ReconcileComponentStatefulSet
<1>6. CASE w[1] = "querynode" /\ ReconcileTwoDeployments(w)
  <2> DEFINE cur == <<w, IF rec.slot[w] = "1" THEN 1 ELSE 0>>
  <2>1. <<w, 1>> \in Keys /\ cur \in Keys
    BY <1>1, <1>2, <1>6, KeysType DEF ComponentUsesTwoDeployments
  <2>2. /\ Slots(w) = {} => ~Exists(<<w, 0>>)
        /\ Slots(w) = {"0"} => ~Exists(<<w, 1>>)
        /\ Slots(w) = {"0", "1"} => Exists(cur)
    BY SMT DEF Slots
  <2>3. \/ deploy' = deploy
        \/ \E r \in {0, 1} : ~Exists(<<w, r>>) /\ deploy' = [deploy EXCEPT ![<<w, r>>] = NewDeploy(w, 0)]
        \/ Exists(cur) /\ deploy' = [deploy EXCEPT ![cur].replicas = 1]
    BY <1>6, <2>2 DEF ReconcileTwoDeployments
  <2>4. CASE \E r \in {0, 1} : ~Exists(<<w, r>>) /\ deploy' = [deploy EXCEPT ![<<w, r>>] = NewDeploy(w, 0)]
    BY SMT, <1>2, <1>3, <2>1, <2>4 DEF TypeOK, ObjectType
  <2> HIDE DEF cur
  <2>5. CASE Exists(cur) /\ deploy' = [deploy EXCEPT ![cur].replicas = 1]
    BY <1>3, <2>1, <2>5 DEF TypeOK, ObjectType
  <2>6. QED
    BY <2>3, <2>4, <2>5
<1>7. CASE w[1] # "querynode" /\ ReconcileComponentDeployment(w)
  <2>1. k # <<w, 0>>
    BY SMT, <1>3, <1>7
  <2>2. LabelServicePods[k] = deploy[k]
    BY <1>3 DEF LabelServicePods
  <2>3. QED
    BY <1>2, <1>3, <1>7, <2>1, <2>2 DEF ReconcileComponentDeployment, TypeOK, ObjectType
<1>8. QED
  BY <1>1, <1>4, <1>5, <1>6, <1>7

LEMMA LoopKeeps ==
  ASSUME TypeOK, ProxyReplicas, ReconcileWorkload
  PROVE  Keeps("proxy") /\ Keeps("querynode") /\ ProxyReplicas'
<1>1. ASSUME NEW k \in Keys, ComponentOf(k) = "proxy"
      PROVE  /\ Exists(k) => Exists(k)' /\ (deploy[k].ready => deploy'[k].ready)
             /\ Exists(k)' => deploy'[k].replicas = 1 /\ (deploy'[k].available => deploy'[k].ready)
  <2>1. CASE deploy'[k] = deploy[k]
    BY <1>1, <2>1 DEF Exists, ProxyReplicas, Deployed
  <2>2. CASE ~Exists(k) /\ deploy'[k] = NewDeploy(k[1], 1)
    <3>1. 1 \in 0..1
      BY SMT
    <3>2. NewDeploy(k[1], 1).replicas = 1 /\ NewDeploy(k[1], 1).available = FALSE
      BY <3>1, NewDeployType
    <3>3. QED
      BY <2>2, <3>2
  <2>3. CASE Exists(k) /\ deploy'[k] = [deploy[k] EXCEPT !.tagged = TRUE]
    <3>1. deploy[k] \in DeployType /\ deploy[k].replicas = 1 /\ (deploy[k].available => deploy[k].ready)
      BY <1>1, <2>3 DEF Exists, TypeOK, ObjectType, ProxyReplicas, Deployed
    <3>2. /\ deploy'[k] \in DeployType /\ deploy'[k].ready = deploy[k].ready /\ deploy'[k].replicas = 1
          /\ deploy'[k].available = deploy[k].available
      BY <2>3, <3>1 DEF DeployType
    <3>3. QED
      BY <3>1, <3>2, NoneAssumption DEF Exists
  <2>4. QED
    BY <1>1, <2>1, <2>2, <2>3, LoopOnProxies
<1>2. ASSUME NEW k \in QueryNodes, Exists(k)
      PROVE  /\ Exists(k)'
             /\ deploy[k].ready => deploy'[k].ready
             /\ deploy[k].replicas = 1 => deploy'[k].replicas = 1
  <2>1. CASE deploy'[k] = deploy[k]
    BY <1>2, <2>1 DEF Exists
  <2>2. CASE deploy'[k] = [deploy[k] EXCEPT !.replicas = 1]
    <3>1. deploy[k] \in DeployType
      BY <1>2 DEF Exists, TypeOK, ObjectType, QueryNodes
    <3>2. deploy'[k] \in DeployType /\ deploy'[k].ready = deploy[k].ready /\ deploy'[k].replicas = 1
      BY SMT, <2>2, <3>1 DEF DeployType
    <3>3. QED
      BY <3>2, NoneAssumption DEF Exists
  <2>3. QED
    BY <1>2, <2>1, <2>2, LoopOnPairs
<1>3. Keeps("proxy") /\ Keeps("querynode")
  BY <1>1, <1>2 DEF Keeps, QueryNodes
<1>4. ProxyReplicas'
  BY <1>1 DEF ProxyReplicas, Deployed
<1>5. QED
  BY <1>3, <1>4

\* The steps that change Deployments.
LEMMA DeploySteps ==
  ASSUME TypeOK, [Next]_vars
  PROVE  \/ deploy' = deploy \/ ReconcileWorkload \/ (\E k \in Keys : Reports(k))
         \/ \E step \in {"legacy", "groups", "tostandalone"} : At(step) /\ Removes(step)
<1> USE DEF objects
<1>1. CASE UNCHANGED vars
  BY <1>1 DEF vars
<1>2. CASE StartReconcile \/ EndOfLoop \/ ReconcileServices \/ Crash \/ \E s \in config.plans : Edit(s)
  BY <1>2 DEF StartReconcile, EndOfLoop, ReconcileServices, Crash, Edit
<1>3. CASE CleanupStaleStatefulSets \/ DeletePVCsForStatefulSet
  BY <1>3 DEF CleanupStaleStatefulSets, DeletePVCsForStatefulSet
<1>4. CASE \E g \in Names, i \in Ordinals : ProvisionClaim(g, i)
  BY <1>4 DEF ProvisionClaim
<1>5. CASE \/ DeleteLegacyComponentDeployments \/ CleanupStaleDeploymentGroups
           \/ CleanupDeploymentClusterToStandalone
  <2>1. CASE rec.todo = {}
    BY <1>5, <2>1 DEF DeleteLegacyComponentDeployments, CleanupStaleDeploymentGroups, CleanupDeploymentClusterToStandalone
  <2>2. CASE rec.todo # {}
    BY <1>5, <2>2 DEF DeleteLegacyComponentDeployments, CleanupStaleDeploymentGroups,
                      CleanupDeploymentClusterToStandalone, Removes
  <2>3. QED
    BY <2>1, <2>2
<1>6. QED
  BY <1>1, <1>2, <1>3, <1>4, <1>5 DEF Next, Reconcile, Reports

\* But for the removals, no step takes anything from proxies and querynodes.
LEMMA StepKeeps ==
  ASSUME TypeOK, ProxyReplicas, [Next]_vars
  PROVE  \/ \E step \in {"legacy", "groups", "tostandalone"} : At(step) /\ Removes(step)
         \/ Keeps("proxy") /\ Keeps("querynode") /\ ProxyReplicas'
<1> USE DEF objects
<1>1. CASE ReconcileWorkload
  BY <1>1, LoopKeeps
<1>2. ASSUME NEW k \in Keys, Reports(k)
      PROVE  Keeps("proxy") /\ Keeps("querynode") /\ ProxyReplicas'
  <2>1. Keeps("proxy") /\ Keeps("querynode")
    BY <1>2, ReportKeeps DEF Keeps
  <2>2. ProxyReplicas'
    BY <1>2, ReportKeeps DEF ProxyReplicas, Deployed
  <2>3. QED
    BY <2>1, <2>2
<1>3. CASE deploy' = deploy
  BY <1>3, SameKeeps DEF ProxyReplicas, Deployed, Exists
<1>4. QED
  BY <1>1, <1>2, <1>3, DeploySteps

\* The reconcile's step and what it has to do, after any step of the system.
LEMMA RecSteps ==
  ASSUME TypeOK, [Next]_vars
  PROVE  \/ /\ rec'.step = rec.step /\ rec'.todo = rec.todo /\ rec'.spec = rec.spec
            /\ rec'.slot = rec.slot /\ rec'.failed = rec.failed /\ rec'.labelled = rec.labelled
         \/ rec'.step = "idle"
         \/ rec'.step = "legacy" /\ rec'.spec = spec /\ rec'.todo = LegacyDeployments(spec) /\ deploy' = deploy
         \/ \E step \in {"legacy", "groups", "tostandalone"} : At(step) /\ Removes(step)
         \/ ~At("idle") /\ rec'.step \in {"stale", "reclaim"} /\ rec'.spec = rec.spec
         \/ At("stale") /\ rec'.step = "loop" /\ rec'.spec = rec.spec
              /\ rec'.todo = GetComponentWorkloadsBySpec(rec.spec)
         \/ ReconcileWorkload
         \/ EndOfLoop /\ rec'.step = "groups" /\ rec'.spec = rec.spec
         \/ /\ At("groups") /\ rec'.step = "tostandalone" /\ rec'.spec = rec.spec
            /\ rec'.todo = ClusterDeployments(rec.spec) /\ deploy' = deploy
<1> USE DEF TypeOK, RecType
<1>1. CASE \/ UNCHANGED vars \/ ReconcileServices \/ (\E s \in config.plans : Edit(s))
           \/ (\E k \in Keys : Reports(k)) \/ \E g \in Names, i \in Ordinals : ProvisionClaim(g, i)
  <2>1. rec' = rec \/ rec' = [rec EXCEPT !.service = FALSE] \/ rec' = [rec EXCEPT !.outdated = TRUE]
    BY <1>1 DEF vars, ReconcileServices, Edit, Reports, BecomeReady, Observe, ProvisionClaim
  <2>2. QED
    BY <2>1
<1>2. CASE Crash
  BY <1>2 DEF Crash, NoRec
<1>3. CASE StartReconcile
  BY <1>3 DEF StartReconcile, NoRec, objects
<1>4. CASE DeleteLegacyComponentDeployments
  BY ZenonT(60), <1>4 DEF DeleteLegacyComponentDeployments, Enter, Removes, At
<1>5. CASE CleanupStaleStatefulSets
  BY ZenonT(60), <1>5 DEF CleanupStaleStatefulSets, Enter, At
<1>6. CASE DeletePVCsForStatefulSet
  BY <1>6 DEF DeletePVCsForStatefulSet, At
<1>7. CASE EndOfLoop
  BY ZenonT(60), <1>7 DEF EndOfLoop, Fail, Enter
<1>8. CASE CleanupStaleDeploymentGroups
  BY <1>8 DEF CleanupStaleDeploymentGroups, Enter, Removes
<1>9. CASE CleanupDeploymentClusterToStandalone
  BY <1>9 DEF CleanupDeploymentClusterToStandalone, Enter, Removes
<1>10. QED
  BY <1>1, <1>2, <1>3, <1>4, <1>5, <1>6, <1>7, <1>8, <1>9 DEF Next, Reconcile, Reports

\* Only users change the spec, and the reconcile works on a copy of it.
LEMMA SpecSteps ==
  ASSUME TypeOK, [Next]_vars
  PROVE  /\ config' = config
         /\ spec' = spec \/ \E s \in config.plans : Edit(s)
         /\ rec'.spec \in {rec.spec, spec}
<1>1. CASE \/ UNCHANGED vars \/ ReconcileServices \/ (\E k \in Keys : Reports(k))
           \/ \E g \in Names, i \in Ordinals : ProvisionClaim(g, i)
  BY <1>1 DEF vars, crd, ReconcileServices, Reports, BecomeReady, Observe, ProvisionClaim, TypeOK, RecType
<1>2. CASE \E s \in config.plans : Edit(s)
  <2>1. config' = config /\ rec' = [rec EXCEPT !.outdated = TRUE]
    BY <1>2 DEF Edit
  <2>2. QED
    BY <1>2, <2>1 DEF TypeOK, RecType
<1>3. CASE Crash \/ StartReconcile
  <2>1. config' = config /\ spec' = spec
    BY <1>3 DEF Crash, StartReconcile, crd
  <2>2. rec'.spec = spec
    <3>1. CASE Crash
      BY <3>1 DEF Crash, NoRec
    <3>2. CASE StartReconcile
      BY <3>2 DEF StartReconcile, NoRec
    <3>3. QED
      BY <1>3, <3>1, <3>2
  <2>3. QED
    BY <2>1, <2>2
<1>4. CASE DeleteLegacyComponentDeployments \/ CleanupStaleStatefulSets \/ DeletePVCsForStatefulSet
  BY ZenonT(60), <1>4 DEF DeleteLegacyComponentDeployments, CleanupStaleStatefulSets, DeletePVCsForStatefulSet, Enter, crd,
              TypeOK, RecType
<1>5. CASE EndOfLoop \/ CleanupStaleDeploymentGroups \/ CleanupDeploymentClusterToStandalone
  BY ZenonT(60), <1>5 DEF EndOfLoop, Fail, CleanupStaleDeploymentGroups, CleanupDeploymentClusterToStandalone, Enter, crd,
                          TypeOK, RecType
<1>6. CASE ReconcileWorkload
  <2>1. rec'.spec = rec.spec
    BY <1>6, LoopRec DEF TypeOK
  <2>2. spec' = spec
    <3>1. PICK w \in rec.todo :
            \/ ScaleDownIdleStandalone(w) \/ ReconcileComponentStatefulSet(w)
            \/ ReconcileTwoDeployments(w) \/ ReconcileComponentDeployment(w)
      BY <1>6, LoopCases DEF TypeOK
    <3>2. QED
      BY <3>1 DEF ScaleDownIdleStandalone, ReconcileComponentStatefulSet, ReconcileTwoDeployments,
                  ReconcileComponentDeployment, WriteMilvus, crd
  <2>3. QED
    BY <1>6, <2>1, <2>2 DEF ReconcileWorkload
<1>7. QED
  BY <1>1, <1>2, <1>3, <1>4, <1>5, <1>6 DEF Next, Reconcile, Reports

LEMMA DesiredType ==
  ASSUME TypeOK, NEW w \in Workload
  PROVE  DesiredDeployment(w) \in Keys /\ DesiredDeployment(w)[1] = w
  BY KeysType DEF DesiredDeployment

\* desiredWorkloadsReadyForCleanup: what takes the place of the stale proxies
\* is ready.
LEMMA EndCovers ==
  ASSUME TypeOK, ProxyReplicas, EndOfLoop, rec'.step = "groups"
  PROVE  Covered'
<1> DEFINE asked == GetComponentWorkloadsBySpec(rec.spec)
           stale == StaleDeployments(rec.spec)
           gate == {w \in asked : \E k \in stale : w[1] = ComponentOf(k)}
<1>1. deploy' = deploy
  BY DEF EndOfLoop, objects
<1>2. ~rec.failed /\ Enter("groups", IF DesiredWorkloadsReadyForCleanup(gate) THEN stale ELSE {})
  BY DEF EndOfLoop, Fail, TypeOK, RecType
<1>3. rec'.todo = IF DesiredWorkloadsReadyForCleanup(gate) THEN stale ELSE {}
  BY <1>2 DEF Enter, TypeOK, RecType
<1> SUFFICES ASSUME NEW k \in rec'.todo, ComponentOf(k) = "proxy"
             PROVE  \E j \in Deployed \ rec'.todo : ComponentOf(j) = "proxy" /\ deploy[j].ready
  BY <1>1 DEF Covered, Deployed, Exists
<1>4. k \in stale /\ DesiredWorkloadsReadyForCleanup(gate) /\ rec'.todo = stale
  BY <1>3
<1>5. PICK w \in asked : w[1] = "proxy"
  BY <1>4 DEF StaleDeployments
<1>6. w \in Workload
  BY <1>5, WorkloadsType DEF TypeOK, RecType
<1>7. w \in gate
  BY <1>4, <1>5
<1> DEFINE j == DesiredDeployment(w)
<1>8. Exists(j) /\ (deploy[j].replicas = 0 \/ deploy[j].available)
  BY <1>4, <1>7 DEF DesiredWorkloadsReadyForCleanup
<1>9. j \in Keys /\ j[1] = w
  BY <1>6, DesiredType
<1>10. deploy[j].replicas = 1 /\ (deploy[j].available => deploy[j].ready)
  BY <1>5, <1>8, <1>9 DEF ProxyReplicas, Deployed, ComponentOf
<1>11. deploy[j].ready
  BY SMT, <1>8, <1>10
<1>12. j \notin stale
  BY <1>5, <1>9 DEF StaleDeployments
<1>13. QED
  BY <1>4, <1>5, <1>8, <1>9, <1>11, <1>12 DEF Deployed, ComponentOf

\* What covers the proxies stays there while their other Deployments go.
LEMMA RemovesCovered ==
  ASSUME TypeOK, NEW step \in {"legacy", "groups", "tostandalone"}, At(step), Removes(step), Covered
  PROVE  /\ Covered'
         /\ step = "groups" => (Serves("proxy") => Serves("proxy")')
<1>1. PICK k \in rec.todo \cap Keys :
        /\ deploy'[k] = None /\ \A j \in Keys \ {k} : deploy'[j] = deploy[j]
        /\ rec'.step = step /\ rec'.todo = rec.todo \ {k} /\ rec'.spec = rec.spec
  BY RemovesEffect
<1>2. CASE step # "groups"
  BY <1>1, <1>2 DEF Covered, At
<1>3. CASE step = "groups"
  <2>1. CASE \E j \in rec.todo : ComponentOf(j) = "proxy"
    <3>1. PICK j \in Deployed \ rec.todo : ComponentOf(j) = "proxy" /\ deploy[j].ready
      BY <1>3, <2>1 DEF Covered
    <3>2. j \in Keys /\ Exists(j) /\ j # k /\ deploy'[j] = deploy[j]
      BY <1>1, <3>1 DEF Deployed
    <3>3. j \in Deployed' \ rec'.todo /\ deploy'[j].ready
      BY <1>1, <3>1, <3>2 DEF Deployed, Exists
    <3>4. Covered' /\ Serves("proxy")'
      BY <3>1, <3>3 DEF Covered, Serves
    <3>5. QED
      BY <3>4
  <2>2. CASE ~\E j \in rec.todo : ComponentOf(j) = "proxy"
    <3>1. Covered'
      BY <1>1, <2>2 DEF Covered
    <3>2. \A j \in Deployed : ComponentOf(j) = "proxy" => j \in Deployed' /\ deploy'[j] = deploy[j]
      BY <1>1, <2>2 DEF Deployed, Exists
    <3>3. QED
      BY <3>1, <3>2 DEF Serves
  <2>3. QED
    BY <2>1, <2>2
<1>4. QED
  BY <1>2, <1>3

LEMMA KeepsServing ==
  ASSUME TypeOK, NEW c, Keeps(c)
  PROVE  /\ \A j \in Deployed : ComponentOf(j) = c /\ deploy[j].ready => j \in Deployed' /\ deploy'[j].ready
         /\ Serves(c) => Serves(c)'
<1>1. \A j \in Deployed : ComponentOf(j) = c /\ deploy[j].ready => j \in Deployed' /\ deploy'[j].ready
  BY DEF Deployed, Keeps
<1>2. QED
  BY <1>1 DEF Serves

LEMMA ServingInit == Init => ServingInv
<1> SUFFICES ASSUME Init PROVE ServingInv
  OBVIOUS
<1>1. TypeOK
  BY TypeInit
<1>2. rec.step = "idle"
  BY DEF Init, NoRec
<1>3. ProxyReplicas
  <2> SUFFICES ASSUME NEW k \in Keys, ComponentOf(k) = "proxy", deploy[k] # None
               PROVE  deploy[k].replicas = 1 /\ deploy[k].ready
    BY DEF ProxyReplicas, Deployed, Exists
  <2>1. k[2] = 0 /\ k[1] # Standalone
    BY SMT, KeyParts DEF ComponentOf, ComponentUsesTwoDeployments, Standalone
  <2>2. Replicas(spec, k[1]) = 1
    BY <2>1 DEF Replicas
  <2> DEFINE up == Replicas(spec, k[1]) > 0
             none == Replicas(spec, k[1]) = 0
             tag == IsService(k[1]) /\ ~config.old
  <2>3. deploy[k] = [replicas |-> Replicas(spec, k[1]), ready |-> up, available |-> TRUE, idled |-> none, tagged |-> tag]
    BY <2>1 DEF Init
  <2>4. up
    BY SMT, <2>2
  <2> HIDE DEF up, none, tag
  <2>5. deploy[k].replicas = Replicas(spec, k[1]) /\ deploy[k].ready = up
    BY SMT, <2>3
  <2>6. QED
    BY <2>2, <2>4, <2>5
<1>4. QED
  BY <1>1, <1>2, <1>3 DEF ServingInv, TodoAsked, TodoKinds, Covered, At

LEMMA TodoStep ==
  ASSUME TypeOK, TodoAsked, TodoKinds, [Next]_vars
  PROVE  TodoAsked' /\ TodoKinds'
<1>1. ASSUME NEW step \in {"legacy", "groups", "tostandalone"}, At(step), Removes(step)
      PROVE  TodoAsked' /\ TodoKinds'
  <2>1. PICK k \in rec.todo \cap Keys :
          rec'.step = step /\ rec'.todo = rec.todo \ {k} /\ rec'.spec = rec.spec
    BY <1>1, RemovesEffect
  <2>2. QED
    BY <1>1, <2>1 DEF TodoAsked, TodoKinds, At
<1>2. CASE ReconcileWorkload
  BY <1>2, LoopRec DEF TypeOK, TodoAsked, TodoKinds, At
<1>3. CASE rec'.step = "legacy" /\ rec'.spec = spec /\ rec'.todo = LegacyDeployments(spec) /\ deploy' = deploy
  BY <1>3 DEF TodoAsked, TodoKinds, At, LegacyDeployments, Deployed, QueryNodes
<1>4. CASE At("groups") /\ rec'.step = "tostandalone" /\ rec'.spec = rec.spec /\ rec'.todo = ClusterDeployments(rec.spec)
  BY <1>4 DEF TodoAsked, TodoKinds, At, ClusterDeployments
<1>5. CASE rec'.step = rec.step /\ rec'.todo = rec.todo /\ rec'.spec = rec.spec
  BY <1>5 DEF TodoAsked, TodoKinds, At
<1>6. CASE \/ rec'.step \in {"idle", "stale", "reclaim", "groups"}
           \/ rec'.step = "loop" /\ rec'.spec = rec.spec /\ rec'.todo = GetComponentWorkloadsBySpec(rec.spec)
  BY <1>6 DEF TodoAsked, TodoKinds, At
<1>7. QED
  BY <1>1, <1>2, <1>3, <1>4, <1>5, <1>6, RecSteps

LEMMA CoveredStep ==
  ASSUME TypeOK, ProxyReplicas, [Next]_vars, Covered
  PROVE  Covered'
<1>1. CASE \E step \in {"legacy", "groups", "tostandalone"} : At(step) /\ Removes(step)
  BY <1>1, RemovesCovered
<1>2. CASE EndOfLoop /\ rec'.step = "groups"
  BY <1>2, EndCovers
<1>3. CASE Keeps("proxy") /\ rec'.step = rec.step /\ rec'.todo = rec.todo
  BY <1>3, KeepsServing DEF Covered, At
<1>4. CASE rec'.step # "groups"
  BY <1>4 DEF Covered, At
<1>5. ReconcileWorkload => rec'.step # "groups"
  BY LoopRec DEF TypeOK, At
<1>6. QED
  BY <1>1, <1>2, <1>3, <1>4, <1>5, RecSteps, StepKeeps

LEMMA ServingStep ==
  ASSUME ServingInv, [Next]_vars
  PROVE  ServingInv'
<1>1. TypeOK'
  BY TypeStep DEF ServingInv
<1>2. TodoAsked' /\ TodoKinds'
  BY TodoStep DEF ServingInv
<1>3. ProxyReplicas'
  <2>1. ASSUME NEW step \in {"legacy", "groups", "tostandalone"}, At(step), Removes(step)
        PROVE  ProxyReplicas'
    <3>1. PICK k \in rec.todo \cap Keys : deploy'[k] = None /\ \A j \in Keys \ {k} : deploy'[j] = deploy[j]
      BY <2>1, RemovesEffect DEF ServingInv
    <3>2. QED
      BY <3>1 DEF ServingInv, ProxyReplicas, Deployed, Exists
  <2>2. QED
    BY <2>1, StepKeeps DEF ServingInv
<1>4. Covered'
  BY CoveredStep DEF ServingInv
<1>5. QED
  BY <1>1, <1>2, <1>3, <1>4 DEF ServingInv

\* Only the cleanup of a cluster that became a standalone takes the last proxy
\* away.
LEMMA ProxiesServe ==
  ASSUME ServingInv, [Next]_vars, Serves("proxy")
  PROVE  Serves("proxy")' \/ (At("tostandalone") /\ Removes("tostandalone"))
<1>1. CASE At("legacy") /\ Removes("legacy")
  <2>1. PICK k \in rec.todo \cap Keys : deploy'[k] = None /\ \A j \in Keys \ {k} : deploy'[j] = deploy[j]
    BY <1>1, RemovesEffect DEF ServingInv
  <2>2. ComponentOf(k) = "querynode"
    BY <1>1, <2>1 DEF ServingInv, TodoKinds, QueryNodes
  <2>3. QED
    BY <2>1, <2>2 DEF Serves, Deployed, Exists
<1>2. CASE At("groups") /\ Removes("groups")
  BY <1>2, RemovesCovered DEF ServingInv
<1>3. CASE Keeps("proxy")
  BY <1>3, KeepsServing DEF ServingInv
<1>4. QED
  BY <1>1, <1>2, <1>3, StepKeeps DEF ServingInv

-----------------------------------------------------------------------------
(* Querynodes, as long as the operator does the scaling.                    *)

\* No user pauses the instance or takes the scaling over.
Unheld == \A c \in Configs : \A s \in c.plans \cup {c.start} : s.hold = "no"

\* The pairs that were reconciled without an error are there, with replicas.
PairsDone ==
  At("loop") /\ ~rec.failed /\ ~rec.spec.sts =>
    \A w \in GetComponentWorkloadsBySpec(rec.spec) \ rec.todo :
      w[1] = "querynode" => Exists(DesiredDeployment(w)) /\ deploy[DesiredDeployment(w)].replicas = 1

\* While querynodes lose Deployments to other groups, the pairs in their place
\* stay there, with replicas.
Replaced ==
  At("groups") /\ (\E k \in rec.todo : ComponentOf(k) = "querynode") =>
    /\ \A k \in rec.todo : k[1] \notin GetComponentWorkloadsBySpec(rec.spec)
    /\ \A w \in GetComponentWorkloadsBySpec(rec.spec) :
         w[1] = "querynode" => Exists(DesiredDeployment(w)) /\ deploy[DesiredDeployment(w)].replicas = 1

PairsInv == spec.hold = "no" /\ rec.spec.hold = "no" /\ PairsDone /\ Replaced

\* A pair leaves the loop without an error only when its current Deployment
\* has its replicas.
LEMMA LoopPairs ==
  ASSUME ServingInv, PairsDone, rec.spec.hold = "no", ReconcileWorkload
  PROVE  PairsDone'
<1>1. /\ rec'.step = "loop" /\ rec.step = "loop" /\ rec'.spec = rec.spec /\ rec'.slot = rec.slot
      /\ rec.failed => rec'.failed
  BY LoopRec DEF ServingInv, TypeOK, At
<1>2. Keeps("querynode")
  BY LoopKeeps DEF ServingInv
<1> SUFFICES ASSUME ~rec'.failed, ~rec.spec.sts,
                    NEW v \in GetComponentWorkloadsBySpec(rec.spec) \ rec'.todo, v[1] = "querynode"
             PROVE  deploy'[DesiredDeployment(v)] # None /\ deploy'[DesiredDeployment(v)].replicas = 1
  BY <1>1 DEF PairsDone, DesiredDeployment, Exists
<1> DEFINE k == DesiredDeployment(v)
<1>3. v \in Workload
  BY WorkloadsType DEF ServingInv, TypeOK, RecType
<1>4. k \in QueryNodes
  BY <1>3, DesiredType DEF ServingInv, QueryNodes, ComponentOf
<1>5. CASE v \notin rec.todo
  <2>1. Exists(k) /\ deploy[k].replicas = 1
    BY <1>1, <1>5 DEF PairsDone, At
  <2>2. QED
    BY <1>1, <1>2, <1>4, <2>1 DEF Keeps, QueryNodes, Exists
<1>6. CASE v \in rec.todo
  <2>1. PICK w \in rec.todo :
          /\ w \in Workload
          /\ \/ w = Standalone /\ IsIdleClusterStandalone(rec.spec, w) /\ ScaleDownIdleStandalone(w)
             \/ w[1] = "querynode" /\ rec.spec.sts /\ ReconcileComponentStatefulSet(w)
             \/ w[1] = "querynode" /\ ~rec.spec.sts /\ ReconcileTwoDeployments(w)
             \/ w[1] # "querynode" /\ ~IsIdleClusterStandalone(rec.spec, w) /\ ReconcileComponentDeployment(w)
    BY LoopCases DEF ServingInv, TypeOK
  <2>2. rec'.todo = rec.todo \ {w}
    <3>1. \/ rec' = [rec EXCEPT !.todo = @ \ {w}]
          \/ rec' = [rec EXCEPT !.todo = @ \ {w}, !.failed = TRUE]
          \/ rec' = [rec EXCEPT !.todo = @ \ {w}, !.failed = TRUE, !.outdated = TRUE]
      BY <2>1 DEF ScaleDownIdleStandalone, ReconcileTwoDeployments, ReconcileComponentDeployment,
                  Finished, Failed, WriteMilvus
    <3>2. QED
      BY <3>1 DEF ServingInv, TypeOK, RecType
  <2>3. v = w
    BY <1>6, <2>2
  <2>4. ReconcileTwoDeployments(v)
    BY SMT, <2>1, <2>3 DEF Standalone
  <2>5. /\ ~(\E x : Failed(x))
        /\ rec.spec.hold # "paused"
        /\ rec' # [rec EXCEPT !.todo = @ \ {w}, !.failed = TRUE, !.outdated = TRUE]
    BY DEF Failed, ServingInv, TypeOK, RecType
  <2>6. Slots(v) = {"0", "1"} /\ deploy[<<v, IF rec.slot[v] = "1" THEN 1 ELSE 0>>].replicas = 1 /\ deploy' = deploy
    BY <2>3, <2>4, <2>5 DEF ReconcileTwoDeployments, WriteMilvus
  <2>7. k = <<v, IF rec.slot[v] = "1" THEN 1 ELSE 0>>
    BY DEF DesiredDeployment, ComponentUsesTwoDeployments
  <2>8. Exists(k)
    BY <2>6, <2>7 DEF Slots
  <2>9. QED
    BY <1>1, <2>6, <2>7, <2>8 DEF Exists
<1>7. QED
  BY <1>5, <1>6

LEMMA ReplacedStays ==
  ASSUME TypeOK, Replaced, At("groups"), \E k \in rec.todo : ComponentOf(k) = "querynode",
         \/ Removes("groups")
         \/ /\ Keeps("querynode") /\ rec'.spec = rec.spec /\ rec'.slot = rec.slot /\ rec'.todo = rec.todo
  PROVE  /\ \A k \in rec'.todo : k[1] \notin GetComponentWorkloadsBySpec(rec'.spec)
         /\ \A w \in GetComponentWorkloadsBySpec(rec'.spec) :
              w[1] = "querynode" =>
                Exists(DesiredDeployment(w))' /\ deploy'[DesiredDeployment(w)'].replicas = 1
<1>1. /\ rec'.todo \subseteq rec.todo /\ rec'.spec = rec.spec /\ rec'.slot = rec.slot
      /\ Keeps("querynode") \/ \A j \in Keys : j \notin rec.todo => deploy'[j] = deploy[j]
  <2>1. CASE Removes("groups")
    <3>1. PICK k \in rec.todo \cap Keys :
            /\ \A j \in Keys \ {k} : deploy'[j] = deploy[j]
            /\ rec'.todo = rec.todo \ {k} /\ rec'.spec = rec.spec /\ rec'.slot = rec.slot
      BY <2>1, RemovesEffect
    <3>2. QED
      BY <3>1
  <2>2. QED
    BY <2>1
<1>2. ASSUME NEW w \in GetComponentWorkloadsBySpec(rec.spec), w[1] = "querynode"
      PROVE  Exists(DesiredDeployment(w))' /\ deploy'[DesiredDeployment(w)'].replicas = 1
  <2>1. Exists(DesiredDeployment(w)) /\ deploy[DesiredDeployment(w)].replicas = 1
    BY <1>2 DEF Replaced
  <2>2. w \in Workload
    BY WorkloadsType DEF TypeOK, RecType
  <2>3. DesiredDeployment(w) \in Keys /\ DesiredDeployment(w)[1] = w /\ ComponentOf(DesiredDeployment(w)) = "querynode"
    BY <1>2, <2>2, DesiredType DEF ComponentOf
  <2>4. DesiredDeployment(w) \notin rec.todo
    BY <1>2, <2>3 DEF Replaced
  <2>5. DesiredDeployment(w)' = DesiredDeployment(w)
    BY <1>1 DEF DesiredDeployment
  <2>6. QED
    BY <1>1, <2>1, <2>3, <2>4, <2>5 DEF Keeps, Exists
<1>3. QED
  BY <1>1, <1>2 DEF Replaced

\* The loop has come to its end without an error.
LEMMA EndReplaces ==
  ASSUME KindInv, ServingInv, PairsInv, EndOfLoop, rec'.step = "groups"
  PROVE  Replaced'
<1>1. At("loop") /\ rec.todo = {} /\ deploy' = deploy
  BY DEF EndOfLoop, objects
<1>2. ~rec.failed /\ \E todo \in {StaleDeployments(rec.spec), {}} : Enter("groups", todo)
  BY DEF EndOfLoop, Fail, ServingInv, TypeOK, RecType
<1>3. rec'.todo \subseteq StaleDeployments(rec.spec) /\ rec'.spec = rec.spec /\ rec'.slot = rec.slot
  <2>1. PICK todo \in {StaleDeployments(rec.spec), {}} : Enter("groups", todo)
    BY <1>2
  <2>2. rec'.todo = todo /\ rec'.spec = rec.spec /\ rec'.slot = rec.slot
    BY <2>1 DEF Enter, ServingInv, TypeOK, RecType
  <2>3. QED
    BY <2>1, <2>2
<1> SUFFICES ASSUME NEW k \in rec'.todo, ComponentOf(k) = "querynode"
             PROVE  /\ \A j \in rec'.todo : j[1] \notin GetComponentWorkloadsBySpec(rec.spec)
                    /\ \A w \in GetComponentWorkloadsBySpec(rec.spec) :
                         w[1] = "querynode" => Exists(DesiredDeployment(w)) /\ deploy[DesiredDeployment(w)].replicas = 1
  BY <1>1, <1>3 DEF Replaced, DesiredDeployment, Exists
<1>4. k \in QueryNodes /\ Exists(k)
  BY <1>3 DEF StaleDeployments, Deployed, QueryNodes
<1>5. PICK v \in GetComponentWorkloadsBySpec(rec.spec) : v[1] = "querynode"
  BY <1>3 DEF StaleDeployments
<1>6. rec.spec.mode = "cluster"
  BY SMT, <1>5 DEF GetComponentWorkloadsBySpec, Standalone
<1>7. ~rec.spec.sts
  BY <1>1, <1>4, <1>6 DEF KindInv, ToSets, At, Cleaned
<1>8. \A w \in GetComponentWorkloadsBySpec(rec.spec) :
        w[1] = "querynode" => Exists(DesiredDeployment(w)) /\ deploy[DesiredDeployment(w)].replicas = 1
  BY <1>1, <1>2, <1>7 DEF PairsInv, PairsDone
<1>9. QED
  BY <1>3, <1>8 DEF StaleDeployments

\* Unless they are to be a StatefulSet, or the cluster is left.
LEMMA PairsServe ==
  ASSUME ServingInv, PairsInv, [Next]_vars, rec.spec.mode = "cluster", ~rec.spec.sts, Serves("querynode")
  PROVE  Serves("querynode")' \/ Scheduled("querynode")'
<1>1. CASE At("legacy") /\ Removes("legacy")
  <2>1. rec.todo # {}
    BY <1>1 DEF Removes
  <2>2. QED
    BY <1>1, <2>1 DEF ServingInv, TodoKinds
<1>2. CASE At("groups") /\ Removes("groups") /\ \E k \in rec.todo : ComponentOf(k) = "querynode"
  <2>1. \A w \in GetComponentWorkloadsBySpec(rec'.spec) :
          w[1] = "querynode" => Exists(DesiredDeployment(w))' /\ deploy'[DesiredDeployment(w)'].replicas = 1
    BY <1>2, ReplacedStays DEF ServingInv, PairsInv
  <2>2. 1 > 0
    BY SMT
  <2>3. QED
    BY <2>1, <2>2 DEF Scheduled
<1>3. CASE At("groups") /\ Removes("groups") /\ ~\E k \in rec.todo : ComponentOf(k) = "querynode"
  <2>1. PICK k \in rec.todo \cap Keys : \A j \in Keys \ {k} : deploy'[j] = deploy[j]
    BY <1>3, RemovesEffect DEF ServingInv
  <2>2. \A j \in Deployed : ComponentOf(j) = "querynode" => j \in Deployed' /\ deploy'[j] = deploy[j]
    BY <1>3, <2>1 DEF Deployed, Exists
  <2>3. QED
    BY <2>2 DEF Serves
<1>4. CASE At("tostandalone") /\ Removes("tostandalone")
  <2>1. rec.todo # {}
    BY <1>4 DEF Removes
  <2>2. QED
    BY <1>4, <2>1 DEF ServingInv, TodoKinds
<1>5. CASE Keeps("querynode")
  BY <1>5, KeepsServing DEF ServingInv
<1>6. QED
  BY <1>1, <1>2, <1>3, <1>4, <1>5, StepKeeps DEF ServingInv

LEMMA PairsStep ==
  ASSUME Unheld, KindInv, ServingInv, PairsInv, [Next]_vars
  PROVE  PairsInv'
<1>1. spec'.hold = "no"
  <2>1. spec' = spec \/ spec' \in config.plans
    BY SpecSteps DEF ServingInv, Edit
  <2>2. QED
    BY <2>1 DEF Unheld, PairsInv, ServingInv, TypeOK
<1>2. rec'.spec.hold = "no"
  BY SpecSteps DEF ServingInv, PairsInv
<1>3. PairsDone'
  <2>1. CASE ReconcileWorkload
    BY <2>1, LoopPairs DEF PairsInv
  <2>2. CASE /\ rec'.step = rec.step /\ rec'.todo = rec.todo /\ rec'.spec = rec.spec
             /\ rec'.slot = rec.slot /\ rec'.failed = rec.failed
             /\ Keeps("querynode")
    <3> SUFFICES ASSUME rec'.step = "loop", ~rec.failed, ~rec.spec.sts,
                        NEW w \in GetComponentWorkloadsBySpec(rec.spec) \ rec.todo, w[1] = "querynode"
                 PROVE  Exists(DesiredDeployment(w))' /\ deploy'[DesiredDeployment(w)].replicas = 1
      BY <2>2 DEF PairsDone, DesiredDeployment, At
    <3>1. Exists(DesiredDeployment(w)) /\ deploy[DesiredDeployment(w)].replicas = 1
      BY <2>2 DEF PairsInv, PairsDone, At
    <3>2. w \in Workload
      BY WorkloadsType DEF ServingInv, TypeOK, RecType
    <3>3. DesiredDeployment(w) \in Keys /\ ComponentOf(DesiredDeployment(w)) = "querynode"
      BY <3>2, DesiredType DEF ServingInv, ComponentOf
    <3>4. DesiredDeployment(w)' = DesiredDeployment(w)
      BY <2>2 DEF DesiredDeployment
    <3>5. QED
      BY <2>2, <3>1, <3>3, <3>4 DEF Keeps, Exists
  <2>3. CASE rec'.step = "loop" /\ rec'.spec = rec.spec /\ rec'.todo = GetComponentWorkloadsBySpec(rec.spec)
    BY <2>3 DEF PairsDone
  <2>4. CASE rec'.step # "loop"
    BY <2>4 DEF PairsDone, At
  <2>5. ASSUME NEW step \in {"legacy", "groups", "tostandalone"}, At(step), Removes(step)
        PROVE  rec'.step # "loop"
    BY <2>5, RemovesEffect DEF ServingInv
  <2>6. QED
    BY <2>1, <2>2, <2>3, <2>4, <2>5, RecSteps, StepKeeps DEF ServingInv
<1>4. Replaced'
  <2>1. CASE At("groups") /\ Removes("groups")
    <3>1. rec'.todo \subseteq rec.todo
      BY <2>1, RemovesEffect DEF ServingInv
    <3>2. QED
      BY <2>1, <3>1, ReplacedStays DEF ServingInv, PairsInv, Replaced
  <2>2. CASE /\ rec'.step = rec.step /\ rec'.todo = rec.todo /\ rec'.spec = rec.spec /\ rec'.slot = rec.slot
             /\ Keeps("querynode")
    BY <2>2, ReplacedStays DEF ServingInv, PairsInv, Replaced, At
  <2>3. CASE EndOfLoop /\ rec'.step = "groups"
    BY <2>3, EndReplaces
  <2>4. CASE rec'.step # "groups"
    BY <2>4 DEF Replaced, At
  <2>5. ASSUME NEW step \in {"legacy", "tostandalone"}, At(step), Removes(step)
        PROVE  rec'.step # "groups"
    BY <2>5, RemovesEffect DEF ServingInv
  <2>6. ReconcileWorkload => rec'.step # "groups"
    BY LoopRec DEF ServingInv, TypeOK, At
  <2>7. QED
    BY <2>1, <2>2, <2>3, <2>4, <2>5, <2>6, RecSteps, StepKeeps DEF ServingInv
<1>5. QED
  BY <1>1, <1>2, <1>3, <1>4 DEF PairsInv

LEMMA PairsInit ==
  ASSUME Unheld, Init
  PROVE  PairsInv
<1>1. spec.hold = "no"
  BY DEF Init, Unheld
<1>2. rec.step = "idle" /\ rec.spec = spec
  BY DEF Init, NoRec
<1>3. QED
  BY <1>1, <1>2 DEF PairsInv, PairsDone, Replaced, At

\* As long as the operator does the scaling, proxies that serve keep serving
\* while groups come and go, and querynodes do or have every pair in their place
\* scheduled: cleanupStaleDeploymentGroups removes Deployments only after that.
\* A paused instance loses its querynodes with nothing in their place (the
\* configuration workloads_paused), hence the assumption.
THEOREM ServingAlwaysKept == ASSUME Unheld PROVE Spec => ServingKept
<1> DEFINE Inv == KindInv /\ ServingInv /\ PairsInv
           Kept == \A c \in {"proxy", "querynode"} :
                     Serves(c) /\ rec.spec.mode = "cluster" /\ ~(rec.spec.sts /\ c = "querynode")
                       => Serves(c)' \/ (c = "querynode" /\ Scheduled(c)')
<1>1. Init => Inv
  BY KindInit, ServingInit, PairsInit
<1>2. Inv /\ [Next]_vars => Inv'
  BY KindStep, ServingStep, PairsStep
<1>3. Inv /\ [Next]_vars => [Kept]_vars
  <2> SUFFICES ASSUME Inv, [Next]_vars PROVE Kept
    OBVIOUS
  <2>1. ASSUME Serves("proxy"), rec.spec.mode = "cluster" PROVE Serves("proxy")'
    <3>1. ~(At("tostandalone") /\ Removes("tostandalone"))
      BY <2>1 DEF ServingInv, TodoKinds, Removes
    <3>2. QED
      BY <2>1, <3>1, ProxiesServe
  <2>2. QED
    BY <2>1, PairsServe
<1> HIDE DEF Inv
<1>4. QED
  BY <1>1, <1>2, <1>3, PTL DEF Spec, ServingKept

-----------------------------------------------------------------------------
(* The Service keeps an endpoint.                                           *)

\* The modes as the documentation has them: a standalone runs one pod, and an
\* instance that an old operator made as a standalone moves to cluster mode.
DocumentedModes ==
  \A c \in Configs :
    /\ \A s \in c.plans \cup {c.start} : s.mode = "standalone" => s.standalone = 1
    /\ c.old => c.start.mode = "standalone" /\ \A s \in c.plans : s.mode = "cluster"

\* The user has given the standalone up.
GaveUp(s) == s.mode = "cluster" /\ s.standalone = 0

AloneReady == Exists(AloneKey) /\ deploy[AloneKey].ready
ProxyThere == \E k \in Deployed : ComponentOf(k) = "proxy"

Specs == \A s \in {spec, rec.spec} : s.mode = "standalone" => s.standalone = 1

\* The Service selects the label only after the pods have it.
Labels ==
  /\ rec.labelled => labelled
  /\ service \in {"label", "standalone"}
  /\ service = "label" => rec.labelled
  /\ labelled => \A k \in Deployed : IsService(k[1]) => deploy[k].tagged
  /\ \A k \in Deployed : deploy[k].tagged => IsService(k[1])

\* Until then the instance is one that an old operator made, and keeps its
\* standalone.
OldService ==
  /\ service = "standalone" => config.old /\ Exists(AloneKey) /\ ~GaveUp(spec) /\ ~GaveUp(rec.spec)
  /\ config.old /\ spec.mode = "standalone" => rec.spec.mode = "standalone"
  /\ config.old /\ rec.spec.mode = "standalone" => ~ProxyThere

\* An old instance that has got proxies is not left alone before its Service
\* selects the label.
Labelling ==
  /\ ~At("idle") /\ rec.labelled /\ ~rec.service => service = "label"
  /\ At("loop") /\ ~rec.labelled /\ IsChangingMode(rec.spec) => rec.failed \/ Standalone \in rec.todo
  /\ service # "label" /\ ProxyThere =>
       \/ due
       \/ rec.labelled /\ rec.service
       \/ /\ ~rec.labelled /\ IsChangingMode(rec.spec)
          /\ rec.step \in {"legacy", "stale", "reclaim", "loop"}

\* A standalone that was never without replicas is available only when it is
\* ready.
AloneHonest ==
  Exists(AloneKey) =>
    /\ deploy[AloneKey].ready => deploy[AloneKey].replicas = 1
    /\ deploy[AloneKey].idled \/ (deploy[AloneKey].replicas = 1 /\ (deploy[AloneKey].available => deploy[AloneKey].ready))

\* The standalone serves, or was without replicas before.
AloneCovers == Exists(AloneKey) /\ (deploy[AloneKey].ready \/ deploy[AloneKey].idled)

\* The proxies serve before the standalone goes, and the standalone before the
\* proxies go.
Handover ==
  /\ AloneHonest
  /\ At("tostandalone") /\ rec.todo # {} => AloneCovers /\ AloneKey \notin rec.todo
  /\ At("groups") => AloneKey \notin rec.todo
  /\ GaveUp(spec) => At("idle") \/ GaveUp(rec.spec)
  /\ Exists(AloneKey) /\ (GaveUp(spec) \/ (~At("idle") /\ GaveUp(rec.spec))) => Serves("proxy")

EndpointInv == ServingInv /\ Specs /\ Labels /\ OldService /\ Labelling /\ Handover

LEMMA AloneKeys ==
  /\ AloneKey \in Keys /\ AloneKey[1] = Standalone /\ ComponentOf(AloneKey) = "standalone"
  /\ \A k \in Keys : ComponentOf(k) = "standalone" => k = AloneKey
  /\ \A k \in Keys : IsService(k[1]) <=> k = AloneKey \/ ComponentOf(k) = "proxy"
<1>1. Standalone \in Workload /\ Standalone[1] = "standalone"
  BY DEF Workload, Standalone
<1>2. AloneKey \in Keys /\ AloneKey[1] = Standalone /\ ComponentOf(AloneKey) = "standalone"
  BY <1>1, KeysType DEF AloneKey, ComponentOf
<1>3. ASSUME NEW k \in Keys, ComponentOf(k) = "standalone"
      PROVE  k = AloneKey
  <2>1. k[1] = Standalone
    BY <1>3, KeyParts, WorkloadParts DEF ComponentOf
  <2>2. k[2] = 0
    BY SMT, <1>1, <2>1, KeyParts DEF ComponentUsesTwoDeployments
  <2>3. QED
    BY <2>1, <2>2, KeyParts DEF AloneKey
<1>4. QED
  BY SMT, <1>2, <1>3 DEF IsService, ComponentOf

\* What the Service selects is the standalone, and with the label the proxies
\* as well.
LEMMA EndpointMeans ==
  ASSUME Labels
  PROVE  HasEndpoint <=> AloneReady \/ (service = "label" /\ Serves("proxy"))
<1>1. CASE service = "label"
  <2>1. \A k \in Deployed : deploy[k].tagged <=> k = AloneKey \/ ComponentOf(k) = "proxy"
    BY <1>1, AloneKeys DEF Labels, Deployed
  <2>2. QED
    BY <1>1, <2>1, AloneKeys DEF HasEndpoint, AloneReady, Serves, Deployed
<1>2. CASE service = "standalone"
  BY <1>2, AloneKeys DEF HasEndpoint, AloneReady, Deployed
<1>3. QED
  BY <1>1, <1>2 DEF Labels

\* How a step changes the copy of the Milvus that the reconcile works on.
LEMMA CopySteps ==
  ASSUME TypeOK, [Next]_vars
  PROVE  /\ labelled => labelled'
         /\ \/ StartReconcile
            \/ Crash
            \/ ReconcileServices
            \/ /\ rec'.labelled = rec.labelled /\ rec'.service = rec.service /\ rec'.spec = rec.spec
               /\ service' = service /\ (due => due') /\ (At("idle") => At("idle")')
<1> USE DEF TypeOK, RecType, crd, objects
<1>1. CASE UNCHANGED vars
  BY <1>1 DEF vars, At
<1>2. CASE StartReconcile \/ Crash \/ ReconcileServices
  BY <1>2 DEF StartReconcile, Crash, ReconcileServices
<1>3. CASE DeleteLegacyComponentDeployments
  BY ZenonT(60), <1>3 DEF DeleteLegacyComponentDeployments, Enter, At
<1>4. CASE CleanupStaleStatefulSets
  BY ZenonT(60), <1>4 DEF CleanupStaleStatefulSets, Enter, At
<1>5. CASE DeletePVCsForStatefulSet
  BY SMT, <1>5 DEF DeletePVCsForStatefulSet, At
<1>6. CASE ReconcileWorkload
  <2>1. PICK w \in rec.todo :
          \/ ScaleDownIdleStandalone(w) \/ ReconcileComponentStatefulSet(w)
          \/ ReconcileTwoDeployments(w) \/ ReconcileComponentDeployment(w)
    BY <1>6, LoopCases
  <2>2. labelled => labelled'
    BY <2>1 DEF ScaleDownIdleStandalone, ReconcileComponentStatefulSet, ReconcileTwoDeployments,
                ReconcileComponentDeployment, WriteMilvus
  <2>3. service' = service /\ (due => due')
    BY <1>6 DEF ReconcileWorkload
  <2>4. QED
    BY <1>6, <2>2, <2>3, LoopRec DEF At
<1>7. CASE EndOfLoop
  <2>1. /\ labelled' = labelled /\ service' = service /\ (due => due') /\ At("loop")
        /\ \/ rec' = [rec EXCEPT !.step = "idle", !.todo = {}, !.failed = TRUE]
           \/ \E todo : rec' = [rec EXCEPT !.step = "groups", !.todo = todo]
    BY <1>7 DEF EndOfLoop, Fail, Enter
  <2>2. QED
    BY ZenonT(60), <2>1 DEF At
<1>8. CASE CleanupStaleDeploymentGroups
  BY ZenonT(60), <1>8 DEF CleanupStaleDeploymentGroups, Enter, At
<1>9. CASE CleanupDeploymentClusterToStandalone
  BY ZenonT(60), <1>9 DEF CleanupDeploymentClusterToStandalone, Enter, At
<1>10. CASE \E s \in config.plans : Edit(s)
  <2>1. rec' = [rec EXCEPT !.outdated = TRUE] /\ labelled' = labelled /\ service' = service /\ due' = TRUE
    BY <1>10 DEF Edit
  <2>2. QED
    BY <2>1 DEF At
<1>11. CASE \E k \in Keys : Reports(k)
  BY SMT, <1>11 DEF Reports, BecomeReady, Observe, At
<1>12. CASE \E g \in Names, i \in Ordinals : ProvisionClaim(g, i)
  BY SMT, <1>12 DEF ProvisionClaim, At
<1>13. QED
  BY <1>1, <1>2, <1>3, <1>4, <1>5, <1>6, <1>7, <1>8, <1>9, <1>10, <1>11, <1>12 DEF Next, Reconcile, Reports

\* A spec that has not given the standalone up asks for its pod.
LEMMA AloneAsked ==
  ASSUME TypeOK, Specs, ~GaveUp(rec.spec)
  PROVE  rec.spec.standalone = 1
  BY SMT DEF TypeOK, RecType, SpecType, Specs, GaveUp

\* What the loop does to the Deployment of the standalone.
LEMMA LoopOnAlone ==
  ASSUME TypeOK, Specs, ReconcileWorkload
  PROVE  \/ deploy'[AloneKey] = deploy[AloneKey]
         \/ ~Exists(AloneKey) /\ ~GaveUp(rec.spec) /\ deploy'[AloneKey] = NewDeploy(Standalone, 1)
         \/ Exists(AloneKey) /\ deploy'[AloneKey] = [deploy[AloneKey] EXCEPT !.tagged = TRUE]
         \/ /\ Exists(AloneKey) /\ ~GaveUp(rec.spec) /\ deploy[AloneKey].replicas # 1
            /\ deploy'[AloneKey] = Scaled(deploy[AloneKey], 1)
         \/ /\ Exists(AloneKey) /\ GaveUp(rec.spec)
            /\ deploy'[AloneKey] = Scaled(deploy[AloneKey], 0)
<1>1. PICK w \in rec.todo :
        /\ w \in Workload
        /\ \/ w = Standalone /\ IsIdleClusterStandalone(rec.spec, w) /\ ScaleDownIdleStandalone(w)
           \/ w[1] = "querynode" /\ rec.spec.sts /\ ReconcileComponentStatefulSet(w)
           \/ w[1] = "querynode" /\ ~rec.spec.sts /\ ReconcileTwoDeployments(w)
           \/ w[1] # "querynode" /\ ~IsIdleClusterStandalone(rec.spec, w) /\ ReconcileComponentDeployment(w)
  BY LoopCases DEF TypeOK
<1>2. AloneKey \in Keys /\ AloneKey[1] = Standalone /\ AloneKey = <<Standalone, 0>>
  BY AloneKeys DEF AloneKey
<1>3. <<w, 0>> \in Keys
  BY <1>1, KeysType
<1>4. deploy \in [Keys -> DeployType \cup {None}]
  BY DEF TypeOK, ObjectType
<1> DEFINE a == AloneKey
<1>5. ASSUME NEW r, Exists(a)
      PROVE  [deploy EXCEPT ![a] = Scaled(@, r)][a] = Scaled(deploy[a], r)
  BY <1>2, <1>4
<1>6. CASE w = Standalone /\ IsIdleClusterStandalone(rec.spec, w) /\ ScaleDownIdleStandalone(w)
  <2>1. GaveUp(rec.spec) /\ <<w, 0>> = a
    BY <1>2, <1>6 DEF IsIdleClusterStandalone, GaveUp
  <2>2. deploy' = deploy \/ (Exists(a) /\ deploy' = [deploy EXCEPT ![a] = Scaled(@, 0)])
    BY <1>6, <2>1 DEF ScaleDownIdleStandalone, Exists
  <2>3. QED
    BY <1>5, <2>1, <2>2
<1>7. CASE ReconcileComponentStatefulSet(w)
  BY <1>7 DEF ReconcileComponentStatefulSet
<1>8. CASE w[1] = "querynode" /\ ReconcileTwoDeployments(w)
  <2>1. <<w, 1>> \in Keys
    BY <1>1, <1>8, KeysType DEF ComponentUsesTwoDeployments
  <2>2. \/ deploy' = deploy
        \/ \E r \in {0, 1} : \E d : deploy' = [deploy EXCEPT ![<<w, r>>] = d]
    BY <1>8 DEF ReconcileTwoDeployments
  <2>3. \A r \in {0, 1} : a # <<w, r>>
    BY SMT, <1>2, <1>8 DEF Standalone
  <2>4. QED
    BY <1>2, <1>3, <1>4, <2>1, <2>2, <2>3
<1>9. CASE /\ w[1] # "querynode" /\ ~IsIdleClusterStandalone(rec.spec, w) /\ ReconcileComponentDeployment(w)
           /\ deploy' = LabelServicePods
  <2>1. IsService(a[1])
    BY <1>2 DEF IsService, Standalone
  <2>2. LabelServicePods[a] = IF Exists(a) THEN [deploy[a] EXCEPT !.tagged = TRUE] ELSE deploy[a]
    BY <1>2, <2>1 DEF LabelServicePods
  <2>3. QED
    BY <1>9, <2>2
<1>10. CASE /\ w[1] # "querynode" /\ ~IsIdleClusterStandalone(rec.spec, w) /\ ReconcileComponentDeployment(w)
            /\ deploy' # LabelServicePods
  <2>1. \/ deploy' = deploy
        \/ ~Exists(<<w, 0>>) /\ deploy' = [deploy EXCEPT ![<<w, 0>>] = NewDeploy(w, Replicas(rec.spec, w))]
        \/ /\ Exists(<<w, 0>>) /\ deploy[<<w, 0>>].replicas # Replicas(rec.spec, w)
           /\ deploy' = [deploy EXCEPT ![<<w, 0>>] = Scaled(@, Replicas(rec.spec, w))]
    BY <1>10 DEF ReconcileComponentDeployment
  <2>2. CASE w = Standalone
    <3>1. ~GaveUp(rec.spec)
      BY <1>10, <2>2 DEF IsIdleClusterStandalone, GaveUp
    <3>2. Replicas(rec.spec, w) = 1
      BY <2>2, <3>1, AloneAsked DEF Replicas
    <3>3. <<w, 0>> = a
      BY <1>2, <2>2
    <3>4. \/ deploy' = deploy
          \/ ~Exists(a) /\ deploy' = [deploy EXCEPT ![a] = NewDeploy(w, 1)]
          \/ /\ Exists(a) /\ deploy[a].replicas # 1
             /\ deploy' = [deploy EXCEPT ![a] = Scaled(@, 1)]
      BY <2>1, <3>2, <3>3
    <3>5. QED
      BY <1>2, <1>4, <1>5, <2>2, <3>1, <3>4
  <2>3. CASE w # Standalone
    <3>1. a # <<w, 0>>
      BY SMT, <1>2, <2>3
    <3>2. QED
      BY <1>2, <1>3, <1>4, <2>1, <3>1
  <2>4. QED
    BY <2>2, <2>3
<1>11. QED
  BY <1>1, <1>6, <1>7, <1>8, <1>9, <1>10

\* The standalone is never deleted; it stops to be ready only in the loop of a
\* reconcile whose spec has given it up, and is never made by such a one.
LEMMA AloneStep ==
  ASSUME ServingInv, Specs, Handover, [Next]_vars
  PROVE  /\ Exists(AloneKey) => Exists(AloneKey)' /\ (deploy[AloneKey].idled => deploy'[AloneKey].idled)
         /\ AloneReady => AloneReady' \/ (At("loop") /\ ReconcileWorkload /\ GaveUp(rec.spec))
         /\ AloneHonest'
         /\ Exists(AloneKey)' => Exists(AloneKey) \/ (At("loop") /\ ~GaveUp(rec.spec))
<1> DEFINE a == AloneKey
<1>1. a \in Keys /\ ComponentOf(a) = "standalone"
  BY AloneKeys
<1>2. Exists(a) => deploy[a] \in DeployType
  BY <1>1 DEF ServingInv, TypeOK, ObjectType, Exists
<1>3. Exists(a) => /\ deploy[a].ready => deploy[a].replicas = 1
                   /\ deploy[a].idled \/ (deploy[a].replicas = 1 /\ (deploy[a].available => deploy[a].ready))
  BY DEF Handover, AloneHonest
<1>4. CASE deploy'[a] = deploy[a]
  BY <1>3, <1>4 DEF Exists, AloneReady, AloneHonest, AloneKey
<1>5. CASE ReconcileWorkload
  <2>1. At("loop") /\ 0 \in 0..1 /\ 1 \in 0..1
    BY SMT, <1>5 DEF ReconcileWorkload
  <2>2. CASE ~Exists(a) /\ ~GaveUp(rec.spec) /\ deploy'[a] = NewDeploy(Standalone, 1)
    <3>1. LET d == NewDeploy(Standalone, 1)
          IN  d.ready = FALSE /\ d.replicas = 1 /\ d.available = FALSE
      BY <2>1, NewDeployType
    <3>2. QED
      BY <2>1, <2>2, <3>1 DEF AloneReady, AloneHonest, Exists, AloneKey
  <2>3. CASE Exists(a) /\ deploy'[a] = [deploy[a] EXCEPT !.tagged = TRUE]
    <3>1. /\ deploy'[a] \in DeployType /\ deploy'[a].ready = deploy[a].ready
          /\ deploy'[a].replicas = deploy[a].replicas
          /\ deploy'[a].available = deploy[a].available /\ deploy'[a].idled = deploy[a].idled
      BY <1>2, <2>3 DEF DeployType
    <3>2. Exists(a)'
      BY <3>1, NoneAssumption DEF Exists
    <3>3. QED
      BY <1>3, <2>3, <3>1, <3>2 DEF AloneReady, AloneHonest, AloneKey
  <2>4. CASE /\ Exists(a) /\ \E r \in 0..1 : deploy'[a] = Scaled(deploy[a], r)
             /\ (GaveUp(rec.spec) /\ deploy'[a] = Scaled(deploy[a], 0)) \/ deploy[a].replicas # 1
    <3>1. PICK r \in 0..1 : deploy'[a] = Scaled(deploy[a], r)
      BY <2>4
    <3> DEFINE d == Scaled(deploy[a], r)
    <3>2. d \in DeployType /\ d.ready = FALSE /\ (deploy[a].idled => d.idled)
      BY <1>2, <2>4, ScaledType
    <3>3. deploy'[a] \in DeployType /\ deploy'[a].ready = FALSE /\ (deploy[a].idled => deploy'[a].idled)
      BY <3>1, <3>2
    <3>4. Exists(a)'
      BY <3>3, NoneAssumption DEF Exists
    <3>5. deploy[a].ready => GaveUp(rec.spec)
      BY <1>3, <2>4
    <3>6. deploy'[a].idled
      <4>1. CASE deploy'[a] = Scaled(deploy[a], 0)
        <5>1. Scaled(deploy[a], 0).idled
          BY <1>2, <2>1, <2>4, ScaledType
        <5>2. QED
          BY <4>1, <5>1
      <4>2. QED
        BY <1>3, <2>4, <3>3, <4>1
    <3>7. QED
      BY <1>5, <2>1, <2>4, <3>3, <3>4, <3>5, <3>6 DEF AloneReady, AloneHonest, AloneKey
  <2>5. QED
    BY <1>4, <1>5, <2>1, <2>2, <2>3, <2>4, LoopOnAlone DEF ServingInv
<1>6. ASSUME NEW k \in Keys, Reports(k)
      PROVE  /\ Exists(a) => Exists(a)' /\ (deploy[a].idled => deploy'[a].idled)
             /\ AloneReady => AloneReady'
             /\ AloneHonest'
             /\ Exists(a)' => Exists(a)
  <2>1. /\ Exists(a) <=> Exists(a)'
        /\ Exists(a) => /\ deploy'[a].replicas = deploy[a].replicas /\ deploy'[a].idled = deploy[a].idled
                        /\ deploy[a].ready => deploy'[a].ready
                        /\ deploy'[a].available => deploy[a].available \/ deploy'[a].ready
    BY <1>1, <1>6, ReportKeeps DEF ServingInv
  <2>2. Exists(a) /\ deploy'[a].ready => deploy[a].replicas = 1
    <3>1. CASE deploy'[a] = deploy[a]
      BY <1>3, <3>1
    <3>2. CASE BecomeReady(a)
      BY SMT, <1>2, <3>2 DEF BecomeReady, DeployType
    <3>3. CASE Observe(a)
      <4>1. deploy[a] \in DeployType /\ deploy'[a] = [deploy[a] EXCEPT !.available = FALSE]
        BY <1>1, <1>2, <3>3 DEF Observe, ServingInv, TypeOK, ObjectType
      <4>2. deploy'[a].ready = deploy[a].ready
        BY <4>1, ReportType
      <4>3. QED
        BY <1>3, <4>2
    <3>4. k # a => deploy'[a] = deploy[a]
      BY <1>1, <1>6 DEF Reports, BecomeReady, Observe, ServingInv, TypeOK, ObjectType
    <3>5. QED
      BY <1>6, <3>1, <3>2, <3>3, <3>4 DEF Reports
  <2>3. QED
    BY <1>3, <2>1, <2>2 DEF AloneReady, AloneHonest, Exists, AloneKey
<1>7. ASSUME NEW step \in {"legacy", "groups", "tostandalone"}, At(step), Removes(step)
      PROVE  deploy'[a] = deploy[a]
  <2>1. PICK k \in rec.todo \cap Keys : deploy'[k] = None /\ \A j \in Keys \ {k} : deploy'[j] = deploy[j]
    BY <1>7, RemovesEffect DEF ServingInv
  <2>2. a \notin rec.todo
    BY <1>1, <1>7, <2>1 DEF ServingInv, TodoKinds, QueryNodes, Handover
  <2>3. QED
    BY <1>1, <2>1, <2>2
<1>8. \/ deploy' = deploy \/ ReconcileWorkload \/ (\E k \in Keys : Reports(k))
      \/ \E step \in {"legacy", "groups", "tostandalone"} : At(step) /\ Removes(step)
  BY DeploySteps DEF ServingInv
<1>9. QED
  BY <1>4, <1>5, <1>6, <1>7, <1>8

\* It goes on to cover for the proxies outside of the loop.
LEMMA AloneGoesOn ==
  ASSUME ServingInv, Specs, Handover, [Next]_vars, ~At("loop"), AloneCovers
  PROVE  AloneCovers'
<1>1. Exists(AloneKey) /\ (AloneReady \/ deploy[AloneKey].idled)
  BY DEF AloneCovers, AloneReady
<1>2. Exists(AloneKey)' /\ (AloneReady' \/ deploy'[AloneKey].idled)
  BY <1>1, AloneStep
<1>3. QED
  BY <1>2 DEF AloneCovers, AloneReady, AloneKey

\* The pods of a service component are made with the label, and no step takes
\* a label away.
LEMMA LoopTag ==
  ASSUME TypeOK, ProxyReplicas, Specs, ReconcileWorkload, NEW k \in Keys, Exists(k)'
  PROVE  \/ Exists(k) /\ deploy'[k].tagged = deploy[k].tagged
         \/ IsService(k[1]) /\ deploy'[k].tagged = TRUE
         \/ ~IsService(k[1]) /\ deploy'[k].tagged = FALSE
<1>1. Exists(k) => deploy[k] \in DeployType
  BY DEF TypeOK, ObjectType, Exists
<1>2. CASE Exists(k) /\ deploy'[k] = [deploy[k] EXCEPT !.tagged = TRUE] /\ IsService(k[1])
  BY <1>1, <1>2 DEF DeployType
<1>3. CASE \E r \in 0..1 : deploy'[k] = NewDeploy(k[1], r)
  <2>1. PICK r \in 0..1 : deploy'[k] = NewDeploy(k[1], r)
    BY <1>3
  <2>2. /\ IsService(k[1]) => NewDeploy(k[1], r).tagged = TRUE
        /\ ~IsService(k[1]) => NewDeploy(k[1], r).tagged = FALSE
    BY NewDeployType
  <2>3. QED
    BY <2>1, <2>2
<1>4. CASE Exists(k) /\ \E r \in 0..1 : deploy'[k] = Scaled(deploy[k], r)
  <2>1. PICK r \in 0..1 : deploy'[k] = Scaled(deploy[k], r)
    BY <1>4
  <2>2. Scaled(deploy[k], r).tagged = deploy[k].tagged
    BY <1>1, <1>4, ScaledType
  <2>3. QED
    BY <1>4, <2>1, <2>2
<1>5. CASE Exists(k) /\ deploy'[k] = [deploy[k] EXCEPT !.replicas = 1]
  BY <1>1, <1>5 DEF DeployType
<1>6. CASE deploy'[k] = deploy[k]
  BY <1>6 DEF Exists
<1>7. 0 \in 0..1 /\ 1 \in 0..1
  BY SMT
<1>8. CASE k = AloneKey
  <2>1. IsService(k[1]) /\ k[1] = Standalone
    BY <1>8, AloneKeys
  <2>2. QED
    BY <1>2, <1>3, <1>4, <1>6, <1>8, <1>7, <2>1, LoopOnAlone
<1>9. CASE ComponentOf(k) = "proxy"
  <2>1. IsService(k[1])
    BY <1>9 DEF ComponentOf, IsService
  <2>2. QED
    BY <1>2, <1>3, <1>6, <1>9, <1>7, <2>1, LoopOnProxies
<1>10. CASE ComponentOf(k) = "querynode"
  BY <1>3, <1>5, <1>6, <1>10, <1>7, LoopOnPairs DEF QueryNodes
<1>11. k = AloneKey \/ ComponentOf(k) \in {"proxy", "querynode"}
  BY AloneKeys, KeyParts, WorkloadParts DEF ComponentOf
<1>12. QED
  BY <1>8, <1>9, <1>10, <1>11

\* The Milvus says that the pods have the label only after they have got it.
LEMMA LoopLabel ==
  ASSUME RecType, ReconcileWorkload
  PROVE  labelled' = labelled \/ deploy' = LabelServicePods
<1>1. PICK w \in rec.todo :
        \/ ScaleDownIdleStandalone(w) \/ ReconcileComponentStatefulSet(w)
        \/ ReconcileTwoDeployments(w) \/ ReconcileComponentDeployment(w)
  BY LoopCases
<1>2. QED
  BY <1>1 DEF ScaleDownIdleStandalone, ReconcileComponentStatefulSet, ReconcileTwoDeployments,
              ReconcileComponentDeployment, WriteMilvus, crd

\* Other steps write the labels of the Milvus and of the pods nowhere.
LEMMA OtherLabel ==
  ASSUME TypeOK, [Next]_vars, ~ReconcileWorkload
  PROVE  /\ labelled' = labelled
         /\ \A k \in Keys : Exists(k)' => Exists(k) /\ deploy'[k].tagged = deploy[k].tagged
<1>1. labelled' = labelled
  BY DEF Next, Reconcile, Reports, vars, crd, StartReconcile, DeleteLegacyComponentDeployments, CleanupStaleStatefulSets,
         DeletePVCsForStatefulSet, EndOfLoop, CleanupStaleDeploymentGroups, CleanupDeploymentClusterToStandalone,
         ReconcileServices, Crash, Edit, Reports, BecomeReady, Observe, ProvisionClaim
<1>2. CASE deploy' = deploy
  BY <1>2, <1>1 DEF Exists
<1>3. CASE \E k \in Keys : Reports(k)
  BY <1>3, <1>1, ReportKeeps
<1>4. ASSUME NEW step \in {"legacy", "groups", "tostandalone"}, At(step), Removes(step)
      PROVE  \A k \in Keys : Exists(k)' => Exists(k) /\ deploy'[k].tagged = deploy[k].tagged
  <2>1. PICK k \in rec.todo \cap Keys : deploy'[k] = None /\ \A j \in Keys \ {k} : deploy'[j] = deploy[j]
    BY <1>4, RemovesEffect
  <2>2. QED
    BY <2>1 DEF Exists
<1>5. QED
  BY <1>1, <1>2, <1>3, <1>4, DeploySteps

LEMMA LabelsStep ==
  ASSUME ServingInv, Specs, Labels, OldService, [Next]_vars
  PROVE  Labels'
<1> USE DEF ServingInv
<1>1. \A k \in Keys : Exists(k)' /\ deploy'[k].tagged => IsService(k[1])
  BY LoopTag, OtherLabel DEF Labels, Deployed
<1>2. ASSUME labelled', NEW k \in Keys, Exists(k)', IsService(k[1])
      PROVE  deploy'[k].tagged
  <2>1. CASE ReconcileWorkload /\ labelled
    <3>1. Exists(k) => deploy[k].tagged
      BY <1>2, <2>1 DEF Labels, Deployed
    <3>2. QED
      BY <1>2, <2>1, <3>1, LoopTag
  <2>2. CASE ReconcileWorkload /\ ~labelled
    <3>1. deploy' = LabelServicePods
      BY <1>2, <2>2, LoopLabel DEF TypeOK
    <3>2. Exists(k)
      BY <1>2, <3>1 DEF LabelServicePods, Exists
    <3>3. deploy'[k] = [deploy[k] EXCEPT !.tagged = TRUE] /\ deploy[k] \in DeployType
      BY <1>2, <3>1, <3>2 DEF LabelServicePods, TypeOK, ObjectType, Exists
    <3>4. QED
      BY <3>3 DEF DeployType
  <2>3. CASE ~ReconcileWorkload
    BY <1>2, <2>3, OtherLabel DEF Labels, Deployed
  <2>4. QED
    BY <2>1, <2>2, <2>3
<1>3. /\ rec'.labelled => labelled'
      /\ service' \in {"label", "standalone"}
      /\ service' = "label" => rec'.labelled
  <2>1. CASE StartReconcile \/ Crash
    <3>1. service' = service /\ labelled' = labelled
      BY <2>1 DEF StartReconcile, Crash, crd, objects
    <3>2. rec'.labelled = labelled
      <4>1. CASE StartReconcile
        BY <4>1 DEF StartReconcile, NoRec
      <4>2. CASE Crash
        BY <4>2 DEF Crash, NoRec
      <4>3. QED
        BY <2>1, <4>1, <4>2
    <3>3. QED
      BY <3>1, <3>2 DEF Labels
  <2>2. CASE ReconcileServices
    <3>1. rec'.labelled = rec.labelled /\ labelled' = labelled
      BY <2>2 DEF ReconcileServices, crd, TypeOK, RecType
    <3>2. ~rec.labelled => service = "standalone" /\ ~GaveUp(rec.spec)
      BY DEF Labels, OldService
    <3>3. rec.spec.mode = "cluster" /\ ~GaveUp(rec.spec) => IsChangingMode(rec.spec)
      BY SMT DEF GaveUp, IsChangingMode, TypeOK, RecType, SpecType
    <3>4. service' \in {"label", "standalone"} /\ (service' = "label" => rec.labelled)
      BY <2>2, <3>2, <3>3 DEF ReconcileServices
    <3>5. QED
      BY <3>1, <3>4 DEF Labels
  <2>3. CASE rec'.labelled = rec.labelled /\ service' = service /\ (labelled => labelled')
    BY <2>3 DEF Labels
  <2>4. QED
    BY <2>1, <2>2, <2>3, CopySteps
<1>4. QED
  BY <1>1, <1>2, <1>3 DEF Labels, Deployed

\* Proxies are made by a reconcile in cluster mode only.
LEMMA ProxyMade ==
  ASSUME ServingInv, [Next]_vars, ProxyThere'
  PROVE  ProxyThere \/ (ReconcileWorkload /\ rec.spec.mode = "cluster")
<1> USE DEF ServingInv
<1>1. PICK k \in Keys : Exists(k)' /\ ComponentOf(k) = "proxy"
  BY DEF ProxyThere, Deployed
<1>2. CASE ~ReconcileWorkload
  BY <1>1, <1>2, OtherLabel DEF ProxyThere, Deployed
<1>3. CASE ReconcileWorkload /\ rec.spec.mode # "cluster"
  <2>1. PICK w \in rec.todo :
          /\ w \in Workload
          /\ \/ w = Standalone /\ IsIdleClusterStandalone(rec.spec, w) /\ ScaleDownIdleStandalone(w)
             \/ w[1] = "querynode" /\ rec.spec.sts /\ ReconcileComponentStatefulSet(w)
             \/ w[1] = "querynode" /\ ~rec.spec.sts /\ ReconcileTwoDeployments(w)
             \/ w[1] # "querynode" /\ ~IsIdleClusterStandalone(rec.spec, w) /\ ReconcileComponentDeployment(w)
    BY <1>3, LoopCases DEF TypeOK
  <2>2. w = Standalone
    <3>1. w \in GetComponentWorkloadsBySpec(rec.spec)
      BY <1>3, <2>1 DEF ReconcileWorkload, TodoAsked
    <3>2. QED
      BY <1>3, <3>1 DEF GetComponentWorkloadsBySpec
  <2>3. k # <<w, 0>> /\ <<w, 0>> \in Keys
    <3>1. k[1] # w
      BY SMT, <1>1, <2>2 DEF ComponentOf, Standalone
    <3>2. k # <<w, 0>>
      BY SMT, <3>1
    <3>3. QED
      BY <2>1, <3>2, KeysType
  <2>4. ReconcileComponentDeployment(w)
    BY <1>3, <2>1, <2>2 DEF IsIdleClusterStandalone, Standalone
  <2>5. \/ deploy' = deploy \/ deploy' = LabelServicePods
        \/ \E d : deploy' = [deploy EXCEPT ![<<w, 0>>] = d]
    BY <2>4 DEF ReconcileComponentDeployment
  <2>6. LabelServicePods[k] # None => Exists(k)
    BY <1>1 DEF LabelServicePods, Exists
  <2>7. Exists(k)
    BY <1>1, <2>3, <2>5, <2>6 DEF TypeOK, ObjectType, Exists
  <2>8. QED
    BY <1>1, <2>7 DEF ProxyThere, Deployed
<1>4. QED
  BY <1>2, <1>3

\* The spec that the operator or the user goes on with.
LEMMA SpecsStep ==
  ASSUME DocumentedModes, TypeOK, Specs, [Next]_vars
  PROVE  Specs'
<1>1. spec' = spec \/ spec' \in config.plans
  BY SpecSteps DEF Edit
<1>2. spec'.mode = "standalone" => spec'.standalone = 1
  BY <1>1 DEF Specs, DocumentedModes, TypeOK
<1>3. QED
  BY SMT, <1>2, SpecSteps DEF Specs

\* A user who gives the standalone up waits until nothing is left to do.
LEMMA GivesUp ==
  ASSUME NEW s, Edit(s), GaveUp(s), ~GaveUp(spec)
  PROVE  Serves("proxy") /\ Quiet
  BY DEF Edit, GaveUp, IsIdleClusterStandalone

\* A Service that selects the label goes on to select it.
LEMMA LabelSelected ==
  ASSUME TypeOK, Labels, service = "label", [Next]_vars
  PROVE  service' = "label"
<1>1. CASE ReconcileServices
  BY <1>1 DEF ReconcileServices, Labels
<1>2. CASE StartReconcile \/ Crash
  BY <1>2 DEF StartReconcile, Crash, objects
<1>3. QED
  BY <1>1, <1>2, CopySteps

LEMMA OldServiceStep ==
  ASSUME DocumentedModes, EndpointInv, [Next]_vars
  PROVE  OldService'
<1> USE DEF EndpointInv, ServingInv
<1>1. /\ config' = config /\ rec'.spec \in {rec.spec, spec}
      /\ spec' = spec \/ \E s \in config.plans : Edit(s)
  BY SpecSteps
<1>2. service' = "standalone" => service = "standalone"
  BY LabelSelected DEF Labels
<1>3. ASSUME service' = "standalone"
      PROVE  config'.old /\ Exists(AloneKey)' /\ ~GaveUp(spec') /\ ~GaveUp(rec'.spec)
  <2>1. service = "standalone" /\ config.old /\ Exists(AloneKey) /\ ~GaveUp(spec) /\ ~GaveUp(rec.spec)
    BY <1>2, <1>3 DEF OldService
  <2>2. Exists(AloneKey)'
    BY <2>1, AloneStep
  <2>3. ASSUME NEW s \in config.plans, Edit(s), GaveUp(s)
        PROVE  FALSE
    <3>1. Serves("proxy") /\ Quiet
      BY <2>1, <2>3, GivesUp
    <3>2. ProxyThere
      BY <3>1 DEF Serves, ProxyThere
    <3>3. QED
      BY <2>1, <3>1, <3>2 DEF Labelling, Quiet, At
  <2>4. ~GaveUp(spec')
    BY <1>1, <2>1, <2>3 DEF Edit
  <2>5. QED
    BY <1>1, <2>1, <2>2, <2>4
<1>4. config.old /\ spec'.mode = "standalone" => spec' = spec
  <2>1. spec' = spec \/ spec' \in config.plans
    BY <1>1 DEF Edit
  <2>2. QED
    BY <2>1 DEF DocumentedModes, TypeOK
<1>5. config.old /\ spec'.mode = "standalone" => rec'.spec.mode = "standalone"
  BY <1>1, <1>4 DEF OldService
<1>6. config.old /\ rec'.spec.mode = "standalone" => ~ProxyThere'
  <2>1. config.old /\ rec'.spec.mode = "standalone" => rec.spec.mode = "standalone"
    BY <1>1 DEF OldService
  <2>2. QED
    BY <2>1, ProxyMade DEF OldService
<1>7. QED
  BY <1>1, <1>3, <1>5, <1>6 DEF OldService

\* A reconcile that labels the pods ends with an error, and starts again.
LEMMA LoopLabelling ==
  ASSUME EndpointInv, ReconcileWorkload, ~rec.labelled, IsChangingMode(rec.spec)
  PROVE  rec'.failed \/ Standalone \in rec'.todo
<1> USE DEF EndpointInv, ServingInv
<1>1. At("loop") /\ (rec.failed => rec'.failed)
  BY LoopRec DEF TypeOK
<1>2. CASE rec.failed
  BY <1>1, <1>2
<1>3. CASE ~rec.failed
  <2>1. Standalone \in rec.todo
    BY <1>1, <1>3 DEF Labelling
  <2>2. PICK w \in rec.todo :
          /\ w \in Workload
          /\ \/ w = Standalone /\ IsIdleClusterStandalone(rec.spec, w) /\ ScaleDownIdleStandalone(w)
             \/ w[1] = "querynode" /\ rec.spec.sts /\ ReconcileComponentStatefulSet(w)
             \/ w[1] = "querynode" /\ ~rec.spec.sts /\ ReconcileTwoDeployments(w)
             \/ w[1] # "querynode" /\ ~IsIdleClusterStandalone(rec.spec, w) /\ ReconcileComponentDeployment(w)
    BY LoopCases DEF TypeOK
  <2>3. CASE w # Standalone
    <3>1. \/ rec' = rec
          \/ rec' = [rec EXCEPT !.todo = @ \ {w}]
          \/ rec' = [rec EXCEPT !.todo = @ \ {w}, !.failed = TRUE]
          \/ rec' = [rec EXCEPT !.todo = @ \ {w}, !.failed = TRUE, !.outdated = TRUE]
      BY <2>2 DEF ScaleDownIdleStandalone, ReconcileComponentStatefulSet, ReconcileTwoDeployments,
                  ReconcileComponentDeployment, Finished, Failed, WriteMilvus
    <3>2. rec'.todo = rec.todo \/ rec'.todo = rec.todo \ {w}
      BY <3>1 DEF TypeOK, RecType
    <3>3. QED
      BY <2>1, <2>3, <3>2
  <2>4. CASE w = Standalone
    <3>1. ~IsIdleClusterStandalone(rec.spec, w) /\ w[1] # "querynode"
      BY SMT, <2>4 DEF IsIdleClusterStandalone, IsChangingMode, Standalone
    <3>2. ReconcileComponentDeployment(w)
      BY <2>2, <3>1
    <3>3. Exists(<<w, 0>>)
      <4>1. service = "standalone"
        BY DEF Labels
      <4>2. QED
        BY <2>4, <4>1 DEF OldService, AloneKey
    <3>4. \/ rec' = [rec EXCEPT !.todo = @ \ {w}, !.failed = TRUE]
          \/ rec' = [rec EXCEPT !.todo = @ \ {w}, !.failed = TRUE, !.outdated = TRUE]
      BY <2>4, <3>2, <3>3 DEF ReconcileComponentDeployment, WriteMilvus, Failed
    <3>5. rec'.failed = TRUE
      BY <3>4 DEF TypeOK, RecType
    <3>6. QED
      BY <3>5
  <2>5. QED
    BY <2>3, <2>4
<1>4. QED
  BY <1>2, <1>3

\* Only the end of the loop, or of the operator, ends such a reconcile.
LEMMA LabellingGoesOn ==
  ASSUME TypeOK, [Next]_vars, ~EndOfLoop, ~Crash, rec.step \in {"legacy", "stale", "reclaim", "loop"}
  PROVE  rec'.step \in {"legacy", "stale", "reclaim", "loop"}
<1> USE DEF TypeOK, RecType
<1>1. CASE \/ UNCHANGED vars \/ ReconcileServices \/ (\E s \in config.plans : Edit(s))
           \/ (\E k \in Keys : Reports(k)) \/ \E g \in Names, i \in Ordinals : ProvisionClaim(g, i)
  <2>1. rec' = rec \/ rec' = [rec EXCEPT !.service = FALSE] \/ rec' = [rec EXCEPT !.outdated = TRUE]
    BY <1>1 DEF vars, ReconcileServices, Edit, Reports, BecomeReady, Observe, ProvisionClaim
  <2>2. QED
    BY <2>1
<1>2. CASE DeleteLegacyComponentDeployments
  BY <1>2 DEF DeleteLegacyComponentDeployments, Enter
<1>3. CASE CleanupStaleStatefulSets
  BY <1>3 DEF CleanupStaleStatefulSets, Enter
<1>4. CASE DeletePVCsForStatefulSet
  BY <1>4 DEF DeletePVCsForStatefulSet
<1>5. CASE ReconcileWorkload
  BY <1>5, LoopRec DEF At
<1>6. QED
  BY <1>1, <1>2, <1>3, <1>4, <1>5 DEF Next, Reconcile, Reports, StartReconcile, CleanupStaleDeploymentGroups,
     CleanupDeploymentClusterToStandalone, At

LEMMA LabellingStep ==
  ASSUME DocumentedModes, EndpointInv, [Next]_vars, Labels'
  PROVE  Labelling'
<1> USE DEF EndpointInv, ServingInv
<1>1. CASE StartReconcile
  <2>1. /\ rec'.step = "legacy" /\ rec'.labelled = labelled /\ rec'.service = TRUE /\ rec'.spec = spec
    BY <1>1 DEF StartReconcile, NoRec
  <2>2. service' = service /\ deploy' = deploy
    BY <1>1 DEF StartReconcile, objects
  <2>3. ASSUME service # "label", ProxyThere, ~labelled
        PROVE  IsChangingMode(spec)
    <3>1. config.old /\ ~GaveUp(spec)
      BY <2>3 DEF Labels, OldService
    <3>2. spec.mode # "standalone"
      BY <2>3, <3>1 DEF OldService
    <3>3. QED
      BY SMT, <3>1, <3>2 DEF GaveUp, IsChangingMode, TypeOK, SpecType
  <2>4. ProxyThere' => ProxyThere
    BY <2>2 DEF ProxyThere, Deployed, Exists
  <2>5. QED
    BY <2>1, <2>2, <2>3, <2>4 DEF Labelling, At
<1>2. CASE Crash
  <2>1. rec'.step = "idle" /\ due' = TRUE
    BY <1>2 DEF Crash, NoRec
  <2>2. QED
    BY <2>1 DEF Labelling, At
<1>3. CASE ReconcileServices
  <2>1. /\ deploy' = deploy /\ due' = due
        /\ rec'.step = rec.step /\ rec'.labelled = rec.labelled /\ rec'.spec = rec.spec
        /\ rec'.failed = rec.failed /\ rec'.todo = rec.todo
    BY <1>3 DEF ReconcileServices, TypeOK, RecType
  <2>2. rec.labelled => service' = "label"
    BY <1>3 DEF ReconcileServices
  <2>3. ~rec.labelled => service # "label"
    BY DEF Labels
  <2>4. ProxyThere' => ProxyThere
    BY <2>1 DEF ProxyThere, Deployed, Exists
  <2>5. QED
    BY <2>1, <2>2, <2>3, <2>4 DEF Labelling, At
<1>4. CASE /\ rec'.labelled = rec.labelled /\ rec'.service = rec.service /\ rec'.spec = rec.spec
           /\ service' = service /\ (due => due') /\ (At("idle") => At("idle")')
  <2>1. (~At("idle") /\ rec.labelled /\ ~rec.service => service = "label")'
    BY <1>4 DEF Labelling
  <2>2. (At("loop") /\ ~rec.labelled /\ IsChangingMode(rec.spec) => rec.failed \/ Standalone \in rec.todo)'
    <3>1. CASE ReconcileWorkload
      BY <1>4, <3>1, LoopLabelling
    <3>2. CASE rec'.step = rec.step /\ rec'.todo = rec.todo /\ rec'.failed = rec.failed
      BY <1>4, <3>2 DEF Labelling, At
    <3>3. CASE rec'.todo = GetComponentWorkloadsBySpec(rec.spec)
      BY SMT, <3>3, WorkloadsType DEF TypeOK, RecType
    <3>4. CASE rec'.step # "loop"
      BY <3>4 DEF At
    <3>5. ASSUME NEW step \in {"legacy", "groups", "tostandalone"}, At(step), Removes(step)
          PROVE  rec'.step # "loop"
      BY <3>5, RemovesEffect
    <3>6. QED
      BY <3>1, <3>2, <3>3, <3>4, <3>5, RecSteps
  <2>3. ASSUME service' # "label", ProxyThere', ~due', ~(rec'.labelled /\ rec'.service)
        PROVE  /\ ~rec'.labelled /\ IsChangingMode(rec'.spec)
               /\ rec'.step \in {"legacy", "stale", "reclaim", "loop"}
    <3>1. service # "label" /\ ~due /\ ~(rec.labelled /\ rec.service)
      BY <1>4, <2>3
    <3>2. CASE ProxyThere
      <4>1. ~rec.labelled /\ IsChangingMode(rec.spec) /\ rec.step \in {"legacy", "stale", "reclaim", "loop"}
        BY <3>1, <3>2 DEF Labelling
      <4>2. ASSUME EndOfLoop PROVE FALSE
        <5>1. At("loop") /\ rec.todo = {}
          BY <4>2 DEF EndOfLoop
        <5>2. rec.failed
          BY <4>1, <5>1 DEF Labelling
        <5>3. due'
          BY <4>2, <5>2 DEF EndOfLoop, Fail
        <5>4. QED
          BY <2>3, <5>3
      <4>3. ~Crash
        BY <2>3 DEF Crash
      <4>4. rec'.step \in {"legacy", "stale", "reclaim", "loop"}
        BY <4>1, <4>2, <4>3, LabellingGoesOn
      <4>5. QED
        BY <1>4, <4>1, <4>4
    <3>3. CASE ~ProxyThere
      <4>1. ReconcileWorkload /\ rec.spec.mode = "cluster"
        BY <2>3, <3>3, ProxyMade
      <4>2. At("loop") /\ At("loop")'
        BY <4>1, LoopRec DEF TypeOK
      <4>3. ~rec.labelled
        BY <3>1, <4>2 DEF Labelling, At
      <4>4. ~GaveUp(rec.spec)
        BY <3>1 DEF Labels, OldService
      <4>5. IsChangingMode(rec.spec)
        BY SMT, <4>1, <4>4 DEF GaveUp, IsChangingMode, TypeOK, RecType, SpecType
      <4>6. QED
        BY <1>4, <4>2, <4>3, <4>5 DEF At
    <3>4. QED
      BY <3>2, <3>3
  <2>4. QED
    BY <2>1, <2>2, <2>3 DEF Labelling
<1>5. QED
  BY <1>1, <1>2, <1>3, <1>4, CopySteps

\* A reconcile starts on the spec of the Milvus.
LEMMA ReconcileStarts ==
  ASSUME TypeOK, [Next]_vars, At("idle"), ~At("idle")'
  PROVE  rec'.spec = spec
<1>1. CASE StartReconcile
  BY <1>1 DEF StartReconcile, NoRec
<1>2. CASE Crash
  BY <1>2 DEF Crash, NoRec, At
<1>3. CASE ReconcileServices
  BY <1>3 DEF ReconcileServices, At, TypeOK, RecType
<1>4. QED
  BY <1>1, <1>2, <1>3, CopySteps

\* What the operator is about to remove never has the standalone in it.
LEMMA AloneStays ==
  ASSUME EndpointInv, [Next]_vars
  PROVE  /\ (At("tostandalone") /\ rec.todo # {} => AloneCovers /\ AloneKey \notin rec.todo)'
         /\ (At("groups") => AloneKey \notin rec.todo)'
<1> USE DEF EndpointInv, ServingInv
<1>1. CASE rec'.step = rec.step /\ rec'.todo = rec.todo
  <2>1. At("tostandalone") /\ AloneCovers => AloneCovers'
    BY AloneGoesOn DEF At
  <2>2. QED
    BY <1>1, <2>1 DEF Handover, At, AloneKey
<1>2. CASE rec'.step \notin {"groups", "tostandalone"}
  BY <1>2 DEF At
<1>3. ASSUME NEW step \in {"legacy", "groups", "tostandalone"}, At(step), Removes(step)
      PROVE  /\ (At("tostandalone") /\ rec.todo # {} => AloneCovers /\ AloneKey \notin rec.todo)'
             /\ (At("groups") => AloneKey \notin rec.todo)'
  <2>1. PICK k \in rec.todo \cap Keys : rec'.step = step /\ rec'.todo = rec.todo \ {k}
    BY <1>3, RemovesEffect
  <2>2. At("tostandalone") /\ AloneCovers => AloneCovers'
    BY AloneGoesOn DEF At
  <2>3. QED
    BY <1>3, <2>1, <2>2 DEF Handover, At, AloneKey
<1>4. CASE ReconcileWorkload
  BY <1>4, LoopRec DEF TypeOK, At
<1>5. CASE EndOfLoop /\ rec'.step = "groups"
  <2>1. rec'.todo \in {{}, StaleDeployments(rec.spec)}
    BY <1>5 DEF EndOfLoop, Fail, Enter, TypeOK, RecType
  <2>2. Standalone \in GetComponentWorkloadsBySpec(rec.spec)
    BY DEF GetComponentWorkloadsBySpec
  <2>3. AloneKey \notin StaleDeployments(rec.spec)
    BY <2>2, AloneKeys DEF StaleDeployments
  <2>4. AloneKey \notin rec'.todo
    BY <2>1, <2>3
  <2>5. QED
    BY <1>5, <2>4 DEF At, AloneKey
<1>6. CASE rec'.step = "tostandalone" /\ rec'.todo = ClusterDeployments(rec.spec) /\ deploy' = deploy
  <2>1. ClusterDeployments(rec.spec) # {} => AloneCovers
    BY DEF ClusterDeployments, Handover, AloneHonest, AloneCovers
  <2>2. AloneKey \notin ClusterDeployments(rec.spec)
    BY AloneKeys DEF ClusterDeployments
  <2>3. AloneCovers => AloneCovers'
    BY <1>6 DEF AloneCovers, Exists, AloneKey
  <2>4. QED
    BY <1>6, <2>1, <2>2, <2>3 DEF At, AloneKey
<1>7. QED
  BY <1>1, <1>2, <1>3, <1>4, <1>5, <1>6, RecSteps

LEMMA HandoverStep ==
  ASSUME EndpointInv, [Next]_vars
  PROVE  Handover'
<1> USE DEF EndpointInv, ServingInv
<1>1. /\ spec' = spec \/ \E s \in config.plans : Edit(s)
      /\ rec'.spec \in {rec.spec, spec}
      /\ At("idle") /\ ~At("idle")' => rec'.spec = spec
  BY SpecSteps, ReconcileStarts
<1>2. GaveUp(spec') => GaveUp(spec) \/ (Serves("proxy") /\ At("idle") /\ At("idle")' /\ deploy' = deploy)
  <2>1. ASSUME NEW s \in config.plans, Edit(s), GaveUp(s), ~GaveUp(spec)
        PROVE  Serves("proxy") /\ At("idle") /\ At("idle")' /\ deploy' = deploy
    <3>1. Serves("proxy") /\ At("idle")
      BY <2>1, GivesUp DEF Quiet
    <3>2. rec' = [rec EXCEPT !.outdated = TRUE] /\ deploy' = deploy
      BY <2>1 DEF Edit, objects
    <3>3. QED
      BY <3>1, <3>2 DEF At, TypeOK, RecType
  <2>2. QED
    BY <1>1, <2>1 DEF Edit
<1>3. GaveUp(spec') => At("idle")' \/ GaveUp(rec'.spec)
  <2>1. CASE GaveUp(spec)
    <3>1. At("idle") \/ GaveUp(rec.spec)
      BY <2>1 DEF Handover
    <3>2. QED
      BY <1>1, <2>1, <3>1
  <2>2. QED
    BY <1>2, <2>1
<1>4. ASSUME Exists(AloneKey)', GaveUp(spec') \/ (~At("idle")' /\ GaveUp(rec'.spec))
      PROVE  Serves("proxy")'
  <2>1. CASE Serves("proxy") /\ deploy' = deploy
    BY <2>1 DEF Serves, Deployed, Exists
  <2>2. CASE GaveUp(spec) \/ (~At("idle") /\ GaveUp(rec.spec))
    <3>1. At("idle") \/ GaveUp(rec.spec)
      BY <2>2 DEF Handover
    <3>2. Exists(AloneKey)
      BY <1>4, <3>1, AloneStep DEF At
    <3>3. Serves("proxy")
      BY <2>2, <3>2 DEF Handover
    <3>4. ~(At("tostandalone") /\ Removes("tostandalone"))
      BY <3>1 DEF TodoKinds, Removes, GaveUp, At
    <3>5. QED
      BY <3>3, <3>4, ProxiesServe
  <2>3. QED
    BY <1>1, <1>2, <1>4, <2>1, <2>2
<1>5. AloneHonest'
  BY AloneStep
<1>6. QED
  BY <1>3, <1>4, <1>5, AloneStays DEF Handover

LEMMA EndpointInit ==
  ASSUME DocumentedModes, Init
  PROVE  EndpointInv
<1>1. /\ config \in Configs /\ spec = config.start /\ labelled = ~config.old /\ due = TRUE
      /\ rec.step = "idle" /\ rec.spec = spec /\ rec.labelled = labelled
      /\ service = IF labelled THEN "label" ELSE IF spec.mode = "cluster" THEN "proxy" ELSE "standalone"
  BY DEF Init, NoRec
<1>2. TypeOK
  BY TypeInit
<1>3. config.old => spec.mode = "standalone" /\ service = "standalone"
  BY <1>1 DEF DocumentedModes
<1>4. ~config.old => service = "label"
  BY <1>1
<1>5. Specs
  BY SMT, <1>1 DEF Specs, DocumentedModes
<1>6. ASSUME NEW k \in Keys, Exists(k)
      PROVE  /\ k[1] \in GetComponentWorkloadsBySpec(spec) /\ ~IsIdleClusterStandalone(spec, k[1])
             /\ k[2] = 0 => deploy[k] = [replicas |-> Replicas(spec, k[1]), ready |-> Replicas(spec, k[1]) > 0,
                                         available |-> TRUE, idled |-> Replicas(spec, k[1]) = 0,
                                         tagged |-> IsService(k[1]) /\ ~config.old]
             /\ k[2] # 0 => deploy[k] = NewDeploy(k[1], 0)
  BY <1>6 DEF Init, Exists
<1>7. ASSUME NEW k \in Keys, Exists(k)
      PROVE  deploy[k].tagged <=> IsService(k[1]) /\ ~config.old
  <2>1. CASE k[2] = 0
    <3>1. deploy[k] = [replicas |-> Replicas(spec, k[1]), ready |-> Replicas(spec, k[1]) > 0,
                       available |-> TRUE, idled |-> Replicas(spec, k[1]) = 0,
                       tagged |-> IsService(k[1]) /\ ~config.old]
      BY <1>6, <1>7, <2>1
    <3> DEFINE tag == IsService(k[1]) /\ ~config.old
               up == Replicas(spec, k[1]) > 0
               none == Replicas(spec, k[1]) = 0
    <3>2. deploy[k] = [replicas |-> Replicas(spec, k[1]), ready |-> up, available |-> TRUE, idled |-> none, tagged |-> tag]
      BY <3>1
    <3> HIDE DEF tag, up, none
    <3>3. deploy[k].tagged = tag
      BY SMT, <3>2
    <3>4. QED
      BY <3>3 DEF tag
  <2>2. CASE k[2] # 0
    <3>1. ~IsService(k[1])
      BY SMT, <2>2, KeyParts DEF ComponentUsesTwoDeployments, IsService
    <3>2. deploy[k] = NewDeploy(k[1], 0)
      BY <1>6, <1>7, <2>2
    <3>3. deploy[k].tagged = NewDeploy(k[1], 0).tagged
      BY <3>2
    <3>4. 0 \in 0..1
      BY SMT
    <3>5. QED
      BY <3>1, <3>3, <3>4, NewDeployType
  <2>3. QED
    BY <2>1, <2>2
<1>8. Labels
  BY <1>1, <1>3, <1>4, <1>7 DEF Labels, Deployed
<1>9. OldService
  <2>1. ASSUME config.old PROVE Exists(AloneKey)
    <3>1. Standalone \in GetComponentWorkloadsBySpec(spec) /\ Standalone[1] = "standalone"
      BY DEF GetComponentWorkloadsBySpec, Standalone
    <3>2. ~ComponentUsesStatefulSet(spec, Standalone) /\ ~IsIdleClusterStandalone(spec, Standalone)
      BY <1>3, <2>1, <3>1 DEF ComponentUsesStatefulSet, IsIdleClusterStandalone
    <3>3. deploy[AloneKey] = [replicas |-> Replicas(spec, Standalone), ready |-> Replicas(spec, Standalone) > 0,
                              available |-> TRUE, idled |-> Replicas(spec, Standalone) = 0,
                              tagged |-> IsService(Standalone) /\ ~config.old]
      BY <3>1, <3>2, AloneKeys DEF Init, AloneKey
    <3>4. Replicas(spec, Standalone) \in 0..1 /\ IsService(Standalone) \in BOOLEAN /\ (~config.old) \in BOOLEAN
      BY SMT, <1>2 DEF Replicas, TypeOK, SpecType, IsService
    <3>5. deploy[AloneKey] \in DeployType
      BY SMT, <3>3, <3>4 DEF DeployType
    <3>6. QED
      BY <3>5, NoneAssumption DEF Exists
  <2>2. ASSUME config.old PROVE ~ProxyThere
    <3>1. \A w \in GetComponentWorkloadsBySpec(spec) : w[1] = "standalone"
      BY SMT, <1>3, <2>2 DEF GetComponentWorkloadsBySpec, Standalone
    <3>2. QED
      BY <1>6, <3>1 DEF ProxyThere, Deployed, ComponentOf
  <2>3. QED
    BY <1>1, <1>3, <1>4, <2>1, <2>2 DEF OldService, GaveUp
<1>10. Labelling
  BY <1>1 DEF Labelling, At
<1>11. Handover
  <2>1. ASSUME Exists(AloneKey)
        PROVE  /\ deploy[AloneKey].ready => deploy[AloneKey].replicas = 1
               /\ deploy[AloneKey].idled \/ (deploy[AloneKey].replicas = 1 /\ deploy[AloneKey].ready)
    <3>1. AloneKey \in Keys /\ AloneKey[1] = Standalone /\ AloneKey[2] = 0 /\ Replicas(spec, Standalone) = spec.standalone
      BY AloneKeys DEF AloneKey, Replicas
    <3>2. deploy[AloneKey] = [replicas |-> spec.standalone, ready |-> spec.standalone > 0,
                              available |-> TRUE, idled |-> spec.standalone = 0,
                              tagged |-> IsService(Standalone) /\ ~config.old]
      BY <1>6, <2>1, <3>1
    <3> DEFINE up == spec.standalone > 0
               none == spec.standalone = 0
               tag == IsService(Standalone) /\ ~config.old
    <3>3. deploy[AloneKey] = [replicas |-> spec.standalone, ready |-> up, available |-> TRUE, idled |-> none, tagged |-> tag]
      BY <3>2
    <3>4. (up => spec.standalone = 1) /\ (none \/ (spec.standalone = 1 /\ up))
      BY SMT, <1>2 DEF TypeOK, SpecType
    <3> HIDE DEF up, none, tag
    <3>5. deploy[AloneKey].replicas = spec.standalone /\ deploy[AloneKey].ready = up /\ deploy[AloneKey].idled = none
      BY SMT, <3>3
    <3>6. QED
      BY <3>4, <3>5
  <2>2. ~(Exists(AloneKey) /\ GaveUp(spec))
    BY <1>6, AloneKeys DEF GaveUp, IsIdleClusterStandalone
  <2>3. QED
    BY <1>1, <2>1, <2>2 DEF Handover, AloneHonest, At
<1>12. QED
  BY <1>5, <1>8, <1>9, <1>10, <1>11, ServingInit DEF EndpointInv

LEMMA EndpointStep ==
  ASSUME DocumentedModes, EndpointInv, [Next]_vars
  PROVE  EndpointInv'
<1>1. ServingInv' /\ Specs'
  BY ServingStep, SpecsStep DEF EndpointInv, ServingInv
<1>2. Labels'
  BY LabelsStep DEF EndpointInv
<1>3. OldService' /\ Labelling' /\ Handover'
  BY <1>2, OldServiceStep, LabellingStep, HandoverStep
<1>4. QED
  BY <1>1, <1>2, <1>3 DEF EndpointInv

\* The standalone hands over to proxies that serve, and they to a standalone
\* that is ready, unless it was without replicas before.
LEMMA EndpointHandedOver ==
  ASSUME EndpointInv, Labels', [Next]_vars, HasEndpoint,
         rec.spec.mode = "standalone" => ~(Exists(AloneKey) /\ deploy[AloneKey].idled)
  PROVE  HasEndpoint'
<1> USE DEF EndpointInv, ServingInv
<1>1. AloneReady \/ (service = "label" /\ Serves("proxy"))
  BY EndpointMeans
<1>2. ASSUME AloneReady' PROVE HasEndpoint'
  <2>1. deploy'[AloneKey].ready /\ AloneKey \in Deployed'
    BY <1>2, AloneKeys DEF AloneReady, Deployed, AloneKey
  <2>2. service' = "label" => deploy'[AloneKey].tagged
    BY <2>1, AloneKeys DEF Labels
  <2>3. service' # "label" => ComponentOf(AloneKey) = service'
    BY AloneKeys DEF Labels
  <2>4. QED
    BY <2>1, <2>2, <2>3 DEF HasEndpoint
<1>3. ASSUME service' = "label", Serves("proxy")' PROVE HasEndpoint'
  <2>1. PICK k \in Deployed' : ComponentOf(k) = "proxy" /\ deploy'[k].ready
    BY <1>3 DEF Serves
  <2>2. deploy'[k].tagged
    BY <1>3, <2>1, AloneKeys DEF Labels, Deployed
  <2>3. QED
    BY <1>3, <2>1, <2>2 DEF HasEndpoint
<1>4. CASE service = "label" /\ Serves("proxy")
  <2>1. service' = "label"
    BY <1>4, LabelSelected
  <2>2. CASE At("tostandalone") /\ Removes("tostandalone")
    <3>1. AloneCovers /\ rec.spec.mode = "standalone"
      BY <2>2 DEF Removes, Handover, TodoKinds
    <3>2. AloneReady
      BY <3>1 DEF AloneCovers, AloneReady
    <3>3. QED
      BY <1>2, <2>2, <3>2, AloneStep DEF At
  <2>3. QED
    BY <1>3, <1>4, <2>1, <2>2, ProxiesServe
<1>5. CASE AloneReady /\ At("loop") /\ GaveUp(rec.spec)
  <2>1. Serves("proxy")
    BY <1>5 DEF Handover, AloneReady, At
  <2>2. service = "label"
    BY <1>5 DEF OldService, Labels
  <2>3. QED
    BY <1>4, <2>1, <2>2
<1>6. QED
  BY <1>1, <1>2, <1>4, <1>5, AloneStep

\* The Service never loses its last endpoint, whatever the interleaving of
\* labelling the pods, changing the selector, crashes and removals: for every
\* set of instances that change their mode as documented, on the way to cluster
\* mode always, and on the way back when the standalone was never without
\* replicas.
THEOREM EndpointAlwaysKept == ASSUME DocumentedModes PROVE Spec => EndpointKept
<1> DEFINE Kept == HasEndpoint /\ (rec.spec.mode = "standalone" => ~(Exists(AloneKey) /\ deploy[AloneKey].idled))
                     => HasEndpoint'
<1>1. Init => EndpointInv
  BY EndpointInit
<1>2. EndpointInv /\ [Next]_vars => EndpointInv'
  BY EndpointStep
<1>3. EndpointInv /\ EndpointInv' /\ [Next]_vars => [Kept]_vars
  BY EndpointHandedOver DEF EndpointInv
<1>4. QED
  BY <1>1, <1>2, <1>3, PTL DEF Spec, EndpointKept
=============================================================================
