---------------------------- MODULE MilvusRender ----------------------------
(***************************************************************************)
(* From the Milvus to its pods: a user edits the Milvus (through the       *)
(* webhook, where it is installed), the controller gives it its defaults,  *)
(* reads back the values of old releases, records the credentials of       *)
(* kafka, hands values to Helm and renders the ConfigMaps and the          *)
(* Deployment of the component that serves (milvus_controller.go,          *)
(* milvus.go, configmaps.go, deployments.go), and Kubernetes replaces the  *)
(* pods.  The operator may be replaced by another version and may stop     *)
(* between any two writes.                                                 *)
(***************************************************************************)
EXTENDS PodTemplate

CONSTANTS
  Configs, \* where to start, what users do, and bounds on edits, on turns and on crashes
  MaxTurns \* bound on changes of the Secret and of the operator, and on restarts by kubectl

Versions == 0..(MaxTurns + 1)
CheckSumType == Versions \X BOOLEAN
MilvusType ==
  [spec: SpecType, version: {Blank, "legacy"} \cup Operators, merged: BOOLEAN, synced: {Blank, "false", "true"},
   service: BOOLEAN, started: BOOLEAN, ready: BOOLEAN, sum: CheckSumType, observed: BOOLEAN]

\* What a rendering is made from.
RenderedType == [spec: SpecType, sum: CheckSumType, observed: BOOLEAN]

\* spec: what is submitted first; edits: a field and its new value; old: the
\* instance is from an older operator; webhook: the webhook is installed.
IsConfig(c) ==
  /\ c.spec \in SpecType /\ {c.old, c.webhook} \subseteq BOOLEAN
  /\ \A e \in c.edits : [c.spec EXCEPT ![e.field] = e.value] \in SpecType
  /\ {c.maxEdits, c.maxTurns, c.maxFaults} \subseteq Nat /\ c.maxTurns <= MaxTurns

ASSUME RenderAssumption ==
  /\ MaxReplicas \in Nat \ {0} /\ MaxTurns \in Nat
  /\ Nothing \notin ConfigType /\ Nothing \notin RenderedType /\ Nothing \notin Operators \cup ConfigMaps
  /\ \A c \in Configs : IsConfig(c)

VARIABLES
  config,   \* the chosen configuration
  milvus,   \* the Milvus that is stored
  secret,   \* the version of the Secret of kafka, 0 when there is none
  operator, \* the version of the operator
  maps,     \* the ConfigMaps
  deploy,   \* the Deployment: replicas and template
  release,  \* the values that Helm has applied for each dependency
  pods,     \* what the running pods were started with
  due,      \* whether a reconcile is to be run
  rec,      \* the reconcile that runs
  last,     \* what the last rendering was made from
  edits, turns, faults

vars == <<config, milvus, secret, operator, maps, deploy, release, pods, due, rec, last, edits, turns, faults>>
cluster == <<maps, deploy, release, pods>>
env == <<config, secret, operator, edits, turns, faults>>

NoDeploy == [replicas |-> 0, template |-> NewTemplate]
NoMap == Nothing
NoPods == [template |-> NewTemplate, secret |-> 0]
NoRec == [step |-> "idle", m |-> Nothing, read |-> Nothing, todo |-> {}, failed |-> FALSE]

Sums ==
  {"a", "b"} \X BOOLEAN \X {"none", "cert", "bad"} \X (0..MaxReplicas) \X (0..1) \X (0..1) \X (0..1) \X (0..1)
    \X BOOLEAN \X CheckSumType

Template == TemplateType({Nothing} \cup Sums)

\* m, read: the copy the reconcile works on, and the object it last read or
\* wrote; todo: what runs side by side; failed: one of them had an error.
RecType ==
  [step: {"default", "legacy", "status", "sum", "all", "observe"}, m: MilvusType, read: MilvusType,
   todo: SUBSET {"helm", "maps", "deploy"}, failed: BOOLEAN]

\* The state is well typed: in particular a ConfigMap names a message stream.
TypeOK ==
  /\ config \in Configs /\ milvus \in MilvusType
  /\ secret \in Versions /\ operator \in Operators
  /\ maps \in [ConfigMaps -> ConfigType \cup {NoMap}]
  /\ deploy \in [replicas: 0..1, template: Template]
  /\ release \in [Dependencies -> ValuesType]
  /\ pods \in [template: Template, secret: Versions]
  /\ due \in BOOLEAN
  /\ rec = NoRec \/ rec \in RecType
  /\ last = Nothing \/ last \in RenderedType
  /\ edits \in 0..config.maxEdits /\ turns \in 0..config.maxTurns /\ faults \in 0..config.maxFaults

NoSum == <<0, FALSE>>

\* An older operator has left a Deployment whose container has no variable
\* for the layered configuration, and releases.
Left ==
  [NewTemplate EXCEPT !.labels = {"app"}, !.using = "milvus", !.mounted = "milvus",
                      !.image = config.spec.image, !.script = "v0", !.probes = "v0"]

Init ==
  /\ config \in Configs
  /\ milvus =
       LET m == [spec |-> config.spec, version |-> Blank, merged |-> FALSE, synced |-> Blank, service |-> FALSE,
                 started |-> config.old, ready |-> config.old, sum |-> NoSum, observed |-> config.old]
       IN  IF config.webhook /\ ~config.old THEN Default(m, "v1") ELSE m
  /\ secret = 1 /\ operator = "v1"
  /\ maps = [c \in ConfigMaps |->
       IF config.old /\ c = "milvus" THEN UpdateConfigMap(DefaultSpec(milvus, "v0"), TRUE) ELSE NoMap]
  /\ deploy = IF config.old THEN [replicas |-> 1, template |-> Left] ELSE NoDeploy
  /\ release = [d \in Dependencies |-> IF config.old /\ d \in {"etcd", "storage"} THEN "release" ELSE "nil"]
  /\ pods = IF config.old THEN [template |-> Left, secret |-> 1] ELSE NoPods
  /\ due = TRUE /\ rec = NoRec /\ last = Nothing
  /\ edits = 0 /\ turns = 0 /\ faults = 0

-----------------------------------------------------------------------------
(* Steps of the controller.                                                 *)

At(step) == rec.step = step
Goto(step, m, read) == rec' = [rec EXCEPT !.step = step, !.m = m, !.read = read]

\* An error puts the Milvus back into the queue.
Fail == rec' = NoRec /\ due' = TRUE

\* A write of the whole object, which fails when it is out of date; the local
\* copy becomes what is stored.  A new spec has not been observed.
Update(m, step) ==
  LET stored == [m EXCEPT !.observed = @ /\ m.spec = milvus.spec]
  IN  IF rec.read = milvus
      THEN milvus' = stored /\ Goto(step, stored, stored) /\ due' = (due \/ stored # milvus)
      ELSE Fail /\ UNCHANGED milvus

\* A write of the status alone: what is local of the rest is lost.
UpdateStatus(m, step) ==
  LET stored == [milvus EXCEPT !.started = m.started, !.observed = m.observed]
  IN  IF rec.read = milvus
      THEN milvus' = stored /\ Goto(step, stored, stored) /\ due' = (due \/ stored # milvus)
      ELSE Fail /\ UNCHANGED milvus

Continue(step) == Goto(step, rec.m, rec.read) /\ UNCHANGED <<milvus, due>>

StartReconcile ==
  /\ At("idle") /\ due
  /\ due' = FALSE
  /\ Goto("default", milvus, milvus)
  /\ UNCHANGED <<milvus, last, cluster, env>>

SetDefault ==
  /\ At("default")
  /\ LET m == Default(rec.m, operator)
     IN  IF m.spec # rec.m.spec THEN Update(m, "legacy")
         ELSE Goto("legacy", m, rec.read) /\ UNCHANGED <<milvus, due>>
  /\ UNCHANGED <<last, cluster, env>>

LegacyNeedSyncValues(m) == m.version = "legacy" /\ m.synced # "true"

\* A release that does not exist has no values.
SyncLegacyValues(m) ==
  [m EXCEPT !.synced = "true",
            !.spec.dep = [d \in Dependencies |->
              IF d \in InCluster(m.spec) \ {"tei"}
              THEN [m.spec.dep[d] EXCEPT !.values = IF release[d] = "nil" THEN "user" ELSE release[d]]
              ELSE m.spec.dep[d]]]

ReconcileLegacyValues ==
  /\ At("legacy")
  /\ IF LegacyNeedSyncValues(rec.m) THEN Update(SyncLegacyValues(rec.m), "status") ELSE Continue("status")
  /\ UNCHANGED <<last, cluster, env>>

SetDefaultStatus ==
  /\ At("status")
  /\ IF rec.m.started THEN Continue("sum") ELSE UpdateStatus([rec.m EXCEPT !.started = TRUE], "sum")
  /\ UNCHANGED <<last, cluster, env>>

UsesSecret(s) == s.msg = "kafka" /\ (s.sasl \/ s.ssl # "none")

SaslCheckSum(s) == IF UsesSecret(s) THEN <<secret, s.ssl # "none">> ELSE NoSum

SyncKafkaSaslCheckSum ==
  /\ At("sum")
  /\ LET s == rec.m.spec
         all == [rec EXCEPT !.step = "all", !.todo = {"helm", "maps"}]
     IN  \/ /\ UsesSecret(s) /\ (secret = 0 \/ ~ParseKafkaSecretRefs(s))
            /\ Fail /\ UNCHANGED milvus
         \/ /\ UsesSecret(s) => secret # 0 /\ ParseKafkaSecretRefs(s)
            /\ IF rec.m.sum = SaslCheckSum(s) THEN rec' = all /\ UNCHANGED <<milvus, due>>
               ELSE LET m == [rec.m EXCEPT !.sum = SaslCheckSum(s)]
                        stored == [m EXCEPT !.observed = @ /\ m.spec = milvus.spec]
                    IN  IF rec.read = milvus
                        THEN /\ milvus' = stored
                             /\ rec' = [all EXCEPT !.m = stored, !.read = stored]
                             /\ due' = (due \/ stored # milvus)
                        ELSE Fail /\ UNCHANGED milvus
  /\ UNCHANGED <<last, cluster, env>>

-----------------------------------------------------------------------------
(* ReconcileAll: the dependencies and Milvus side by side; it ends when all *)
(* have ended, with an error when one had one.                              *)

Done(job, next, failed) ==
  LET todo == (rec.todo \ {job}) \cup next
      bad == rec.failed \/ failed
  IN  IF todo # {} THEN rec' = [rec EXCEPT !.todo = todo, !.failed = bad] /\ UNCHANGED due
      ELSE IF bad THEN Fail
      ELSE rec' = [rec EXCEPT !.step = "observe", !.todo = {}] /\ UNCHANGED due

Job(job) == At("all") /\ job \in rec.todo

ReconcileDependencies ==
  /\ Job("helm")
  /\ release' = [d \in Dependencies |-> IF d \in InCluster(rec.m.spec) THEN rec.m.spec.dep[d].values ELSE release[d]]
  /\ Done("helm", {}, FALSE)
  /\ UNCHANGED <<milvus, last, maps, deploy, pods, env>>

\* The Secret of the storage comes with the release of the storage.
StorageSecret(s) == s.storage = "own" \/ (s.storage = "minio" /\ release["storage"] # "nil")

\* In manual mode the active ConfigMap, and otherwise all that there are, or
\* the active one when there is none.
Listed(s) ==
  LET all == {c \in ConfigMaps : maps[c] # NoMap}
  IN  IF s.manual \/ all = {} THEN {GetActiveConfigMap(s)} ELSE all

\* Mutant: a ConfigMap is created, and never written again.
MutantReconcileConfigMaps ==
  /\ Job("maps")
  /\ LET s == rec.m.spec
         failed == s.msg = "kafka" /\ ((s.sasl /\ secret = 0) \/ ~ParseKafkaSecretRefs(s))
     IN  IF ~rec.m.ready THEN Done("maps", {}, FALSE) /\ UNCHANGED maps
         ELSE IF failed THEN Done("maps", {}, TRUE) /\ UNCHANGED maps
         ELSE /\ maps' = [c \in ConfigMaps |-> IF c \in Listed(s) /\ maps[c] = NoMap
                                              THEN UpdateConfigMap(s, StorageSecret(s)) ELSE maps[c]]
              /\ Done("maps", {"deploy"}, FALSE)
  /\ UNCHANGED <<milvus, last, deploy, release, pods, env>>

\* Milvus waits for its dependencies.
ReconcileConfigMaps ==
  /\ Job("maps")
  /\ LET s == rec.m.spec
         failed == s.msg = "kafka" /\ ((s.sasl /\ secret = 0) \/ ~ParseKafkaSecretRefs(s))
     IN  IF ~rec.m.ready THEN Done("maps", {}, FALSE) /\ UNCHANGED maps
         ELSE IF failed THEN Done("maps", {}, TRUE) /\ UNCHANGED maps
         ELSE /\ maps' = [c \in ConfigMaps |-> IF c \in Listed(s) THEN UpdateConfigMap(s, StorageSecret(s)) ELSE maps[c]]
              /\ Done("maps", {"deploy"}, FALSE)
  /\ UNCHANGED <<milvus, last, deploy, release, pods, env>>

Replicas(s) ==
  IF ~s.manual THEN s.replicas ELSE IF deploy.template = NewTemplate THEN 1 ELSE deploy.replicas

\* ReconcileDeployments for a component with one Deployment.
ReconcileComponentDeployment ==
  /\ Job("deploy")
  /\ LET s == rec.m.spec
         force == deploy.template = NewTemplate \/ Replicas(s) = 0
     IN  IF s.storage # Blank /\ ~StorageSecret(s) THEN Done("deploy", {}, TRUE) /\ UNCHANGED <<deploy, last>>
         ELSE /\ deploy' = [replicas |-> Replicas(s), template |-> UpdatePodTemplate(rec.m, deploy.template, operator, force)]
              /\ last' = [spec |-> s, sum |-> rec.m.sum, observed |-> rec.m.observed]
              /\ Done("deploy", {}, FALSE)
  /\ UNCHANGED <<milvus, maps, release, pods, env>>

UpdateStatusForNewGeneration ==
  /\ At("observe")
  /\ IF rec.m.observed THEN rec' = NoRec /\ UNCHANGED <<milvus, due>>
     ELSE IF rec.read # milvus THEN Fail /\ UNCHANGED milvus
     ELSE milvus' = [milvus EXCEPT !.observed = TRUE] /\ rec' = NoRec /\ due' = TRUE
  /\ UNCHANGED <<last, cluster, env>>

-----------------------------------------------------------------------------
(* Everything else.                                                         *)

\* The webhook gives the defaults and refuses what is not valid; without it
\* the API server takes what it gets.
Edit ==
  /\ edits < config.maxEdits
  /\ \E e \in config.edits :
       LET s == [milvus.spec EXCEPT ![e.field] = e.value]
           m == IF config.webhook THEN Default([milvus EXCEPT !.spec = s], operator)
                ELSE [milvus EXCEPT !.spec = s]
       IN  /\ s # milvus.spec
           /\ config.webhook => Valid(m.spec)
           /\ milvus' = [m EXCEPT !.observed = FALSE]
  /\ edits' = edits + 1
  /\ due' = TRUE
  /\ UNCHANGED <<config, secret, operator, rec, last, turns, faults, cluster>>

MilvusReferencesSecret(s) ==
  s.msg = "kafka" /\ (s.sasl \/ (ParseKafkaSecretRefs(s) /\ s.ssl # "none"))

\* The Secret is changed in place, deleted or created again.
Rotate ==
  /\ milvus.spec.msg = "kafka"
  /\ turns < config.maxTurns
  /\ turns' = turns + 1
  /\ secret' \in {0, turns + 2} \ {secret}
  /\ due' = (due \/ MilvusReferencesSecret(milvus.spec))
  /\ UNCHANGED <<config, milvus, operator, rec, last, edits, faults, cluster>>

\* A new operator starts with a reconcile of everything.
Restart(op) ==
  /\ operator' = op
  /\ rec' = NoRec
  /\ due' = TRUE
  /\ UNCHANGED <<config, milvus, secret, last, edits, cluster>>

UpgradeOperator ==
  /\ turns < config.maxTurns
  /\ turns' = turns + 1
  /\ operator = "v1" /\ Restart("v2")
  /\ UNCHANGED faults

Crash ==
  /\ rec.step # "idle" /\ faults < config.maxFaults
  /\ faults' = faults + 1
  /\ Restart(operator)
  /\ UNCHANGED turns

\* kubectl rollout restart.
KubectlRestart ==
  /\ deploy.template # NewTemplate /\ ~deploy.template.restarted
  /\ turns < config.maxTurns
  /\ turns' = turns + 1
  /\ deploy' = [deploy EXCEPT !.template.restarted = TRUE]
  /\ UNCHANGED <<config, milvus, secret, operator, maps, release, pods, due, rec, last, edits, faults>>

\* The status syncer finds the dependencies ready.
DependenciesReady ==
  /\ ~milvus.ready
  /\ \A d \in InCluster(milvus.spec) : release[d] # "nil"
  /\ milvus' = [milvus EXCEPT !.ready = TRUE]
  /\ due' = TRUE
  /\ UNCHANGED <<rec, last, cluster, env>>

\* Pods wait for the ConfigMap that they mount.
Roll ==
  /\ deploy.replicas > 0 /\ pods.template # deploy.template
  /\ maps[deploy.template.mounted] # NoMap
  /\ pods' = [template |-> deploy.template, secret |-> secret]
  /\ UNCHANGED <<milvus, maps, deploy, release, due, rec, last, env>>

-----------------------------------------------------------------------------
Reconcile ==
  \/ StartReconcile \/ SetDefault \/ ReconcileLegacyValues \/ SetDefaultStatus \/ SyncKafkaSaslCheckSum
  \/ ReconcileDependencies \/ ReconcileConfigMaps \/ ReconcileComponentDeployment
  \/ UpdateStatusForNewGeneration

Next ==
  \/ Reconcile \/ DependenciesReady \/ Roll
  \/ Edit \/ Rotate \/ UpgradeOperator \/ Crash \/ KubectlRestart

Spec == Init /\ [][Next]_vars
FairSpec == Spec /\ WF_vars(Reconcile) /\ WF_vars(DependenciesReady) /\ WF_vars(Roll)

-----------------------------------------------------------------------------
(* Properties.                                                              *)

\* The pods are started with a ConfigMap that exists, and the annotation names
\* the one that is mounted, as long as another ConfigMap is only made active
\* in manual mode (updatePodMeta and updateBuiltInVolumes set them apart).
MountedExists ==
  deploy.template # NewTemplate =>
    /\ maps[deploy.template.mounted] # NoMap
    /\ deploy.template.using = deploy.template.mounted

\* Pods are not restarted for nothing: unless the Deployment is new, stopped or
\* asks for the newest tool image, the operator changes a template only when
\* the spec, the credentials or the go-ahead for the image are other than those
\* it was last rendered from -- not because of another version of the operator
\* ("so upgrading the operator does not restart pods").
NoIdleRollout ==
  [][deploy.template' # deploy.template /\ deploy.template'.restarted = deploy.template.restarted =>
       \/ deploy.template = NewTemplate
       \/ Replicas(rec.m.spec) = 0 \/ rec.m.spec.tool
       \/ last # last']_vars

\* Dependencies are not restarted by a new version of the operator: what Helm
\* has been given for a release stays, for new and for legacy instances
\* (DependencyValuesMergedAnnotation, DependencyValuesLegacySyncedAnnotation),
\* up to a replicaCount of etcd and a mode of MinIO that the release lacks.
ChartValuesKept ==
  [][\A d \in Dependencies : release[d] # "nil" => release'[d] = release[d]]_vars

\* The template is what the Milvus asks for: credentials and certificates that
\* are no longer asked for are gone, and so are the labels of a group.
TemplateMatches ==
  LET s == milvus.spec
      t == deploy.template
  IN  /\ t.image = s.image
      /\ (t.layered = "true") <=> SupportsLayeredConfig(s.image)
      /\ t.creds = DesiredCredentials(s)
      /\ "ssl" \in t.volumes <=> s.msg = "kafka" /\ s.ssl # "none"
      /\ IF s.group = NoGroup THEN s.labels \subseteq t.labels
         ELSE t.labels = {"app"} \cup PodLabels(s)

\* With updateConfigMapOnly = false the pods also have the credentials.
PodsMatch ==
  LET s == milvus.spec
  IN  s.replicas > 0 /\ ~s.manual =>
        /\ pods.template = deploy.template
        /\ s.only = "false" /\ UsesSecret(s) => pods.secret = secret

\* The ConfigMaps have the configuration: in manual mode the active one, which
\* new pods will use, and otherwise all.
ConfigMatches ==
  \A c \in Listed(milvus.spec) : maps[c] = UpdateConfigMap(milvus.spec, StorageSecret(milvus.spec))

\* In the end what runs is what the Milvus says, and the operator comes to
\* rest, unless a Secret is missing or the references to it are wrong.
Converges ==
  <>[](\/ UsesSecret(milvus.spec) /\ (secret = 0 \/ ~ParseKafkaSecretRefs(milvus.spec))
       \/ At("idle") /\ ~due /\ TemplateMatches /\ PodsMatch /\ ConfigMatches)

\* Credentials that are rotated reach the pods whatever updateConfigMapOnly is
\* ("rotating the credentials in place re-renders the configmap and rolls the
\* Milvus components so that they pick the new credentials up").
RotationReachesPods ==
  <>[](UsesSecret(milvus.spec) /\ secret # 0 => pods.secret = secret)
=============================================================================
