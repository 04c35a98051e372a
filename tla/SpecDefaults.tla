---------------------------- MODULE SpecDefaults ----------------------------
(***************************************************************************)
(* What the webhook and the start of a reconcile make of a Milvus          *)
(* (milvus_webhook.go): the defaults of the metadata, of the mode, of the  *)
(* dependencies and of the configuration, and which specs are refused.     *)
(* The defaults of spec.components are in Components.  A Milvus is a       *)
(* record of its spec and of the labels, annotations and status fields     *)
(* that the defaults depend on.                                            *)
(***************************************************************************)
EXTENDS Integers, FiniteSets

CONSTANTS
  MaxReplicas, \* the replicas of etcd in cluster mode
  NoGroup      \* no deployment group

\* A string that is left empty.
Blank == ""

\* Versions of the operator: v0 is from before this code.
Operators == {"v0", "v1", "v2"}

Dependencies == {"etcd", "kafka", "pulsar", "woodpecker", "storage", "tei"}

\* Keys of labels: the selector's, the pods', a group's, and one that a group
\* takes from a prefix that is reserved.
LabelKeys == {"app", "pod", "group", "milvus.io/any"}

\* What the chart of a dependency gets: no values, those of the user alone,
\* merged into the defaults of a version of the operator, or read back from
\* the release.  Two keys are left out of it, which the defaults add to values of
\* any kind that lack them: the replicaCount of etcd, which is etcdReplicas, and
\* the mode of MinIO.
ValuesType == {"nil", "user", "release"} \cup Operators
DependencyType ==
  [external: BOOLEAN, chart: {Blank, "v2", "v3", "v8"}, values: ValuesType,
   policy: {Blank, "Delete", "Retain"}]

SpecType ==
  [mode: {Blank, "standalone", "cluster"}, image: {"2.4", "2.5", "2.6"},
   msg: {Blank, "rocksmq", "pulsar", "kafka", "woodpecker"},
   dep: [Dependencies -> DependencyType],
   tei: BOOLEAN, etcdReplicas: -1..MaxReplicas, etcdEndpoints: 0..MaxReplicas,
   brokers: 0..1, pulsar: 0..1, pools: 0..1, endpoint: 0..1, storage: {Blank, "own", "minio"},
   sasl: BOOLEAN,
   ssl: {"none", "cert", "bad"}, conf: {"a", "b"}, standby: BOOLEAN,
   rolling: {"unset", "true", "false"}, rollingMode: 0..3,
   imageMode: {Blank, "rollingUpgrade", "all", "force"}, surge: 0..1, unavailable: 0..1,
   only: {"unset", "true", "false"}, tool: BOOLEAN, active: {Blank, "new"}, manual: BOOLEAN,
   statefulSet: BOOLEAN, labels: SUBSET {"pod"}, group: (SUBSET LabelKeys) \cup {NoGroup},
   volume: BOOLEAN, replicas: 0..1]

-----------------------------------------------------------------------------
(* Default: each operator gives the default of one part of a Milvus m with  *)
(* the spec s.                                                              *)

IsFirstTimeStarting(m) == ~m.started

\* DefaultMeta: an instance that is older than the label of the operator's
\* version is legacy.
DefaultVersion(m, op) == IF m.version # Blank THEN m.version ELSE IF m.started THEN "legacy" ELSE op
DefaultSynced(m) == IF m.version = Blank /\ m.started THEN "false" ELSE m.synced

IsLegacy(m, op) == DefaultVersion(m, op) = "legacy"

DefaultMode(s) == IF s.mode = Blank THEN "standalone" ELSE s.mode

SetDefaultMsgStreamType(s) ==
  CASE s.msg # Blank -> s.msg
    [] s.msg = Blank /\ DefaultMode(s) = "cluster" -> "pulsar"
    [] OTHER -> IF s.image = "2.6" THEN "woodpecker" ELSE "rocksmq"

\* The chart's defaults go into the values once, and never for a legacy one.
\* (replicaCount and mode are added to the user's and to a release's, too.)
DefaultValuesByDependency(m, d, op) ==
  LET user == IF m.spec.dep[d].values = "nil" THEN "user" ELSE m.spec.dep[d].values
  IN  IF d = "tei" \/ m.merged \/ IsLegacy(m, op) THEN user ELSE op

DefaultChart(m, d) ==
  CASE m.spec.dep[d].chart # Blank -> m.spec.dep[d].chart
    [] m.spec.dep[d].chart = Blank /\ d = "etcd" -> IF IsFirstTimeStarting(m) THEN "v8" ELSE Blank
    [] m.spec.dep[d].chart = Blank /\ d = "pulsar" -> IF IsFirstTimeStarting(m) THEN "v3" ELSE "v2"
    [] OTHER -> Blank

DefaultPolicy(m, d) ==
  IF m.spec.dep[d].policy # Blank THEN m.spec.dep[d].policy ELSE IF d = "tei" THEN "Delete" ELSE "Retain"

\* The dependencies that Helm deploys.
InCluster(s) ==
  {d \in {"etcd", "storage"} : ~s.dep[d].external}
  \cup {d \in {"kafka", "pulsar"} : SetDefaultMsgStreamType(s) = d /\ ~s.dep[d].external}
  \cup (IF s.tei THEN {"tei"} ELSE {})

\* Mutant: the values are merged again and again.
MutantDefaultDependencies(m, op) ==
  [d \in Dependencies |->
     IF d \notin InCluster(m.spec) THEN m.spec.dep[d]
     ELSE [external |-> m.spec.dep[d].external, chart |-> DefaultChart(m, d),
           values |-> IF IsLegacy(m, op) THEN DefaultValuesByDependency(m, d, op) ELSE op,
           policy |-> DefaultPolicy(m, d)]]

DefaultDependencies(m, op) ==
  [d \in Dependencies |->
     IF d \notin InCluster(m.spec) THEN m.spec.dep[d]
     ELSE [external |-> m.spec.dep[d].external, chart |-> DefaultChart(m, d),
           values |-> DefaultValuesByDependency(m, d, op), policy |-> DefaultPolicy(m, d)]]

DefaultEtcdReplicas(s) ==
  CASE s.etcdReplicas >= 0 \/ s.dep["etcd"].external -> s.etcdReplicas
    [] OTHER -> IF DefaultMode(s) = "standalone" THEN 1 ELSE MaxReplicas

\* The endpoints are those of the replicas there are when none is given.
DefaultEtcdEndpoints(s) ==
  IF s.etcdEndpoints = 0 /\ ~s.dep["etcd"].external THEN DefaultEtcdReplicas(s) ELSE s.etcdEndpoints

IsRollingUpdateSupportedByConfig(mode, msg) == mode = "cluster" \/ msg # "rocksmq"

DefaultRollingUpdate(s) ==
  IF ~IsRollingUpdateSupportedByConfig(DefaultMode(s), SetDefaultMsgStreamType(s)) THEN "false"
  ELSE IF s.rolling = "unset" THEN "true" ELSE s.rolling

\* Coordinators that can be updated one by one stand by for each other.
DefaultSpec(m, op) ==
  LET s == m.spec
      in == InCluster(s)
  IN  [s EXCEPT !.mode = DefaultMode(s),
                !.rollingMode = IF @ = 0 THEN 2 ELSE @,
                !.imageMode = IF @ = Blank THEN "rollingUpgrade" ELSE @,
                !.only = IF @ = "unset" THEN "true" ELSE @,
                !.msg = SetDefaultMsgStreamType(s),
                !.dep = DefaultDependencies(m, op),
                !.etcdReplicas = DefaultEtcdReplicas(s),
                !.etcdEndpoints = DefaultEtcdEndpoints(s),
                !.brokers = IF "kafka" \in in THEN 1 ELSE @,
                !.pulsar = IF "pulsar" \in in THEN 1 ELSE @,
                !.endpoint = IF "storage" \in in THEN 1 ELSE @,
                !.storage = IF "storage" \in in THEN "minio" ELSE @,
                !.rolling = DefaultRollingUpdate(s),
                !.standby = @ \/ DefaultRollingUpdate(s) = "true"]

Default(m, op) ==
  [m EXCEPT !.version = DefaultVersion(m, op), !.synced = DefaultSynced(m),
            !.service = @ \/ IsFirstTimeStarting(m),
            !.merged = TRUE, !.spec = DefaultSpec(m, op)]

-----------------------------------------------------------------------------
(* What is refused.                                                         *)

Reserved == {"app", "milvus.io/any"}

\* Metadata that the operator or Kubernetes keeps cannot be a group's.
ValidateDeploymentGroups(s) == s.group # NoGroup => s.group \cap Reserved = {}

ValidateComponentStatefulSets(s) == ~(s.statefulSet /\ s.rollingMode = 3)

ValidateExternal(s) ==
  /\ s.dep["etcd"].external => s.etcdEndpoints > 0
  /\ s.dep["storage"].external => s.endpoint > 0
  /\ s.msg = "kafka" /\ s.dep["kafka"].external => s.brokers > 0
  /\ s.msg = "pulsar" /\ s.dep["pulsar"].external => s.pulsar > 0
  /\ s.msg = "woodpecker" /\ s.dep["woodpecker"].external => s.pools > 0

ValidateCommon(s) ==
  /\ s.rollingMode \in {0, 2, 3}
  /\ s.rolling = "true" => IsRollingUpdateSupportedByConfig(s.mode, s.msg)

\* A rolling update that could not replace any pod.
ValidateRollingUpdates(s) == s.surge > 0 \/ s.unavailable > 0

Valid(s) ==
  /\ ValidateCommon(s)
  /\ ValidateExternal(s)
  /\ ValidateDeploymentGroups(s)
  /\ ValidateComponentStatefulSets(s)
  /\ ValidateRollingUpdates(s)
=============================================================================
