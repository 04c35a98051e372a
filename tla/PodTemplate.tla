----------------------------- MODULE PodTemplate ----------------------------
(***************************************************************************)
(* How the pod template of a component follows from the Milvus and from    *)
(* the template there is (deployment_updater.go, components.go,            *)
(* kafka_secrets.go), and the ConfigMap that it mounts (configmaps.go).    *)
(* A template keeps what it has unless there is a reason to touch it: a    *)
(* change of the template restarts the pods.                               *)
(***************************************************************************)
EXTENDS SpecDefaults

CONSTANT Nothing \* what is not there

\* The ConfigMap of a Milvus has its name unless spec.components says otherwise.
ConfigMaps == {"milvus", "new"}
GetActiveConfigMap(s) == IF s.active = Blank THEN "milvus" ELSE s.active

\* Environment variables with credentials.
Credentials == {"storage", "sasl"}

\* labels, restarted: metadata of the pods; service: the label that the
\* Service selects; sum, using: annotations with the checksum of the
\* configuration and the ConfigMap; mounted: the ConfigMap in the volumes;
\* volumes: other volumes; layered: the variable
\* MILVUS_OPERATOR_LAYERED_CONFIG; script: the version of the operator whose
\* image the init container has; probes: the version whose probes, lifecycle
\* and grace period it has.
TemplateType(Sums) ==
  [labels: SUBSET LabelKeys, restarted: BOOLEAN, service: BOOLEAN, sum: Sums,
   using: ConfigMaps \cup {Nothing}, mounted: ConfigMaps \cup {Nothing},
   volumes: SUBSET {"user", "data", "ssl", "ca"}, creds: SUBSET Credentials,
   image: {"2.4", "2.5", "2.6", Nothing}, layered: {Blank, "true", "false"},
   script: Operators \cup {Nothing}, probes: Operators \cup {Nothing}]

NewTemplate ==
  [labels |-> {}, restarted |-> FALSE, service |-> FALSE, sum |-> Nothing,
   using |-> Nothing, mounted |-> Nothing, volumes |-> {}, creds |-> {}, image |-> Nothing,
   layered |-> Blank, script |-> Nothing, probes |-> Nothing]

IsUpdateConfigMapOnly(m) == m.spec.only # "false"

\* The streams that the configuration does not name are not in the checksum,
\* and neither is the type of the stream.
GetConfCheckSum(m) ==
  <<m.spec.conf, m.spec.standby, m.spec.ssl, m.spec.etcdEndpoints, m.spec.pulsar, m.spec.brokers, m.spec.endpoint,
    IF m.spec.dep["woodpecker"].external THEN m.spec.pools ELSE 0, m.spec.sasl, m.sum>>

\* The merged spec of the component with the overrides of its group.
PodLabels(s) == s.labels \cup (IF s.group = NoGroup THEN {} ELSE s.group)

\* The prefixes kept for kubectl, Kubernetes and the operator.
Preserved == {"milvus.io/any"}

\* updatePodMeta.  A group owns its metadata, and what it no longer asks for
\* goes; without groups the metadata is only added to.
DesiredPodTemplateLabels(s, t) ==
  (IF s.group = NoGroup THEN t.labels ELSE t.labels \cap Preserved) \cup PodLabels(s) \cup {"app"}

DesiredCheckSum(m, t) == IF IsUpdateConfigMapOnly(m) THEN t.sum ELSE GetConfCheckSum(m)

DesiredUsing(s, t) == IF s.group = NoGroup THEN t.using ELSE GetActiveConfigMap(s)

\* Streams that keep their data in Milvus.
GetMilvusBuiltInMQ(s) ==
  s.msg = "rocksmq" \/ (s.msg = "woodpecker" /\ ~s.dep["woodpecker"].external)

\* Volumes are added, never removed.
UpdateUserDefinedVolumes(s, volumes) ==
  volumes \cup (IF s.volume THEN {"user"} ELSE {}) \cup (IF GetMilvusBuiltInMQ(s) THEN {"data"} ELSE {})

\* Whether the references to Secrets in the configuration are valid: those that
\* are not are still returned, with an error.
ParseKafkaSecretRefs(s) == s.ssl # "bad"

\* The secretRef counts for kafka alone.
GetKafkaSecretRef(s) == s.msg = "kafka" /\ s.sasl

\* The operator's own volume goes when it is no longer asked for.
InjectKafkaSecretsIntoTemplate(s, volumes) ==
  (volumes \ {"ssl"}) \cup (IF s.msg = "kafka" /\ s.ssl # "none" THEN {"ssl"} ELSE {})

DesiredCredentials(s) ==
  (IF s.storage # Blank THEN {"storage"} ELSE {}) \cup (IF GetKafkaSecretRef(s) THEN {"sasl"} ELSE {})

PruneStorageCredentialEnv(creds, desired) == creds \cap desired

SupportsLayeredConfig(image) == image \in {"2.5", "2.6"}

\* The image waits for the components that come first (ComponentOrder); for
\* the first of them, until the status has seen the generation.
UpdatedImage(m, t, force) ==
  IF force \/ m.spec.rolling # "true" \/ m.spec.imageMode \in {"all", "force"} \/ m.observed
  THEN m.spec.image ELSE t.image

\* The init container stays, unless the Milvus asks for the newest, or the
\* container starts to use the layered configuration.
UpdatedScript(m, t, op, layered) ==
  IF t.script = Nothing \/ m.spec.tool \/ (layered /\ t.layered # "true") THEN op ELSE t.script

\* What follows from the Milvus.
UpdatedByCR(m, t, op, force) ==
  LET s == m.spec
      image == UpdatedImage(m, t, force)
      layered == SupportsLayeredConfig(image)
  IN  [t EXCEPT !.labels = DesiredPodTemplateLabels(s, t),
                !.service = @ \/ s.group # NoGroup,
                !.sum = DesiredCheckSum(m, t),
                !.using = DesiredUsing(s, t),
                !.volumes = InjectKafkaSecretsIntoTemplate(s, UpdateUserDefinedVolumes(s, @)),
                !.creds = PruneStorageCredentialEnv(@, DesiredCredentials(s)) \cup DesiredCredentials(s),
                !.image = image,
                !.layered = IF layered THEN "true" ELSE "false",
                !.script = UpdatedScript(m, t, op, layered)]

\* Mutant: the ConfigMap stays.
MutantUpdateSomeFieldsOnlyWhenRolling(s, t, op) ==
  [t EXCEPT !.using = GetActiveConfigMap(s), !.script = op, !.service = TRUE, !.probes = op,
            !.mounted = IF @ = Nothing THEN GetActiveConfigMap(s) ELSE @]

\* Built-in volumes, the init container, the label of the Service and the
\* defaults of the operator: for these alone pods are not restarted.
UpdateSomeFieldsOnlyWhenRolling(s, t, op) ==
  [t EXCEPT !.using = GetActiveConfigMap(s), !.mounted = GetActiveConfigMap(s),
            !.volumes = @ \cup (IF GetKafkaSecretRef(s) THEN {"ca"} ELSE {}),
            !.script = op, !.service = TRUE, !.probes = op]

\* Mutant: the defaults are always applied.
MutantUpdatePodTemplate(m, t, op, force) ==
  UpdateSomeFieldsOnlyWhenRolling(m.spec, UpdatedByCR(m, t, op, force), op)

UpdatePodTemplate(m, t, op, force) ==
  LET u == UpdatedByCR(m, t, op, force)
  IN  IF u # t \/ force THEN UpdateSomeFieldsOnlyWhenRolling(m.spec, u, op) ELSE t

-----------------------------------------------------------------------------
(* The content of a ConfigMap.                                              *)

\* The sections of the message streams in the operator's configuration.
Sections(msg) ==
  CASE msg = "kafka" -> {"kafka"} [] msg = "pulsar" -> {"pulsar"}
    [] msg = "rocksmq" -> {"rocksmq"} [] OTHER -> {}

ConfigType ==
  [conf: {"a", "b"}, standby: BOOLEAN, sections: SUBSET {"kafka", "pulsar", "rocksmq"},
   mq: {"rocksmq", "pulsar", "kafka", "woodpecker"}, etcd: 0..MaxReplicas, minio: BOOLEAN,
   ssl: BOOLEAN]

\* Paths of certificates are written, and not the credentials of kafka.
\* minio: whether the Secret of the storage could be read; an error is not one.
UpdateConfigMap(s, minio) ==
  [conf |-> s.conf, standby |-> s.standby, sections |-> Sections(s.msg), mq |-> s.msg,
   etcd |-> s.etcdEndpoints, minio |-> minio, ssl |-> s.msg = "kafka" /\ s.ssl # "none"]
=============================================================================
