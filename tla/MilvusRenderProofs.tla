-------------------------- MODULE MilvusRenderProofs -------------------------
(***************************************************************************)
(* From the Milvus to its pods, for every instance, every edit, every      *)
(* change of the operator and every crash.                                 *)
(***************************************************************************)
EXTENDS MilvusRender, TLAPS

\* Zenon proves what follows; the steps that need arithmetic cite SMT.
USE Zenon

-----------------------------------------------------------------------------
(* The parts of the inductive invariant.                                    *)

\* A reconcile works on the spec that it has read or written, and after the
\* defaults that spec names a message stream.
RecOK ==
  rec.step # "idle" =>
    /\ rec.m.spec = rec.read.spec
    /\ rec.step = "default" => rec.m = rec.read
    /\ rec.step # "default" => rec.m.spec.msg # Blank

\* The Milvus stays in manual mode, or the active ConfigMap stays the same (for
\* an instance from an older operator, the one that operator has made).
AlwaysManual(c) == c.spec.manual /\ \A e \in c.edits : e.field # "manual"
ActiveFixed(c) == (\A e \in c.edits : e.field # "active") /\ (c.old => c.spec.active = Blank)
ActiveKnown == \A c \in Configs : AlwaysManual(c) \/ ActiveFixed(c)

\* What is known of the spec of every copy of the Milvus.
ActiveAs(s) == IF AlwaysManual(config) THEN s.manual ELSE s.active = config.spec.active

MapsOK ==
  /\ MountedExists
  /\ deploy.template # NewTemplate => deploy.template.mounted \in ConfigMaps
  /\ ActiveAs(milvus.spec)
  /\ rec.step # "idle" => ActiveAs(rec.m.spec)
  /\ ~AlwaysManual(config) => \A c \in ConfigMaps : maps[c] # NoMap => c = GetActiveConfigMap(config.spec)
  /\ rec.step = "all" /\ "deploy" \in rec.todo => maps[GetActiveConfigMap(rec.m.spec)] # NoMap

\* Rendering t from m again would change nothing.
Settled(m, t) ==
  /\ t.labels = DesiredPodTemplateLabels(m.spec, t)
  /\ m.spec.group # NoGroup => t.service
  /\ t.sum = DesiredCheckSum(m, t)
  /\ t.using = DesiredUsing(m.spec, t)
  /\ t.volumes = InjectKafkaSecretsIntoTemplate(m.spec, UpdateUserDefinedVolumes(m.spec, t.volumes))
  /\ t.creds = PruneStorageCredentialEnv(t.creds, DesiredCredentials(m.spec)) \cup DesiredCredentials(m.spec)
  /\ t.image = UpdatedImage(m, t, FALSE)
  /\ t.layered = IF SupportsLayeredConfig(t.image) THEN "true" ELSE "false"
  /\ t.script # Nothing

LastOK == last # Nothing => Settled(last, deploy.template)

\* The user leaves the values of the dependencies to the operator, or gives
\* them at the start.
ValuesLeft == \A c \in Configs :
  /\ \A e \in c.edits : e.field # "dep"
  /\ \A d \in Dependencies : c.spec.dep[d].values \in {"nil", "user"}

Values(m, d) == m.spec.dep[d].values

\* The instance is from an older operator, or will be taken for one, and the
\* values of its releases have not been read back.
Pending(m) ==
  \/ m.version = "legacy" /\ m.synced # "true"
  \/ m.version = Blank /\ m.started

\* What is true of every copy of the Milvus.
CopyOK(m) ==
  /\ m.version = Blank <=> ~m.merged
  /\ ~m.merged => \A d \in Dependencies : Values(m, d) \in {"nil", "user"}
  /\ \A d \in Dependencies : m.spec.dep[d].external = config.spec.dep[d].external

\* What is true of the Milvus that is stored, and of its releases.
StoredOK(m) ==
  /\ CopyOK(m)
  /\ config.webhook => m.merged \/ m.started

ReleaseOK(m) ==
  \A d \in Dependencies : release[d] # "nil" =>
    /\ m.started
    /\ d = "tei" \/ (~Pending(m) /\ ~config.spec.dep[d].external) => Values(m, d) = release[d]
    /\ Pending(m) => d \in {"etcd", "storage", "tei"}

\* The copy that a reconcile works on: its values are those stored, and once it
\* may be handed to Helm it has values, and none that are pending.
WorkOK ==
  rec.step # "idle" =>
    /\ CopyOK(rec.m)
    /\ \A d \in Dependencies : Values(rec.m, d) # "nil" => Values(milvus, d) = Values(rec.m, d)
    /\ Pending(rec.m) <=> Pending(milvus)
    /\ rec.m.started = rec.read.started
    /\ rec.m.started => milvus.started
    /\ rec.step # "default" => \A d \in InCluster(rec.m.spec) : Values(rec.m, d) # "nil"
    /\ rec.step \in {"legacy", "status"} => rec.m.merged
    /\ rec.step \in {"legacy", "status"} /\ rec.read.version = Blank /\ ~rec.read.started =>
         InCluster(rec.m.spec) \subseteq {"tei"}
    /\ rec.step = "status" => ~Pending(rec.m)
    /\ rec.step \in {"sum", "all", "observe"} =>
         rec.m.started /\ (Pending(rec.m) => InCluster(rec.m.spec) \subseteq {"tei"})

ValuesOK == StoredOK(milvus) /\ ReleaseOK(milvus) /\ WorkOK

\* The defaults of the webhook are of the type of a spec.
LEMMA DefaultSpecType ==
  ASSUME NEW m \in MilvusType, NEW op \in Operators
  PROVE  DefaultSpec(m, op) \in SpecType
<1> DEFINE s == m.spec
<1>1. s \in SpecType
  BY DEF MilvusType
<1>2. DefaultMode(s) \in {Blank, "standalone", "cluster"}
  BY <1>1 DEF DefaultMode, SpecType
<1>3. SetDefaultMsgStreamType(s) \in {Blank, "rocksmq", "pulsar", "kafka", "woodpecker"}
  BY <1>1 DEF SetDefaultMsgStreamType, SpecType
<1>4. DefaultDependencies(m, op) \in [Dependencies -> DependencyType]
  <2>1. ASSUME NEW d \in Dependencies PROVE m.spec.dep[d] \in DependencyType
    BY <1>1 DEF SpecType
  <2>2. ASSUME NEW d \in Dependencies
        PROVE  /\ DefaultChart(m, d) \in {Blank, "v2", "v3", "v8"}
               /\ DefaultValuesByDependency(m, d, op) \in ValuesType
               /\ DefaultPolicy(m, d) \in {Blank, "Delete", "Retain"}
    BY <2>1, <2>2 DEF DefaultChart, DefaultValuesByDependency, DefaultPolicy, DependencyType, ValuesType
  <2> QED
    BY <2>1, <2>2 DEF DefaultDependencies, DependencyType
<1>5. DefaultEtcdReplicas(s) \in -1..MaxReplicas /\ (~s.dep["etcd"].external => DefaultEtcdReplicas(s) \in 0..MaxReplicas)
  BY SMT, <1>1, RenderAssumption DEF DefaultEtcdReplicas, SpecType
<1>6. DefaultEtcdEndpoints(s) \in 0..MaxReplicas
  BY <1>1, <1>5 DEF DefaultEtcdEndpoints, SpecType
<1>7. DefaultRollingUpdate(s) \in {"unset", "true", "false"}
  BY <1>1 DEF DefaultRollingUpdate, SpecType
<1> DEFINE in == InCluster(s)
           rollingMode == IF s.rollingMode = 0 THEN 2 ELSE s.rollingMode
           imageMode == IF s.imageMode = Blank THEN "rollingUpgrade" ELSE s.imageMode
           only == IF s.only = "unset" THEN "true" ELSE s.only
           brokers == IF "kafka" \in in THEN 1 ELSE s.brokers
           pulsar == IF "pulsar" \in in THEN 1 ELSE s.pulsar
           endpoint == IF "storage" \in in THEN 1 ELSE s.endpoint
           storage == IF "storage" \in in THEN "minio" ELSE s.storage
           standby == s.standby \/ DefaultRollingUpdate(s) = "true"
<1>8. /\ rollingMode \in 0..3 /\ imageMode \in {Blank, "rollingUpgrade", "all", "force"}
      /\ only \in {"unset", "true", "false"} /\ storage \in {Blank, "own", "minio"} /\ standby \in BOOLEAN
  BY SMT, <1>1 DEF SpecType
<1>9. brokers \in 0..1 /\ pulsar \in 0..1 /\ endpoint \in 0..1
  BY SMT, <1>1 DEF SpecType
<1>10. DefaultSpec(m, op) =
         [s EXCEPT !.mode = DefaultMode(s), !.rollingMode = rollingMode, !.imageMode = imageMode, !.only = only,
                   !.msg = SetDefaultMsgStreamType(s), !.dep = DefaultDependencies(m, op),
                   !.etcdReplicas = DefaultEtcdReplicas(s), !.etcdEndpoints = DefaultEtcdEndpoints(s),
                   !.brokers = brokers, !.pulsar = pulsar, !.endpoint = endpoint, !.storage = storage,
                   !.rolling = DefaultRollingUpdate(s), !.standby = standby]
  BY <1>1 DEF DefaultSpec
<1> HIDE DEF s, in, rollingMode, imageMode, only, brokers, pulsar, endpoint, storage, standby
<1> DEFINE r == [s EXCEPT !.mode = DefaultMode(s), !.rollingMode = rollingMode]
           t == [r EXCEPT !.imageMode = imageMode, !.only = only]
           u == [t EXCEPT !.msg = SetDefaultMsgStreamType(s), !.dep = DefaultDependencies(m, op),
                          !.etcdReplicas = DefaultEtcdReplicas(s), !.etcdEndpoints = DefaultEtcdEndpoints(s)]
           v == [u EXCEPT !.brokers = brokers, !.pulsar = pulsar, !.endpoint = endpoint]
           w == [v EXCEPT !.storage = storage, !.rolling = DefaultRollingUpdate(s), !.standby = standby]
<1>11. DefaultSpec(m, op) = w
  BY <1>10
<1>r. r \in SpecType
  BY ZenonT(60), <1>1, <1>2, <1>8 DEF SpecType
<1> HIDE DEF r
<1>12. t \in SpecType
  BY ZenonT(60), <1>8, <1>r DEF SpecType
<1> HIDE DEF t
<1>13. u \in SpecType
  BY ZenonT(60), <1>3, <1>4, <1>5, <1>6, <1>12 DEF SpecType
<1> HIDE DEF u
<1>14. v \in SpecType
  BY ZenonT(60), <1>9, <1>13 DEF SpecType
<1> HIDE DEF v
<1>15. w \in SpecType
  BY ZenonT(240), <1>7, <1>8, <1>14 DEF SpecType
<1> QED
  BY <1>11, <1>15

\* What the defaults leave alone, and that the stream gets a name.
LEMMA DefaultSpecFacts ==
  ASSUME NEW m \in MilvusType, NEW op \in Operators
  PROVE  LET t == DefaultSpec(m, op)
         IN  /\ t.active = m.spec.active /\ t.manual = m.spec.manual /\ t.tei = m.spec.tei
             /\ t.msg = SetDefaultMsgStreamType(m.spec) /\ t.msg # Blank
             /\ t.dep = DefaultDependencies(m, op)
<1>1. m.spec \in SpecType
  BY DEF MilvusType
<1>2. {"active", "manual", "tei", "msg", "dep"} \subseteq DOMAIN m.spec
  BY <1>1 DEF SpecType
<1>3. SetDefaultMsgStreamType(m.spec) # Blank
  BY DEF SetDefaultMsgStreamType, Blank
<1> QED
  BY <1>2, <1>3 DEF DefaultSpec

LEMMA DefaultType ==
  ASSUME NEW m \in MilvusType, NEW op \in Operators
  PROVE  LET n == Default(m, op)
         IN  /\ n \in MilvusType
             /\ n.spec = DefaultSpec(m, op) /\ n.merged /\ n.version = DefaultVersion(m, op)
             /\ n.synced = DefaultSynced(m) /\ n.started = m.started
<1>1. DefaultSpec(m, op) \in SpecType
  BY DefaultSpecType
<1>2. DefaultVersion(m, op) \in {Blank, "legacy"} \cup Operators /\ DefaultSynced(m) \in {Blank, "false", "true"}
  BY DEF DefaultVersion, DefaultSynced, MilvusType
<1>3. (m.service \/ IsFirstTimeStarting(m)) \in BOOLEAN
  OBVIOUS
<1>4. Default(m, op) \in MilvusType
  BY <1>1, <1>2, <1>3 DEF Default, MilvusType
<1> QED
  BY <1>4 DEF Default, MilvusType

\* An edit that is one of a spec's fields is one of every spec's.
LEMMA EditType ==
  ASSUME NEW s \in SpecType, NEW c \in Configs, NEW e \in c.edits
  PROVE  [s EXCEPT ![e.field] = e.value] \in SpecType
<1>1. c.spec \in SpecType /\ [c.spec EXCEPT ![e.field] = e.value] \in SpecType
  BY RenderAssumption DEF IsConfig
<1> QED
  BY ZenonT(240), <1>1 DEF SpecType

LEMMA ConfigMapType ==
  ASSUME NEW s \in SpecType, s.msg # Blank, NEW minio \in BOOLEAN
  PROVE  UpdateConfigMap(s, minio) \in ConfigType /\ UpdateConfigMap(s, minio) # NoMap
<1>1. Sections(s.msg) \in SUBSET {"kafka", "pulsar", "rocksmq"}
  BY DEF Sections
<1>2. s.msg \in {"rocksmq", "pulsar", "kafka", "woodpecker"}
  BY DEF SpecType
<1>3. s.conf \in {"a", "b"} /\ s.standby \in BOOLEAN /\ s.etcdEndpoints \in 0..MaxReplicas
  BY DEF SpecType
<1>4. (s.msg = "kafka" /\ s.ssl # "none") \in BOOLEAN
  OBVIOUS
<1>5. UpdateConfigMap(s, minio) \in ConfigType
  BY <1>1, <1>2, <1>3, <1>4 DEF UpdateConfigMap, ConfigType
<1> QED
  BY <1>5, RenderAssumption DEF NoMap

\* A template that is rendered is a template.
LEMMA TemplateTyped ==
  ASSUME NEW m \in MilvusType, NEW t \in Template, NEW op \in Operators, NEW force \in BOOLEAN
  PROVE  UpdatePodTemplate(m, t, op, force) \in Template
<1> DEFINE u == UpdatedByCR(m, t, op, force)
<1>1. m.spec \in SpecType
  BY DEF MilvusType
<1>2. GetConfCheckSum(m) \in Sums
  <2>1. /\ m.spec.conf \in {"a", "b"} /\ m.spec.standby \in BOOLEAN /\ m.spec.ssl \in {"none", "cert", "bad"}
        /\ m.spec.etcdEndpoints \in 0..MaxReplicas /\ m.spec.pulsar \in 0..1 /\ m.spec.brokers \in 0..1
        /\ m.spec.endpoint \in 0..1 /\ m.spec.pools \in 0..1 /\ m.spec.sasl \in BOOLEAN
    BY <1>1 DEF SpecType
  <2>2. m.sum \in CheckSumType
    BY DEF MilvusType
  <2>3. 0 \in 0..1
    BY SMT
  <2> QED
    BY <2>1, <2>2, <2>3 DEF GetConfCheckSum, Sums
<1>3. DesiredCheckSum(m, t) \in {Nothing} \cup Sums
  BY <1>2 DEF DesiredCheckSum, Template, TemplateType
<1>4. GetActiveConfigMap(m.spec) \in ConfigMaps
  BY <1>1 DEF GetActiveConfigMap, ConfigMaps, SpecType
<1>5. DesiredPodTemplateLabels(m.spec, t) \in SUBSET LabelKeys
  <2>1. m.spec.labels \subseteq LabelKeys /\ (m.spec.group # NoGroup => m.spec.group \subseteq LabelKeys)
    <3>1. m.spec.labels \in SUBSET {"pod"} /\ m.spec.group \in (SUBSET LabelKeys) \cup {NoGroup}
      BY <1>1 DEF SpecType
    <3>2. m.spec.labels \subseteq LabelKeys
      BY <3>1 DEF LabelKeys
    <3>3. m.spec.group # NoGroup => m.spec.group \subseteq LabelKeys
      BY <3>1
    <3> QED
      BY <3>2, <3>3
  <2>2. t.labels \subseteq LabelKeys /\ "app" \in LabelKeys
    BY DEF Template, TemplateType, LabelKeys
  <2> QED
    BY <2>1, <2>2 DEF DesiredPodTemplateLabels, PodLabels
<1>6. UpdatedImage(m, t, force) \in {"2.4", "2.5", "2.6", Nothing}
  BY <1>1 DEF UpdatedImage, SpecType, Template, TemplateType
<1>7. DesiredUsing(m.spec, t) \in ConfigMaps \cup {Nothing}
  BY <1>4 DEF DesiredUsing, Template, TemplateType
<1>8. InjectKafkaSecretsIntoTemplate(m.spec, UpdateUserDefinedVolumes(m.spec, t.volumes))
        \in SUBSET {"user", "data", "ssl", "ca"}
  BY DEF InjectKafkaSecretsIntoTemplate, UpdateUserDefinedVolumes, Template, TemplateType
<1>9. PruneStorageCredentialEnv(t.creds, DesiredCredentials(m.spec)) \cup DesiredCredentials(m.spec) \in SUBSET Credentials
  BY DEF PruneStorageCredentialEnv, DesiredCredentials, Credentials
<1>10. \A layered \in BOOLEAN : UpdatedScript(m, t, op, layered) \in Operators \cup {Nothing}
  BY DEF UpdatedScript, Template, TemplateType
<1>11. \A image : SupportsLayeredConfig(image) \in BOOLEAN
  BY SMT DEF SupportsLayeredConfig
<1> DEFINE image == UpdatedImage(m, t, force)
           layered == SupportsLayeredConfig(image)
           v == [t EXCEPT !.labels = DesiredPodTemplateLabels(m.spec, t),
                          !.service = @ \/ m.spec.group # NoGroup,
                          !.sum = DesiredCheckSum(m, t)]
           w == [v EXCEPT !.using = DesiredUsing(m.spec, t),
                          !.volumes = InjectKafkaSecretsIntoTemplate(m.spec, UpdateUserDefinedVolumes(m.spec, t.volumes)),
                          !.creds = PruneStorageCredentialEnv(t.creds, DesiredCredentials(m.spec))
                                      \cup DesiredCredentials(m.spec)]
           value == IF layered THEN "true" ELSE "false"
           script == UpdatedScript(m, t, op, layered)
           x == [w EXCEPT !.image = image, !.layered = value, !.script = script]
<1>12. value \in {Blank, "true", "false"} /\ script \in Operators \cup {Nothing}
  BY <1>10, <1>11
<1>13. u = x
  BY DEF UpdatedByCR
<1> HIDE DEF u, image, layered, value, script
<1>14. v \in Template
  BY ZenonT(240), <1>3, <1>5 DEF Template, TemplateType
<1> HIDE DEF v
<1>15. w \in Template
  BY ZenonT(60), <1>7, <1>8, <1>9, <1>14 DEF Template, TemplateType
<1> HIDE DEF w
<1>16. x \in Template
  BY ZenonT(240), <1>6, <1>12, <1>15 DEF Template, TemplateType, image
<1> HIDE DEF x
<1>17. u.volumes \cup (IF GetKafkaSecretRef(m.spec) THEN {"ca"} ELSE {}) \in SUBSET {"user", "data", "ssl", "ca"}
  BY <1>13, <1>16 DEF Template, TemplateType
<1>18. UpdateSomeFieldsOnlyWhenRolling(m.spec, u, op) \in Template
  BY ZenonT(240), <1>4, <1>13, <1>16, <1>17 DEF UpdateSomeFieldsOnlyWhenRolling, Template, TemplateType
<1> QED
  BY <1>18 DEF UpdatePodTemplate, u

-----------------------------------------------------------------------------
(* What the steps of a reconcile do to the stored Milvus and to the copy.   *)

\* The step ends with an error.
Failed == rec' = NoRec /\ due' \in BOOLEAN /\ milvus' = milvus

\* m is stored (its status apart), and is the new copy.
Wrote(m, step) ==
  /\ rec.read = milvus /\ milvus' \in MilvusType /\ due' \in BOOLEAN
  /\ milvus'.spec = m.spec /\ milvus'.version = m.version /\ milvus'.merged = m.merged
  /\ milvus'.synced = m.synced /\ milvus'.started = m.started
  /\ rec' \in RecType /\ rec'.step = step /\ rec'.m = milvus' /\ rec'.read = milvus'

\* The copy becomes m, and nothing is stored.
Moved(m, step) ==
  /\ milvus' = milvus /\ due' \in BOOLEAN
  /\ rec' \in RecType /\ rec'.step = step /\ rec'.m = m /\ rec'.read = rec.read

\* A part of ReconcileAll has ended, and has added parts.
Worked(job, next) ==
  /\ milvus' = milvus /\ due' \in BOOLEAN
  /\ \/ rec' = NoRec
     \/ /\ rec' \in RecType /\ rec'.m = rec.m /\ rec'.read = rec.read
        /\ rec'.step \in {"all", "observe"} /\ rec'.todo \subseteq (rec.todo \ {job}) \cup next

LEMMA Working ==
  ASSUME TypeOK, rec.step # "idle"
  PROVE  rec \in RecType /\ rec.m \in MilvusType /\ rec.read \in MilvusType
<1>1. NoRec.step = "idle"
  BY DEF NoRec
<1> QED
  BY <1>1 DEF TypeOK, RecType

LEMMA UpdateEffect ==
  ASSUME TypeOK, rec.step # "idle", NEW m \in MilvusType, NEW step \in {"legacy", "status"}, Update(m, step)
  PROVE  Failed \/ Wrote(m, step)
<1> DEFINE stored == [m EXCEPT !.observed = @ /\ m.spec = milvus.spec]
<1>1. stored \in MilvusType
  BY DEF MilvusType
<1>2. /\ stored.spec = m.spec /\ stored.version = m.version /\ stored.merged = m.merged
      /\ stored.synced = m.synced /\ stored.started = m.started
  BY DEF MilvusType
<1>3. (due \/ stored # milvus) \in BOOLEAN
  OBVIOUS
<1>4. CASE rec.read = milvus
  <2>1. milvus' = stored /\ rec' = [rec EXCEPT !.step = step, !.m = stored, !.read = stored] /\ due' = (due \/ stored # milvus)
    BY <1>4 DEF Update, Goto
  <2> HIDE DEF stored
  <2>2. rec' \in RecType /\ rec'.step = step /\ rec'.m = stored /\ rec'.read = stored
    BY <1>1, <2>1, Working DEF RecType
  <2> QED
    BY <1>1, <1>2, <1>3, <1>4, <2>1, <2>2 DEF Wrote
<1>5. CASE rec.read # milvus
  BY <1>5 DEF Update, Fail, Failed
<1> QED
  BY <1>4, <1>5

LEMMA SetDefaultEffect ==
  ASSUME TypeOK, SetDefault
  PROVE  LET m == Default(rec.m, operator)
         IN  Failed \/ Wrote(m, "legacy") \/ (m.spec = rec.m.spec /\ Moved(m, "legacy"))
<1> DEFINE m == Default(rec.m, operator)
<1> SUFFICES Failed \/ Wrote(m, "legacy") \/ (m.spec = rec.m.spec /\ Moved(m, "legacy"))
  OBVIOUS
<1>1. rec.step = "default" /\ rec.step # "idle"
  BY DEF SetDefault, At
<1>2. m \in MilvusType
  BY <1>1, Working, DefaultType DEF TypeOK
<1>3. CASE m.spec # rec.m.spec
  <2>1. Update(m, "legacy")
    BY <1>3 DEF SetDefault
  <2> HIDE DEF m
  <2> QED
    BY <1>1, <1>2, <2>1, UpdateEffect
<1>4. CASE m.spec = rec.m.spec
  <2>1. rec' = [rec EXCEPT !.step = "legacy", !.m = m, !.read = rec.read] /\ milvus' = milvus /\ due' = due
    BY <1>4 DEF SetDefault, Goto
  <2> HIDE DEF m
  <2> QED
    BY <1>1, <1>2, <1>4, <2>1, Working DEF RecType, Moved, TypeOK
<1> QED
  BY <1>3, <1>4

LEMMA SyncedType ==
  ASSUME TypeOK, NEW m \in MilvusType
  PROVE  LET n == SyncLegacyValues(m)
         IN  /\ n \in MilvusType /\ n.synced = "true" /\ n.version = m.version /\ n.merged = m.merged
             /\ n.started = m.started
             /\ \A d \in Dependencies : n.spec.dep[d].external = m.spec.dep[d].external
             /\ \A d \in Dependencies : Values(n, d) =
                  IF d \in InCluster(m.spec) \ {"tei"} THEN IF release[d] = "nil" THEN "user" ELSE release[d] ELSE Values(m, d)
             /\ \A f \in DOMAIN m.spec \ {"dep"} : n.spec[f] = m.spec[f]
<1> DEFINE dep == [d \in Dependencies |->
              IF d \in InCluster(m.spec) \ {"tei"}
              THEN [m.spec.dep[d] EXCEPT !.values = IF release[d] = "nil" THEN "user" ELSE release[d]]
              ELSE m.spec.dep[d]]
           t == [m.spec EXCEPT !.dep = dep]
           n == [m EXCEPT !.synced = "true", !.spec = t]
<1>1. m.spec \in SpecType
  BY DEF MilvusType
<1>2. ASSUME NEW d \in Dependencies
      PROVE  m.spec.dep[d] \in DependencyType /\ (IF release[d] = "nil" THEN "user" ELSE release[d]) \in ValuesType
  BY <1>1, <1>2 DEF SpecType, TypeOK, ValuesType
<1>3. ASSUME NEW d \in Dependencies
      PROVE  /\ dep[d] \in DependencyType /\ dep[d].external = m.spec.dep[d].external
             /\ dep[d].values = IF d \in InCluster(m.spec) \ {"tei"}
                                THEN IF release[d] = "nil" THEN "user" ELSE release[d] ELSE m.spec.dep[d].values
  BY <1>2, <1>3 DEF DependencyType
<1>4. dep \in [Dependencies -> DependencyType]
  BY <1>3
<1>5. SyncLegacyValues(m) = n
  BY DEF SyncLegacyValues
<1> HIDE DEF dep
<1>6. t \in SpecType /\ t.dep = dep
  BY ZenonT(60), <1>1, <1>4 DEF SpecType
<1>7. \A f \in DOMAIN m.spec \ {"dep"} : t[f] = m.spec[f]
  OBVIOUS
<1> HIDE DEF t
<1>8. n \in MilvusType /\ n.spec = t /\ n.synced = "true" /\ n.version = m.version /\ n.merged = m.merged /\ n.started = m.started
  BY <1>6 DEF MilvusType
<1> HIDE DEF n
<1> QED
  BY <1>3, <1>5, <1>6, <1>7, <1>8 DEF Values

LEMMA ReconcileLegacyValuesEffect ==
  ASSUME TypeOK, ReconcileLegacyValues
  PROVE  \/ Failed
         \/ LegacyNeedSyncValues(rec.m) /\ Wrote(SyncLegacyValues(rec.m), "status")
         \/ ~LegacyNeedSyncValues(rec.m) /\ Moved(rec.m, "status")
<1> DEFINE m == SyncLegacyValues(rec.m)
<1>1. rec.step = "legacy" /\ rec.step # "idle"
  BY DEF ReconcileLegacyValues, At
<1>2. m \in MilvusType
  BY <1>1, Working, SyncedType
<1>3. CASE LegacyNeedSyncValues(rec.m)
  <2>1. Update(m, "status")
    BY <1>3 DEF ReconcileLegacyValues
  <2> HIDE DEF m
  <2>2. Failed \/ Wrote(m, "status")
    BY <1>1, <1>2, <2>1, UpdateEffect
  <2> QED
    BY <1>3, <2>2 DEF m
<1>4. CASE ~LegacyNeedSyncValues(rec.m)
  <2>1. rec' = [rec EXCEPT !.step = "status", !.m = rec.m, !.read = rec.read] /\ milvus' = milvus /\ due' = due
    BY <1>4 DEF ReconcileLegacyValues, Goto, Continue
  <2> QED
    BY <1>1, <1>4, <2>1, Working DEF RecType, Moved, TypeOK
<1> QED
  BY <1>3, <1>4

LEMMA SetDefaultStatusEffect ==
  ASSUME TypeOK, SetDefaultStatus
  PROVE  \/ Failed
         \/ ~rec.m.started /\ Wrote([milvus EXCEPT !.started = TRUE], "sum")
         \/ rec.m.started /\ Moved(rec.m, "sum")
<1>1. rec.step = "status" /\ rec.step # "idle"
  BY DEF SetDefaultStatus, At
<1>2. rec \in RecType /\ rec.m \in MilvusType
  BY <1>1, Working
<1>3. CASE rec.m.started
  <2>1. rec' = [rec EXCEPT !.step = "sum", !.m = rec.m, !.read = rec.read] /\ milvus' = milvus /\ due' = due
    BY <1>3 DEF SetDefaultStatus, Goto, Continue
  <2> QED
    BY <1>2, <1>3, <2>1, Working, <1>1 DEF RecType, Moved, TypeOK
<1>4. CASE ~rec.m.started
  <2> DEFINE m == [rec.m EXCEPT !.started = TRUE]
             stored == [milvus EXCEPT !.started = m.started, !.observed = m.observed]
  <2>1. m.started = TRUE /\ m.observed \in BOOLEAN
    BY <1>2 DEF MilvusType
  <2>2. UpdateStatus(m, "sum")
    BY <1>4 DEF SetDefaultStatus
  <2> HIDE DEF m
  <2>3. /\ stored \in MilvusType /\ stored.spec = milvus.spec /\ stored.version = milvus.version
        /\ stored.merged = milvus.merged /\ stored.synced = milvus.synced /\ stored.started = TRUE
    BY <2>1 DEF MilvusType, TypeOK
  <2>4. LET n == [milvus EXCEPT !.started = TRUE]
        IN  /\ n.spec = milvus.spec /\ n.version = milvus.version
            /\ n.merged = milvus.merged /\ n.synced = milvus.synced /\ n.started = TRUE
    BY DEF MilvusType, TypeOK
  <2>5. CASE rec.read = milvus
    <3>1. milvus' = stored /\ rec' = [rec EXCEPT !.step = "sum", !.m = stored, !.read = stored] /\ due' = (due \/ stored # milvus)
      BY <2>2, <2>5 DEF UpdateStatus, Goto
    <3> HIDE DEF stored
    <3>2. rec' \in RecType /\ rec'.step = "sum" /\ rec'.m = stored /\ rec'.read = stored
      BY <1>2, <2>3, <3>1 DEF RecType
    <3>3. (due \/ stored # milvus) \in BOOLEAN
      OBVIOUS
    <3> QED
      BY <1>4, <2>3, <2>4, <2>5, <3>1, <3>2, <3>3 DEF Wrote
  <2>6. CASE rec.read # milvus
    BY <2>2, <2>6 DEF UpdateStatus, Fail, Failed
  <2> QED
    BY <2>5, <2>6
<1> QED
  BY <1>3, <1>4

LEMMA SaslCheckSumType ==
  ASSUME TypeOK, NEW t
  PROVE  SaslCheckSum(t) \in CheckSumType
<1>1. 0 \in Versions
  BY SMT, RenderAssumption DEF Versions
<1>2. (t.ssl # "none") \in BOOLEAN
  OBVIOUS
<1> QED
  BY <1>1, <1>2 DEF SaslCheckSum, NoSum, CheckSumType, TypeOK

LEMMA SyncKafkaSaslCheckSumEffect ==
  ASSUME TypeOK, SyncKafkaSaslCheckSum
  PROVE  Failed \/ (rec'.todo = {"helm", "maps"} /\ (Wrote(rec.m, "all") \/ Moved(rec.m, "all")))
<1> DEFINE all == [rec EXCEPT !.step = "all", !.todo = {"helm", "maps"}]
           m == [rec.m EXCEPT !.sum = SaslCheckSum(rec.m.spec)]
           stored == [m EXCEPT !.observed = @ /\ m.spec = milvus.spec]
<1>1. rec.step = "sum" /\ rec.step # "idle"
  BY DEF SyncKafkaSaslCheckSum, At
<1>2. rec \in RecType /\ rec.m \in MilvusType
  BY <1>1, Working
<1>3. all \in RecType /\ all.step = "all" /\ all.m = rec.m /\ all.read = rec.read /\ all.todo = {"helm", "maps"}
  BY <1>2 DEF RecType
<1>4. /\ m \in MilvusType /\ m.spec = rec.m.spec /\ m.version = rec.m.version /\ m.merged = rec.m.merged
      /\ m.synced = rec.m.synced /\ m.started = rec.m.started
  BY <1>2, SaslCheckSumType DEF MilvusType
<1>5. \/ Failed
      \/ rec' = all /\ milvus' = milvus /\ due' = due
      \/ /\ rec.read = milvus /\ milvus' = stored /\ rec' = [all EXCEPT !.m = stored, !.read = stored]
         /\ due' = (due \/ stored # milvus)
  BY DEF SyncKafkaSaslCheckSum, Fail, Failed
<1> HIDE DEF all, m
<1>6. /\ stored \in MilvusType /\ stored.spec = m.spec /\ stored.version = m.version /\ stored.merged = m.merged
      /\ stored.synced = m.synced /\ stored.started = m.started
  BY <1>4 DEF MilvusType
<1>7. (due \/ stored # milvus) \in BOOLEAN
  OBVIOUS
<1>8. CASE rec' = all /\ milvus' = milvus /\ due' = due
  BY <1>3, <1>8 DEF Moved, TypeOK
<1>9. CASE /\ rec.read = milvus /\ milvus' = stored /\ rec' = [all EXCEPT !.m = stored, !.read = stored]
           /\ due' = (due \/ stored # milvus)
  <2> HIDE DEF stored
  <2>1. rec' \in RecType /\ rec'.step = "all" /\ rec'.m = stored /\ rec'.read = stored /\ rec'.todo = {"helm", "maps"}
    BY <1>3, <1>6, <1>9 DEF RecType
  <2> QED
    BY <1>4, <1>6, <1>7, <1>9, <2>1 DEF Wrote
<1> QED
  BY <1>5, <1>8, <1>9

LEMMA DoneEffect ==
  ASSUME TypeOK, NEW job, Job(job), NEW next \in SUBSET {"deploy"}, NEW failed \in BOOLEAN,
         Done(job, next, failed), milvus' = milvus
  PROVE  Worked(job, next)
<1> DEFINE todo == (rec.todo \ {job}) \cup next
           bad == rec.failed \/ failed
<1>1. rec \in RecType
  BY Working DEF Job, At
<1>2. todo \in SUBSET {"helm", "maps", "deploy"} /\ bad \in BOOLEAN /\ due \in BOOLEAN
  BY <1>1 DEF RecType, TypeOK
<1>3. \/ rec' = [rec EXCEPT !.todo = todo, !.failed = bad] /\ due' = due
      \/ rec' = NoRec /\ due' = TRUE
      \/ rec' = [rec EXCEPT !.step = "observe", !.todo = {}] /\ due' = due
  BY DEF Done, Fail
<1> HIDE DEF bad
<1>4. CASE rec' = [rec EXCEPT !.todo = todo, !.failed = bad] /\ due' = due
  <2>1. rec.step = "all"
    BY DEF Job, At
  <2>2. rec'.todo = todo
    BY <1>1, <1>4 DEF RecType
  <2> HIDE DEF todo
  <2>3. rec' \in RecType /\ rec'.m = rec.m /\ rec'.read = rec.read /\ rec'.step = "all"
    BY <1>1, <1>2, <1>4, <2>1 DEF RecType
  <2> QED
    BY <1>2, <1>4, <2>2, <2>3 DEF Worked, todo
<1>5. CASE rec' = [rec EXCEPT !.step = "observe", !.todo = {}] /\ due' = due
  <2>1. /\ rec' \in RecType /\ rec'.m = rec.m /\ rec'.read = rec.read /\ rec'.step = "observe"
        /\ rec'.todo = {}
    BY <1>1, <1>5 DEF RecType
  <2> QED
    BY <1>2, <1>5, <2>1 DEF Worked
<1> QED
  BY <1>3, <1>4, <1>5 DEF Worked

LEMMA ReconcileConfigMapsEffect ==
  ASSUME TypeOK, ReconcileConfigMaps
  PROVE  \/ Worked("maps", {}) /\ maps' = maps
         \/ /\ Worked("maps", {"deploy"})
            /\ maps' = [c \in ConfigMaps |-> IF c \in Listed(rec.m.spec)
                                             THEN UpdateConfigMap(rec.m.spec, StorageSecret(rec.m.spec)) ELSE maps[c]]
<1>1. Job("maps") /\ milvus' = milvus
  BY DEF ReconcileConfigMaps
<1>2. \/ Done("maps", {}, FALSE) /\ maps' = maps
      \/ Done("maps", {}, TRUE) /\ maps' = maps
      \/ /\ Done("maps", {"deploy"}, FALSE)
         /\ maps' = [c \in ConfigMaps |-> IF c \in Listed(rec.m.spec)
                                          THEN UpdateConfigMap(rec.m.spec, StorageSecret(rec.m.spec)) ELSE maps[c]]
  BY DEF ReconcileConfigMaps
<1> QED
  BY <1>1, <1>2, DoneEffect

LEMMA ReconcileComponentDeploymentEffect ==
  ASSUME TypeOK, ReconcileComponentDeployment
  PROVE  /\ Worked("deploy", {})
         /\ \/ deploy' = deploy /\ last' = last
            \/ /\ deploy' = [replicas |-> Replicas(rec.m.spec),
                             template |-> UpdatePodTemplate(rec.m, deploy.template, operator,
                                            deploy.template = NewTemplate \/ Replicas(rec.m.spec) = 0)]
               /\ last' = [spec |-> rec.m.spec, sum |-> rec.m.sum, observed |-> rec.m.observed]
<1>1. Job("deploy") /\ milvus' = milvus
  BY DEF ReconcileComponentDeployment
<1>2. /\ Done("deploy", {}, FALSE) \/ Done("deploy", {}, TRUE)
      /\ \/ deploy' = deploy /\ last' = last
         \/ /\ deploy' = [replicas |-> Replicas(rec.m.spec),
                          template |-> UpdatePodTemplate(rec.m, deploy.template, operator,
                                         deploy.template = NewTemplate \/ Replicas(rec.m.spec) = 0)]
            /\ last' = [spec |-> rec.m.spec, sum |-> rec.m.sum, observed |-> rec.m.observed]
  BY DEF ReconcileComponentDeployment
<1> QED
  BY <1>1, <1>2, DoneEffect

LEMMA UpdateStatusForNewGenerationEffect ==
  ASSUME TypeOK, UpdateStatusForNewGeneration
  PROVE  rec' = NoRec /\ due' \in BOOLEAN /\ milvus' \in {milvus, [milvus EXCEPT !.observed = TRUE]}
BY DEF UpdateStatusForNewGeneration, Fail, TypeOK

\* What an edit stores.
LEMMA EditEffect ==
  ASSUME TypeOK, Edit
  PROVE  \E e \in config.edits, m \in MilvusType :
           /\ m.spec = [milvus.spec EXCEPT ![e.field] = e.value]
           /\ m.version = milvus.version /\ m.merged = milvus.merged
           /\ m.synced = milvus.synced /\ m.started = milvus.started
           /\ LET n == IF config.webhook THEN Default(m, operator) ELSE m
              IN  /\ n \in MilvusType /\ milvus' \in MilvusType
                  /\ milvus'.spec = n.spec /\ milvus'.version = n.version /\ milvus'.merged = n.merged
                  /\ milvus'.synced = n.synced /\ milvus'.started = n.started
<1>1. PICK e \in config.edits :
        milvus' = [(IF config.webhook
                    THEN Default([milvus EXCEPT !.spec = [milvus.spec EXCEPT ![e.field] = e.value]], operator)
                    ELSE [milvus EXCEPT !.spec = [milvus.spec EXCEPT ![e.field] = e.value]]) EXCEPT !.observed = FALSE]
  BY DEF Edit
<1> DEFINE t == [milvus.spec EXCEPT ![e.field] = e.value]
           m == [milvus EXCEPT !.spec = t]
           n == IF config.webhook THEN Default(m, operator) ELSE m
<1>2. milvus \in MilvusType /\ milvus.spec \in SpecType /\ config \in Configs /\ operator \in Operators
  BY DEF TypeOK, MilvusType
<1>3. t \in SpecType
  BY <1>2, EditType
<1>4. milvus' = [n EXCEPT !.observed = FALSE]
  BY <1>1
<1> HIDE DEF t
<1>5. /\ m \in MilvusType /\ m.spec = t /\ m.version = milvus.version /\ m.merged = milvus.merged
      /\ m.synced = milvus.synced /\ m.started = milvus.started
  BY <1>2, <1>3 DEF MilvusType
<1> HIDE DEF m
<1>6. n \in MilvusType
  BY <1>2, <1>5, DefaultType
<1> HIDE DEF n
<1>7. /\ milvus' \in MilvusType /\ milvus'.spec = n.spec /\ milvus'.version = n.version /\ milvus'.merged = n.merged
      /\ milvus'.synced = n.synced /\ milvus'.started = n.started
  BY <1>4, <1>6 DEF MilvusType
<1> QED
  BY <1>5, <1>6, <1>7 DEF n, t

-----------------------------------------------------------------------------
(* Types.                                                                   *)

LEMMA ConfigTyped ==
  ASSUME NEW c \in Configs
  PROVE  /\ c.spec \in SpecType /\ c.old \in BOOLEAN /\ c.webhook \in BOOLEAN
         /\ c.maxEdits \in Nat /\ c.maxTurns \in Nat /\ c.maxFaults \in Nat /\ c.maxTurns <= MaxTurns
         /\ MaxTurns \in Nat
BY RenderAssumption DEF IsConfig

LEMMA StartTypes ==
  ASSUME Init
  PROVE  /\ milvus \in MilvusType /\ Left \in Template /\ NewTemplate \in Template
         /\ {0, 1} \subseteq Versions /\ 0 \in 0..1 /\ 1 \in 0..1
<1>1. config \in Configs
  BY DEF Init
<1>2. {0, 1} \subseteq Versions /\ 0 \in 0..1 /\ 1 \in 0..1
  <2>1. MaxTurns \in Nat
    BY RenderAssumption
  <2> QED
    BY <2>1, SMT DEF Versions
<1>3. milvus \in MilvusType
  <2> DEFINE m == [spec |-> config.spec, version |-> Blank, merged |-> FALSE, synced |-> Blank, service |-> FALSE,
                   started |-> config.old, ready |-> config.old, sum |-> NoSum, observed |-> config.old]
  <2>1. NoSum \in CheckSumType
    BY <1>2 DEF NoSum, CheckSumType
  <2>2. m \in MilvusType
    BY <1>1, <2>1, ConfigTyped DEF MilvusType
  <2>3. "v1" \in Operators
    BY DEF Operators
  <2>4. milvus = IF config.webhook /\ ~config.old THEN Default(m, "v1") ELSE m
    BY DEF Init
  <2> HIDE DEF m
  <2> QED
    BY <2>2, <2>3, <2>4, DefaultType
<1>4. NewTemplate \in Template
  BY DEF NewTemplate, Template, TemplateType
<1>5. config.spec.image \in {"2.4", "2.5", "2.6"}
  BY <1>1, ConfigTyped DEF SpecType
<1>6. {"app"} \in SUBSET LabelKeys /\ "v0" \in Operators /\ "milvus" \in ConfigMaps
  BY DEF LabelKeys, Operators, ConfigMaps
<1>7. Left \in Template
  <2> DEFINE t == [NewTemplate EXCEPT !.labels = {"app"}, !.using = "milvus", !.mounted = "milvus"]
             u == [t EXCEPT !.image = config.spec.image, !.script = "v0", !.probes = "v0"]
  <2>1. t \in Template
    BY ZenonT(60), <1>4, <1>6 DEF Template, TemplateType
  <2>2. Left = u
    BY DEF Left
  <2> HIDE DEF t
  <2>3. u \in Template
    BY ZenonT(60), <1>5, <1>6, <2>1 DEF Template, TemplateType
  <2> QED
    BY <2>2, <2>3
<1> QED
  BY <1>2, <1>3, <1>4, <1>7

LEMMA InitTypes ==
  ASSUME Init
  PROVE  TypeOK /\ RecOK
<1>1. config \in Configs /\ milvus \in MilvusType
  BY StartTypes DEF Init
<1>2. secret \in Versions /\ operator \in Operators
  BY StartTypes DEF Init, Operators
<1>3. maps \in [ConfigMaps -> ConfigType \cup {NoMap}]
  <2> DEFINE old == UpdateConfigMap(DefaultSpec(milvus, "v0"), TRUE)
  <2>1. "v0" \in Operators
    BY DEF Operators
  <2>2. old \in ConfigType
    BY <1>1, <2>1, DefaultSpecType, DefaultSpecFacts, ConfigMapType
  <2> HIDE DEF old
  <2> QED
    BY <2>2 DEF Init, old
<1>4. deploy \in [replicas: 0..1, template: Template]
  BY StartTypes DEF Init, NoDeploy
<1>5. release \in [Dependencies -> ValuesType]
  BY DEF Init, ValuesType
<1>6. pods \in [template: Template, secret: Versions]
  BY StartTypes DEF Init, NoPods
<1>7. edits \in 0..config.maxEdits /\ turns \in 0..config.maxTurns /\ faults \in 0..config.maxFaults
  <2>1. edits = 0 /\ turns = 0 /\ faults = 0
    BY DEF Init
  <2>2. config.maxEdits \in Nat /\ config.maxTurns \in Nat /\ config.maxFaults \in Nat
    BY <1>1, ConfigTyped
  <2> QED
    BY <2>1, <2>2, SMT
<1>8. due \in BOOLEAN /\ rec = NoRec /\ last = Nothing
  BY DEF Init
<1>9. TypeOK
  BY <1>1, <1>2, <1>3, <1>4, <1>5, <1>6, <1>7, <1>8 DEF TypeOK
<1> QED
  BY <1>8, <1>9 DEF RecOK, NoRec

\* A step that leaves the cluster and the environment alone.
LEMMA ControlTypes ==
  ASSUME TypeOK, milvus' \in MilvusType, due' \in BOOLEAN, rec' = NoRec \/ rec' \in RecType,
         UNCHANGED <<last, cluster, env>>
  PROVE  TypeOK'
BY DEF TypeOK, cluster, env

LEMMA EffectTypes ==
  ASSUME TypeOK,
         \/ Failed
         \/ \E m, step : Wrote(m, step) \/ Moved(m, step)
         \/ \E job, next : Worked(job, next)
  PROVE  milvus' \in MilvusType /\ due' \in BOOLEAN /\ (rec' = NoRec \/ rec' \in RecType)
BY DEF TypeOK, Failed, Wrote, Moved, Worked

LEMMA ReconcileTypes ==
  ASSUME TypeOK, RecOK, Reconcile
  PROVE  TypeOK'
<1>1. CASE StartReconcile
  <2>1. rec' = [rec EXCEPT !.step = "default", !.m = milvus, !.read = milvus] /\ rec = NoRec
    BY <1>1 DEF StartReconcile, Goto, At, TypeOK, RecType
  <2>2. rec' \in RecType
    BY <2>1 DEF RecType, NoRec, TypeOK
  <2> QED
    BY <1>1, <2>2, ControlTypes DEF StartReconcile, TypeOK
<1>2. CASE SetDefault
  BY <1>2, SetDefaultEffect, EffectTypes, ControlTypes DEF SetDefault
<1>3. CASE ReconcileLegacyValues
  BY <1>3, ReconcileLegacyValuesEffect, EffectTypes, ControlTypes DEF ReconcileLegacyValues
<1>4. CASE SetDefaultStatus
  BY <1>4, SetDefaultStatusEffect, EffectTypes, ControlTypes DEF SetDefaultStatus
<1>5. CASE SyncKafkaSaslCheckSum
  BY <1>5, SyncKafkaSaslCheckSumEffect, EffectTypes, ControlTypes DEF SyncKafkaSaslCheckSum
<1>6. CASE ReconcileDependencies
  <2>1. Worked("helm", {})
    BY <1>6, DoneEffect DEF ReconcileDependencies
  <2>2. rec.m.spec.dep \in [Dependencies -> DependencyType]
    BY <1>6, Working DEF ReconcileDependencies, Job, At, MilvusType, SpecType
  <2>3. release' \in [Dependencies -> ValuesType]
    BY <1>6, <2>2 DEF ReconcileDependencies, TypeOK, DependencyType
  <2> QED
    BY <1>6, <2>1, <2>3, EffectTypes DEF ReconcileDependencies, TypeOK, env
<1>7. CASE ReconcileConfigMaps
  <2>1. rec.m.spec \in SpecType /\ rec.m.spec.msg # Blank
    BY <1>7, Working DEF ReconcileConfigMaps, Job, At, MilvusType, RecOK
  <2>2. StorageSecret(rec.m.spec) \in BOOLEAN
    BY DEF StorageSecret
  <2>3. UpdateConfigMap(rec.m.spec, StorageSecret(rec.m.spec)) \in ConfigType
    BY <2>1, <2>2, ConfigMapType
  <2>4. maps' \in [ConfigMaps -> ConfigType \cup {NoMap}]
    BY <1>7, <2>3, ReconcileConfigMapsEffect DEF TypeOK
  <2>5. milvus' \in MilvusType /\ due' \in BOOLEAN /\ (rec' = NoRec \/ rec' \in RecType)
    BY <1>7, ReconcileConfigMapsEffect, EffectTypes
  <2> QED
    BY <1>7, <2>4, <2>5 DEF ReconcileConfigMaps, TypeOK, env
<1>8. CASE ReconcileComponentDeployment
  <2>1. rec.m \in MilvusType /\ rec.m.spec \in SpecType
    BY <1>8, Working DEF ReconcileComponentDeployment, Job, At, MilvusType
  <2>2. Replicas(rec.m.spec) \in 0..1
    BY <2>1, SMT DEF Replicas, SpecType, TypeOK
  <2>3. \A force \in BOOLEAN : UpdatePodTemplate(rec.m, deploy.template, operator, force) \in Template
    BY <2>1, TemplateTyped DEF TypeOK
  <2>4. deploy' \in [replicas: 0..1, template: Template] /\ (last' = Nothing \/ last' \in RenderedType)
    <3>1. (deploy.template = NewTemplate \/ Replicas(rec.m.spec) = 0) \in BOOLEAN
      OBVIOUS
    <3>2. rec.m.sum \in CheckSumType /\ rec.m.observed \in BOOLEAN
      BY <2>1 DEF MilvusType
    <3> DEFINE new == [replicas |-> Replicas(rec.m.spec),
                       template |-> UpdatePodTemplate(rec.m, deploy.template, operator,
                                      deploy.template = NewTemplate \/ Replicas(rec.m.spec) = 0)]
               from == [spec |-> rec.m.spec, sum |-> rec.m.sum, observed |-> rec.m.observed]
    <3>3. new \in [replicas: 0..1, template: Template]
      BY <2>2, <2>3, <3>1
    <3>4. from \in RenderedType
      BY <2>1, <3>2 DEF RenderedType
    <3>5. (deploy' = deploy /\ last' = last) \/ (deploy' = new /\ last' = from)
      BY <1>8, ReconcileComponentDeploymentEffect
    <3> HIDE DEF new, from
    <3> QED
      BY <3>3, <3>4, <3>5 DEF TypeOK
  <2>5. milvus' \in MilvusType /\ due' \in BOOLEAN /\ (rec' = NoRec \/ rec' \in RecType)
    BY <1>8, ReconcileComponentDeploymentEffect, EffectTypes
  <2> QED
    BY <1>8, <2>4, <2>5 DEF ReconcileComponentDeployment, TypeOK, env
<1>9. CASE UpdateStatusForNewGeneration
  <2>1. [milvus EXCEPT !.observed = TRUE] \in MilvusType
    BY DEF TypeOK, MilvusType
  <2>2. milvus' \in MilvusType /\ due' \in BOOLEAN /\ rec' = NoRec
    BY <1>9, <2>1, UpdateStatusForNewGenerationEffect DEF TypeOK
  <2> QED
    BY <1>9, <2>2, ControlTypes DEF UpdateStatusForNewGeneration
<1> QED
  BY <1>1, <1>2, <1>3, <1>4, <1>5, <1>6, <1>7, <1>8, <1>9 DEF Reconcile

LEMMA OtherTypes ==
  ASSUME TypeOK, DependenciesReady \/ Roll \/ Edit \/ Rotate \/ UpgradeOperator \/ Crash \/ KubectlRestart
  PROVE  TypeOK'
<1>0. config \in Configs
  BY DEF TypeOK
<1>1. CASE DependenciesReady
  <2>1. milvus' \in MilvusType
    BY <1>1 DEF DependenciesReady, TypeOK, MilvusType
  <2> QED
    BY <1>1, <2>1, ControlTypes DEF DependenciesReady, TypeOK
<1>2. CASE Roll
  <2>1. pods' \in [template: Template, secret: Versions]
    BY <1>2 DEF Roll, TypeOK
  <2> QED
    BY <1>2, <2>1 DEF Roll, TypeOK, env
<1>3. CASE Edit
  <2>1. milvus' \in MilvusType
    BY <1>3, EditEffect
  <2>2. edits' \in 0..config.maxEdits
    <3>1. edits \in 0..config.maxEdits /\ edits < config.maxEdits /\ edits' = edits + 1 /\ config.maxEdits \in Nat
      BY <1>0, <1>3, ConfigTyped DEF Edit, TypeOK
    <3> QED
      BY <3>1, SMT
  <2> QED
    BY <1>3, <2>1, <2>2 DEF Edit, TypeOK, cluster
<1>4. ASSUME turns < config.maxTurns, turns' = turns + 1
      PROVE  turns' \in 0..config.maxTurns /\ {0, turns + 2} \subseteq Versions
  <2>1. turns \in 0..config.maxTurns /\ config.maxTurns \in Nat /\ config.maxTurns <= MaxTurns /\ MaxTurns \in Nat
    BY <1>0, ConfigTyped DEF TypeOK
  <2> QED
    BY <1>4, <2>1, SMT DEF Versions
<1>5. CASE Rotate
  <2>1. turns' \in 0..config.maxTurns /\ secret' \in Versions
    BY <1>4, <1>5 DEF Rotate
  <2>2. due' \in BOOLEAN
    <3>1. due' = (due \/ MilvusReferencesSecret(milvus.spec))
      BY <1>5 DEF Rotate
    <3> QED
      BY <3>1
  <2> QED
    BY <1>5, <2>1, <2>2 DEF Rotate, TypeOK, cluster
<1>6. CASE UpgradeOperator
  <2>1. turns' \in 0..config.maxTurns
    BY <1>4, <1>6 DEF UpgradeOperator
  <2>2. operator' \in Operators
    BY <1>6 DEF UpgradeOperator, Restart, Operators
  <2> QED
    BY <1>6, <2>1, <2>2 DEF UpgradeOperator, Restart, TypeOK, cluster
<1>7. CASE Crash
  <2>1. faults' \in 0..config.maxFaults
    <3>1. faults \in 0..config.maxFaults /\ faults < config.maxFaults /\ faults' = faults + 1 /\ config.maxFaults \in Nat
      BY <1>0, <1>7, ConfigTyped DEF Crash, TypeOK
    <3> QED
      BY <3>1, SMT
  <2> QED
    BY <1>7, <2>1 DEF Crash, Restart, TypeOK, cluster
<1>8. CASE KubectlRestart
  <2>1. turns' \in 0..config.maxTurns
    BY <1>4, <1>8 DEF KubectlRestart
  <2>2. deploy' = [deploy EXCEPT !.template = [deploy.template EXCEPT !.restarted = TRUE]]
    BY <1>8 DEF KubectlRestart
  <2>3. [deploy.template EXCEPT !.restarted = TRUE] \in Template
    BY DEF TypeOK, Template, TemplateType
  <2>4. deploy' \in [replicas: 0..1, template: Template]
    BY <2>2, <2>3 DEF TypeOK
  <2> QED
    BY <1>8, <2>1, <2>4 DEF KubectlRestart, TypeOK
<1> QED
  BY <1>1, <1>2, <1>3, <1>5, <1>6, <1>7, <1>8

LEMMA StepRec ==
  ASSUME TypeOK, RecOK, Next
  PROVE  RecOK'
<1>0. NoRec.step = "idle"
  BY DEF NoRec
<1>1. CASE rec' = NoRec
  BY <1>0, <1>1 DEF RecOK
<1>2. CASE rec' = rec
  BY <1>2 DEF RecOK
<1>3. ASSUME NEW m, NEW step, Wrote(m, step), m.spec.msg # Blank
      PROVE  RecOK'
  BY <1>3 DEF RecOK, Wrote
<1>4. ASSUME NEW m, NEW step \in {"legacy", "status", "sum", "all"}, Moved(m, step), m.spec = rec.read.spec, m.spec.msg # Blank
      PROVE  RecOK'
  BY <1>4 DEF RecOK, Moved
<1>5. ASSUME rec.step = "all", NEW job, NEW next, Worked(job, next)
      PROVE  RecOK'
  BY <1>0, <1>5 DEF RecOK, Worked
<1>6. CASE StartReconcile
  <2>1. rec' = [rec EXCEPT !.step = "default", !.m = milvus, !.read = milvus] /\ rec = NoRec
    BY <1>6 DEF StartReconcile, Goto, At, TypeOK, RecType
  <2>2. rec'.step = "default" /\ rec'.m = milvus /\ rec'.read = milvus
    BY <2>1 DEF NoRec
  <2> QED
    BY <2>2 DEF RecOK
<1>7. CASE SetDefault
  <2> DEFINE m == Default(rec.m, operator)
  <2>1. rec.step # "idle" /\ rec.m.spec = rec.read.spec
    BY <1>7 DEF SetDefault, At, RecOK
  <2>2. m.spec.msg # Blank
    <3>1. rec.m \in MilvusType /\ operator \in Operators
      BY <2>1, Working DEF TypeOK
    <3>2. m.spec = DefaultSpec(rec.m, operator)
      BY <3>1, DefaultType
    <3> QED
      BY <3>1, <3>2, DefaultSpecFacts
  <2>3. Failed \/ Wrote(m, "legacy") \/ (m.spec = rec.m.spec /\ Moved(m, "legacy"))
    BY <1>7, SetDefaultEffect
  <2> HIDE DEF m
  <2> QED
    BY <1>1, <1>3, <1>4, <2>1, <2>2, <2>3 DEF Failed
<1>8. CASE ReconcileLegacyValues
  <2> DEFINE m == SyncLegacyValues(rec.m)
  <2>1. rec.step # "idle" /\ rec.m.spec = rec.read.spec /\ rec.m.spec.msg # Blank
    BY <1>8 DEF ReconcileLegacyValues, At, RecOK
  <2>2. m.spec.msg = rec.m.spec.msg
    <3>1. rec.m \in MilvusType /\ "msg" \in DOMAIN rec.m.spec \ {"dep"}
      BY ZenonT(60), <2>1, Working DEF MilvusType, SpecType
    <3> QED
      BY <3>1, SyncedType
  <2>3. Failed \/ Wrote(m, "status") \/ Moved(rec.m, "status")
    BY <1>8, ReconcileLegacyValuesEffect
  <2> HIDE DEF m
  <2> QED
    BY <1>1, <1>3, <1>4, <2>1, <2>2, <2>3 DEF Failed
<1>9. CASE SetDefaultStatus
  <2> DEFINE m == [milvus EXCEPT !.started = TRUE]
  <2>1. rec.m.spec = rec.read.spec /\ rec.m.spec.msg # Blank
    BY <1>9 DEF SetDefaultStatus, At, RecOK
  <2>2. m.spec = milvus.spec
    BY DEF TypeOK, MilvusType
  <2>3. Failed \/ Wrote(m, "sum") \/ Moved(rec.m, "sum")
    BY <1>9, SetDefaultStatusEffect
  <2> HIDE DEF m
  <2>4. Wrote(m, "sum") => m.spec = rec.read.spec
    BY <2>2 DEF Wrote
  <2> QED
    BY <1>1, <1>3, <1>4, <2>1, <2>3, <2>4 DEF Failed
<1>10. CASE SyncKafkaSaslCheckSum
  <2>1. rec.m.spec = rec.read.spec /\ rec.m.spec.msg # Blank
    BY <1>10 DEF SyncKafkaSaslCheckSum, At, RecOK
  <2> QED
    BY <1>1, <1>3, <1>4, <1>10, <2>1, SyncKafkaSaslCheckSumEffect DEF Failed
<1>11. CASE ReconcileDependencies
  BY <1>5, <1>11, DoneEffect DEF ReconcileDependencies, Job, At
<1>12. CASE ReconcileConfigMaps
  BY <1>5, <1>12, ReconcileConfigMapsEffect DEF ReconcileConfigMaps, Job, At
<1>13. CASE ReconcileComponentDeployment
  BY <1>5, <1>13, ReconcileComponentDeploymentEffect DEF ReconcileComponentDeployment, Job, At
<1>14. CASE UpdateStatusForNewGeneration
  BY <1>1, <1>14, UpdateStatusForNewGenerationEffect
<1>15. CASE DependenciesReady \/ Roll \/ Edit \/ Rotate \/ KubectlRestart
  BY <1>2, <1>15 DEF DependenciesReady, Roll, Edit, Rotate, KubectlRestart
<1>16. CASE UpgradeOperator \/ Crash
  BY <1>1, <1>16 DEF UpgradeOperator, Crash, Restart
<1> QED
  BY <1>6, <1>7, <1>8, <1>9, <1>10, <1>11, <1>12, <1>13, <1>14, <1>15, <1>16 DEF Next, Reconcile

\* The types of the state, whatever users edit and whenever the operator stops:
\* in particular no ConfigMap is written without a message stream
\* (updateConfigMap gets a Milvus that Default has gone over).
THEOREM RenderTypes == Spec => []TypeOK
<1>1. Init => TypeOK /\ RecOK
  BY InitTypes
<1>2. TypeOK /\ RecOK /\ [Next]_vars => TypeOK' /\ RecOK'
  <2>1. CASE TypeOK /\ RecOK /\ Next
    BY <2>1, ReconcileTypes, OtherTypes, StepRec DEF Next
  <2>2. CASE TypeOK /\ RecOK /\ UNCHANGED vars
    BY <2>2 DEF TypeOK, RecOK, vars
  <2> QED
    BY <2>1, <2>2
<1> QED
  BY <1>1, <1>2, PTL DEF Spec

-----------------------------------------------------------------------------
(* The ConfigMap that is mounted.                                           *)

LEMMA StartSpec ==
  ASSUME Init
  PROVE  \E m \in MilvusType :
           /\ m.spec = config.spec /\ m.version = Blank /\ ~m.merged /\ m.started = config.old
           /\ milvus = IF config.webhook /\ ~config.old THEN Default(m, "v1") ELSE m
<1> DEFINE m == [spec |-> config.spec, version |-> Blank, merged |-> FALSE, synced |-> Blank, service |-> FALSE,
                 started |-> config.old, ready |-> config.old, sum |-> NoSum, observed |-> config.old]
<1>1. config \in Configs /\ 0 \in Versions
  BY StartTypes DEF Init
<1>2. m \in MilvusType
  BY <1>1, ConfigTyped DEF MilvusType, NoSum, CheckSumType
<1>3. milvus = IF config.webhook /\ ~config.old THEN Default(m, "v1") ELSE m
  BY DEF Init
<1>4. m.spec = config.spec /\ m.version = Blank /\ ~m.merged /\ m.started = config.old
  OBVIOUS
<1> HIDE DEF m
<1> QED
  BY <1>2, <1>3, <1>4

LEMMA InitMaps ==
  ASSUME ActiveKnown, Init
  PROVE  MapsOK
<1>1. config \in Configs /\ rec = NoRec /\ NoRec.step = "idle"
  BY DEF Init, NoRec
<1>2. milvus.spec.active = config.spec.active /\ milvus.spec.manual = config.spec.manual
  <2>1. PICK m \in MilvusType :
          /\ m.spec = config.spec
          /\ milvus = IF config.webhook /\ ~config.old THEN Default(m, "v1") ELSE m
    BY StartSpec
  <2>2. "v1" \in Operators
    BY DEF Operators
  <2>3. Default(m, "v1").spec = DefaultSpec(m, "v1")
    BY <2>2, DefaultType
  <2>4. DefaultSpec(m, "v1").active = m.spec.active /\ DefaultSpec(m, "v1").manual = m.spec.manual
    BY <2>2, DefaultSpecFacts
  <2> QED
    BY <2>1, <2>3, <2>4
<1>3. ASSUME config.old PROVE maps["milvus"] # NoMap
  <2>1. "v0" \in Operators /\ milvus \in MilvusType /\ "milvus" \in ConfigMaps
    BY StartTypes DEF Operators, ConfigMaps
  <2>2. UpdateConfigMap(DefaultSpec(milvus, "v0"), TRUE) # NoMap
    BY <2>1, DefaultSpecType, DefaultSpecFacts, ConfigMapType
  <2>3. maps["milvus"] = UpdateConfigMap(DefaultSpec(milvus, "v0"), TRUE)
    BY <1>3, <2>1 DEF Init
  <2> QED
    BY <2>2, <2>3
<1>4. deploy.template # NewTemplate => config.old /\ deploy.template = Left
  BY DEF Init, NoDeploy
<1>5. Left.mounted = "milvus" /\ Left.using = "milvus"
  BY DEF Left, NewTemplate
<1>6. MountedExists /\ (deploy.template # NewTemplate => deploy.template.mounted \in ConfigMaps)
  BY <1>3, <1>4, <1>5 DEF MountedExists, ConfigMaps
<1>7. ActiveAs(milvus.spec)
  BY <1>2 DEF ActiveAs, AlwaysManual
<1>8. ~AlwaysManual(config) => \A c \in ConfigMaps : maps[c] # NoMap => c = GetActiveConfigMap(config.spec)
  <2>1. ASSUME ~AlwaysManual(config), NEW c \in ConfigMaps, maps[c] # NoMap
        PROVE  c = GetActiveConfigMap(config.spec)
    <3>1. config.old /\ c = "milvus"
      BY <2>1 DEF Init
    <3> QED
      BY <1>1, <2>1, <3>1 DEF ActiveKnown, ActiveFixed, GetActiveConfigMap
  <2> QED
    BY <2>1
<1> QED
  BY <1>1, <1>6, <1>7, <1>8 DEF MapsOK

LEMMA ConfigKept ==
  ASSUME Next
  PROVE  config' = config
BY DEF Next, Reconcile, StartReconcile, SetDefault, ReconcileLegacyValues, SetDefaultStatus, SyncKafkaSaslCheckSum,
       ReconcileDependencies, ReconcileConfigMaps, ReconcileComponentDeployment, UpdateStatusForNewGeneration,
       DependenciesReady, Roll, Edit, Rotate, UpgradeOperator, Crash, Restart, KubectlRestart, env

\* Edits, defaults and the values that are read back do not change which
\* ConfigMap is active, or the Milvus is in manual mode.
LEMMA StepActive ==
  ASSUME ActiveKnown, TypeOK, RecOK, MapsOK, Next
  PROVE  /\ config' = config
         /\ ActiveAs(milvus.spec)' /\ (rec'.step # "idle" => ActiveAs(rec.m.spec)')
<1>0. NoRec.step = "idle" /\ operator \in Operators /\ config \in Configs
  BY DEF NoRec, TypeOK
<1>1. config' = config
  BY ConfigKept
<1> SUFFICES ActiveAs(milvus'.spec) /\ (rec'.step # "idle" => ActiveAs(rec'.m.spec))
  BY <1>1 DEF ActiveAs
<1>2. ActiveAs(milvus.spec) /\ (rec.step # "idle" => ActiveAs(rec.m.spec))
  BY DEF MapsOK
<1>3. ASSUME NEW m \in MilvusType, ActiveAs(m.spec) PROVE ActiveAs(Default(m, operator).spec)
  BY ZenonT(60), <1>0, <1>3, DefaultType, DefaultSpecFacts DEF ActiveAs
<1>4. CASE StartReconcile
  <2>1. rec' = [rec EXCEPT !.step = "default", !.m = milvus, !.read = milvus] /\ rec = NoRec /\ milvus' = milvus
    BY <1>4 DEF StartReconcile, Goto, At, TypeOK, RecType
  <2>2. rec'.m = milvus
    BY <2>1 DEF NoRec
  <2> QED
    BY <1>2, <2>1, <2>2
<1>5. ASSUME NEW m, NEW step, Failed \/ Wrote(m, step) \/ Moved(m, step), ActiveAs(m.spec)
      PROVE  ActiveAs(milvus'.spec) /\ (rec'.step # "idle" => ActiveAs(rec'.m.spec))
  BY <1>0, <1>2, <1>5 DEF Failed, Wrote, Moved
<1>6. CASE SetDefault
  <2> DEFINE m == Default(rec.m, operator)
  <2>1. rec.step # "idle"
    BY <1>6 DEF SetDefault, At
  <2>2. ActiveAs(m.spec)
    BY <1>2, <1>3, <2>1, Working
  <2>3. Failed \/ Wrote(m, "legacy") \/ Moved(m, "legacy")
    BY <1>6, SetDefaultEffect
  <2> HIDE DEF m
  <2> QED
    BY <1>5, <2>2, <2>3
<1>7. CASE ReconcileLegacyValues
  <2> DEFINE m == SyncLegacyValues(rec.m)
  <2>1. rec.step # "idle"
    BY <1>7 DEF ReconcileLegacyValues, At
  <2>2. rec.m \in MilvusType /\ {"active", "manual"} \subseteq DOMAIN rec.m.spec \ {"dep"}
    BY ZenonT(60), <2>1, Working DEF MilvusType, SpecType
  <2>3. m.spec.active = rec.m.spec.active /\ m.spec.manual = rec.m.spec.manual
    BY <2>2, SyncedType
  <2>4. Failed \/ Wrote(m, "status") \/ Moved(rec.m, "status")
    BY <1>7, ReconcileLegacyValuesEffect
  <2> HIDE DEF m
  <2>5. ActiveAs(m.spec) /\ ActiveAs(rec.m.spec)
    BY <1>2, <2>1, <2>3 DEF ActiveAs
  <2> QED
    BY <1>5, <2>4, <2>5
<1>8. CASE SetDefaultStatus
  <2> DEFINE m == [milvus EXCEPT !.started = TRUE]
  <2>1. m.spec = milvus.spec /\ rec.step # "idle"
    BY <1>8 DEF TypeOK, MilvusType, SetDefaultStatus, At
  <2>2. Failed \/ Wrote(m, "sum") \/ Moved(rec.m, "sum")
    BY <1>8, SetDefaultStatusEffect
  <2> HIDE DEF m
  <2> QED
    BY <1>2, <1>5, <2>1, <2>2
<1>9. CASE SyncKafkaSaslCheckSum
  <2>1. rec.step # "idle"
    BY <1>9 DEF SyncKafkaSaslCheckSum, At
  <2> QED
    BY <1>2, <1>5, <1>9, <2>1, SyncKafkaSaslCheckSumEffect
<1>10. ASSUME rec.step = "all", NEW job, NEW next, Worked(job, next)
      PROVE  ActiveAs(milvus'.spec) /\ (rec'.step # "idle" => ActiveAs(rec'.m.spec))
  BY <1>0, <1>2, <1>10 DEF Worked
<1>11. CASE ReconcileDependencies
  BY <1>10, <1>11, DoneEffect DEF ReconcileDependencies, Job, At
<1>12. CASE ReconcileConfigMaps
  BY <1>10, <1>12, ReconcileConfigMapsEffect DEF ReconcileConfigMaps, Job, At
<1>13. CASE ReconcileComponentDeployment
  BY <1>10, <1>13, ReconcileComponentDeploymentEffect DEF ReconcileComponentDeployment, Job, At
<1>14. CASE UpdateStatusForNewGeneration
  <2>1. [milvus EXCEPT !.observed = TRUE].spec = milvus.spec
    BY DEF TypeOK, MilvusType
  <2> QED
    BY <1>0, <1>2, <1>14, <2>1, UpdateStatusForNewGenerationEffect
<1>15. CASE DependenciesReady
  <2>1. milvus'.spec = milvus.spec /\ rec' = rec
    BY <1>15 DEF DependenciesReady, TypeOK, MilvusType
  <2> QED
    BY <1>2, <2>1
<1>16. CASE Roll \/ Rotate \/ KubectlRestart
  BY <1>2, <1>16 DEF Roll, Rotate, KubectlRestart
<1>17. CASE UpgradeOperator \/ Crash
  BY <1>0, <1>2, <1>17 DEF UpgradeOperator, Crash, Restart
<1>18. CASE Edit
  <2>1. PICK e \in config.edits, m \in MilvusType :
          /\ m.spec = [milvus.spec EXCEPT ![e.field] = e.value]
          /\ milvus'.spec = IF config.webhook THEN Default(m, operator).spec ELSE m.spec
    BY <1>18, EditEffect
  <2>2. ActiveAs(m.spec)
    <3>1. {"active", "manual"} \subseteq DOMAIN milvus.spec
      BY ZenonT(60) DEF TypeOK, MilvusType, SpecType
    <3>2. e.field # "active" => m.spec.active = milvus.spec.active
      BY <2>1, <3>1
    <3>3. e.field # "manual" => m.spec.manual = milvus.spec.manual
      BY <2>1, <3>1
    <3> QED
      BY <1>0, <1>2, <3>2, <3>3 DEF ActiveAs, ActiveKnown, ActiveFixed, AlwaysManual
  <2> QED
    BY <1>2, <1>3, <1>18, <2>1, <2>2 DEF Edit
<1> QED
  BY <1>4, <1>6, <1>7, <1>8, <1>9, <1>11, <1>12, <1>13, <1>14, <1>15, <1>16, <1>17, <1>18 DEF Next, Reconcile

LEMMA RenderedMount ==
  ASSUME NEW m \in MilvusType, NEW t \in Template, NEW op \in Operators, NEW force \in BOOLEAN
  PROVE  LET u == UpdatePodTemplate(m, t, op, force)
         IN  \/ u = t /\ ~force
             \/ u.using = GetActiveConfigMap(m.spec) /\ u.mounted = GetActiveConfigMap(m.spec)
<1> DEFINE v == UpdatedByCR(m, t, op, force)
<1>1. {"using", "mounted"} \subseteq DOMAIN v
  BY DEF UpdatedByCR, Template, TemplateType
<1> HIDE DEF v
<1>2. LET w == UpdateSomeFieldsOnlyWhenRolling(m.spec, v, op)
      IN  w.using = GetActiveConfigMap(m.spec) /\ w.mounted = GetActiveConfigMap(m.spec)
  BY <1>1 DEF UpdateSomeFieldsOnlyWhenRolling
<1>3. UpdatePodTemplate(m, t, op, force) = IF v # t \/ force THEN UpdateSomeFieldsOnlyWhenRolling(m.spec, v, op) ELSE t
  BY DEF UpdatePodTemplate, v
<1> QED
  BY <1>2, <1>3

LEMMA StepMaps ==
  ASSUME ActiveKnown, TypeOK, RecOK, MapsOK, Next
  PROVE  MapsOK'
<1> DEFINE Mounts == deploy.template # NewTemplate =>
                       /\ maps[deploy.template.mounted] # NoMap /\ deploy.template.using = deploy.template.mounted
                       /\ deploy.template.mounted \in ConfigMaps
           Only == ~AlwaysManual(config) => \A c \in ConfigMaps : maps[c] # NoMap => c = GetActiveConfigMap(config.spec)
           Ready == rec.step = "all" /\ "deploy" \in rec.todo => maps[GetActiveConfigMap(rec.m.spec)] # NoMap
<1>0. NoRec.step = "idle" /\ config' = config
  BY StepActive DEF NoRec
<1>1. SUFFICES Mounts' /\ Only' /\ Ready'
  BY StepActive DEF MapsOK, MountedExists
<1>2. Mounts /\ Only /\ Ready
  BY DEF MapsOK, MountedExists
<1>3. CASE deploy' = deploy /\ maps' = maps /\ (rec' = rec \/ rec' = NoRec \/ rec'.step # "all" \/ "deploy" \notin rec'.todo)
  BY <1>0, <1>2, <1>3
<1>4. ASSUME NEW m, NEW step \in {"legacy", "status", "sum"}, Failed \/ Wrote(m, step) \/ Moved(m, step), UNCHANGED <<deploy, maps>>
      PROVE  Mounts' /\ Only' /\ Ready'
  BY <1>3, <1>4 DEF Failed, Wrote, Moved
<1>5. CASE StartReconcile
  <2>1. rec' = [rec EXCEPT !.step = "default", !.m = milvus, !.read = milvus] /\ rec = NoRec
    BY <1>5 DEF StartReconcile, Goto, At, TypeOK, RecType
  <2>2. rec'.step = "default"
    BY <2>1 DEF NoRec
  <2> QED
    BY <1>3, <1>5, <2>2 DEF StartReconcile, cluster
<1>6. CASE SetDefault
  BY <1>4, <1>6, SetDefaultEffect DEF SetDefault, cluster
<1>7. CASE ReconcileLegacyValues
  BY <1>4, <1>7, ReconcileLegacyValuesEffect DEF ReconcileLegacyValues, cluster
<1>8. CASE SetDefaultStatus
  BY <1>4, <1>8, SetDefaultStatusEffect DEF SetDefaultStatus, cluster
<1>9. CASE SyncKafkaSaslCheckSum
  <2>1. deploy' = deploy /\ maps' = maps
    BY <1>9 DEF SyncKafkaSaslCheckSum, cluster
  <2>2. rec' = NoRec \/ "deploy" \notin rec'.todo
    <3>1. rec' = NoRec \/ rec'.todo = {"helm", "maps"}
      BY <1>9, SyncKafkaSaslCheckSumEffect DEF Failed
    <3>2. "deploy" \notin {"helm", "maps"}
      OBVIOUS
    <3> QED
      BY <3>1, <3>2
  <2> QED
    BY <1>3, <2>1, <2>2
<1>10. ASSUME Job("helm") \/ Job("maps") \/ Job("deploy"), NEW job, Worked(job, {}), maps' = maps
       PROVE  Ready'
  BY <1>0, <1>2, <1>10 DEF Worked, Job, At
<1>11. CASE ReconcileDependencies
  <2>1. Worked("helm", {})
    BY <1>11, DoneEffect DEF ReconcileDependencies
  <2> QED
    BY <1>0, <1>2, <1>10, <1>11, <2>1 DEF ReconcileDependencies
<1>12. CASE ReconcileConfigMaps
  <2> DEFINE t == rec.m.spec
             new == UpdateConfigMap(t, StorageSecret(t))
             existing == {c \in ConfigMaps : maps[c] # NoMap}
  <2>1. deploy' = deploy /\ Job("maps")
    BY <1>12 DEF ReconcileConfigMaps
  <2>2. CASE Worked("maps", {}) /\ maps' = maps
    BY <1>0, <1>2, <1>10, <2>1, <2>2
  <2>3. CASE Worked("maps", {"deploy"}) /\ maps' = [c \in ConfigMaps |-> IF c \in Listed(t) THEN new ELSE maps[c]]
    <3>1. t \in SpecType /\ t.msg # Blank /\ StorageSecret(t) \in BOOLEAN /\ ActiveAs(t)
      BY <2>1, Working DEF Job, At, MilvusType, RecOK, MapsOK, StorageSecret
    <3>2. new # NoMap
      BY <3>1, ConfigMapType
    <3>3. GetActiveConfigMap(t) \in ConfigMaps
      BY <3>1 DEF GetActiveConfigMap, ConfigMaps, SpecType
    <3>4. ~AlwaysManual(config) => GetActiveConfigMap(t) = GetActiveConfigMap(config.spec)
      BY <3>1 DEF ActiveAs, GetActiveConfigMap
    <3>5. GetActiveConfigMap(t) \in Listed(t)
      <4>1. CASE t.manual \/ existing = {}
        BY <4>1 DEF Listed
      <4>2. CASE ~t.manual /\ existing # {}
        <5>1. ~AlwaysManual(config)
          BY <3>1, <4>2 DEF ActiveAs
        <5>2. GetActiveConfigMap(config.spec) \in existing
          BY <1>2, <4>2, <5>1
        <5> QED
          BY <3>4, <4>2, <5>1, <5>2 DEF Listed
      <4> QED
        BY <4>1, <4>2
    <3>6. \A c \in ConfigMaps : maps[c] # NoMap => maps'[c] # NoMap
      BY <2>3, <3>2
    <3>7. maps'[GetActiveConfigMap(t)] # NoMap
      BY <2>3, <3>2, <3>3, <3>5
    <3>8. ~AlwaysManual(config) => \A c \in Listed(t) : c = GetActiveConfigMap(config.spec)
      BY <1>2, <3>4 DEF Listed
    <3>9. Only'
      BY <1>0, <1>2, <2>3, <3>8
    <3>10. Mounts'
      BY <1>2, <2>1, <3>6
    <3>11. Ready'
      BY <1>0, <2>3, <3>7 DEF Worked
    <3> QED
      BY <3>9, <3>10, <3>11
  <2> QED
    BY <1>12, <2>2, <2>3, ReconcileConfigMapsEffect
<1>13. CASE ReconcileComponentDeployment
  <2>1. Job("deploy") /\ maps' = maps /\ Worked("deploy", {})
    BY <1>13, ReconcileComponentDeploymentEffect DEF ReconcileComponentDeployment
  <2>2. Only' /\ Ready'
    BY <1>0, <1>2, <1>10, <2>1
  <2>3. Mounts'
    <3> DEFINE force == deploy.template = NewTemplate \/ Replicas(rec.m.spec) = 0
               u == UpdatePodTemplate(rec.m, deploy.template, operator, force)
    <3>1. deploy' = deploy \/ deploy' = [replicas |-> Replicas(rec.m.spec), template |-> u]
      BY <1>13, ReconcileComponentDeploymentEffect
    <3>2. rec.m \in MilvusType /\ deploy.template \in Template /\ operator \in Operators /\ force \in BOOLEAN
      BY <2>1, Working DEF Job, At, TypeOK
    <3>3. \/ u = deploy.template /\ ~force
          \/ u.using = GetActiveConfigMap(rec.m.spec) /\ u.mounted = GetActiveConfigMap(rec.m.spec)
      BY <3>2, RenderedMount
    <3>4. maps[GetActiveConfigMap(rec.m.spec)] # NoMap
      BY <1>2, <2>1 DEF Job, At
    <3>5. GetActiveConfigMap(rec.m.spec) \in ConfigMaps
      BY <3>2 DEF GetActiveConfigMap, ConfigMaps, MilvusType, SpecType
    <3>6. u # deploy.template => u.using = u.mounted /\ maps[u.mounted] # NoMap /\ u.mounted \in ConfigMaps
      BY <3>3, <3>4, <3>5
    <3> HIDE DEF u, force
    <3>7. deploy'.template = deploy.template \/ deploy'.template = u
      <4>1. CASE deploy' = deploy
        BY <4>1
      <4>2. CASE deploy' = [replicas |-> Replicas(rec.m.spec), template |-> u]
        BY <4>2
      <4> QED
        BY <3>1, <4>1, <4>2
    <3>8. CASE deploy'.template = deploy.template
      BY <1>2, <2>1, <3>8
    <3>9. CASE deploy'.template = u /\ u # deploy.template
      BY <2>1, <3>6, <3>9
    <3> QED
      BY <3>7, <3>8, <3>9
  <2> QED
    BY <2>2, <2>3
<1>14. CASE UpdateStatusForNewGeneration
  BY <1>3, <1>14, UpdateStatusForNewGenerationEffect DEF UpdateStatusForNewGeneration, cluster
<1>15. CASE DependenciesReady \/ Roll \/ Edit \/ Rotate
  BY <1>3, <1>15 DEF DependenciesReady, Roll, Edit, Rotate, cluster
<1>16. CASE UpgradeOperator \/ Crash
  BY <1>3, <1>16 DEF UpgradeOperator, Crash, Restart, cluster
<1>17. CASE KubectlRestart
  <2>1. deploy.template # NewTemplate /\ maps' = maps /\ rec' = rec
    BY <1>17 DEF KubectlRestart
  <2>2. deploy'.template = [deploy.template EXCEPT !.restarted = TRUE]
    BY <1>17 DEF KubectlRestart, TypeOK
  <2>3. deploy'.template.mounted = deploy.template.mounted /\ deploy'.template.using = deploy.template.using
    BY <2>2 DEF TypeOK, Template, TemplateType
  <2> QED
    BY <1>0, <1>2, <2>1, <2>3
<1> QED
  BY <1>5, <1>6, <1>7, <1>8, <1>9, <1>11, <1>12, <1>13, <1>14, <1>15, <1>16, <1>17 DEF Next, Reconcile

\* The ConfigMap that the pods mount exists and is the one that is named, in
\* every state, whatever is edited, if the Milvus is in manual mode for good or
\* its active ConfigMap stays the same.
THEOREM MountedConfigMap ==
  ASSUME ActiveKnown
  PROVE  Spec => []MountedExists
<1>1. Init => TypeOK /\ RecOK /\ MapsOK
  BY InitTypes, InitMaps
<1>2. TypeOK /\ RecOK /\ MapsOK /\ [Next]_vars => TypeOK' /\ RecOK' /\ MapsOK'
  <2>1. CASE TypeOK /\ RecOK /\ MapsOK /\ Next
    BY <2>1, ReconcileTypes, OtherTypes, StepRec, StepMaps DEF Next
  <2>2. CASE TypeOK /\ RecOK /\ MapsOK /\ UNCHANGED vars
    BY <2>2 DEF TypeOK, RecOK, MapsOK, MountedExists, ActiveAs, vars
  <2> QED
    BY <2>1, <2>2
<1>3. MapsOK => MountedExists
  BY DEF MapsOK
<1> QED
  BY <1>1, <1>2, <1>3, PTL DEF Spec

-----------------------------------------------------------------------------
(* Rendering a template again changes nothing.                              *)

LEMMA UpdatedFields ==
  ASSUME NEW m \in MilvusType, NEW t \in Template, NEW op \in Operators, NEW force \in BOOLEAN
  PROVE  LET u == UpdatedByCR(m, t, op, force)
         IN  /\ u.labels = DesiredPodTemplateLabels(m.spec, t)
             /\ u.service = (t.service \/ m.spec.group # NoGroup)
             /\ u.sum = DesiredCheckSum(m, t)
             /\ u.using = DesiredUsing(m.spec, t)
             /\ u.volumes = InjectKafkaSecretsIntoTemplate(m.spec, UpdateUserDefinedVolumes(m.spec, t.volumes))
             /\ u.creds = PruneStorageCredentialEnv(t.creds, DesiredCredentials(m.spec)) \cup DesiredCredentials(m.spec)
             /\ u.image = UpdatedImage(m, t, force)
             /\ u.layered = (IF SupportsLayeredConfig(u.image) THEN "true" ELSE "false")
             /\ u.script = UpdatedScript(m, t, op, SupportsLayeredConfig(u.image))
<1>1. {"labels", "service", "sum", "using", "volumes", "creds", "image", "layered", "script"} \subseteq DOMAIN t
  BY DEF Template, TemplateType
<1> QED
  BY ZenonT(60), <1>1 DEF UpdatedByCR

LEMMA SettledMeans ==
  ASSUME NEW m \in MilvusType, NEW t \in Template, NEW op \in Operators, Settled(m, t), ~m.spec.tool
  PROVE  UpdatedByCR(m, t, op, FALSE) = t
<1>1. t.service = (t.service \/ m.spec.group # NoGroup)
  BY DEF Settled, Template, TemplateType
<1>2. t.layered = (IF SupportsLayeredConfig(UpdatedImage(m, t, FALSE)) THEN "true" ELSE "false")
  BY DEF Settled
<1>3. t.script = UpdatedScript(m, t, op, SupportsLayeredConfig(UpdatedImage(m, t, FALSE)))
  BY <1>2 DEF Settled, UpdatedScript
<1> DEFINE labels == DesiredPodTemplateLabels(m.spec, t)
           service == t.service \/ m.spec.group # NoGroup
           sum == DesiredCheckSum(m, t)
           using == DesiredUsing(m.spec, t)
           volumes == InjectKafkaSecretsIntoTemplate(m.spec, UpdateUserDefinedVolumes(m.spec, t.volumes))
           creds == PruneStorageCredentialEnv(t.creds, DesiredCredentials(m.spec)) \cup DesiredCredentials(m.spec)
           image == UpdatedImage(m, t, FALSE)
           layered == IF SupportsLayeredConfig(image) THEN "true" ELSE "false"
           script == UpdatedScript(m, t, op, SupportsLayeredConfig(image))
<1>4. /\ t.labels = labels /\ t.service = service /\ t.sum = sum /\ t.using = using /\ t.volumes = volumes
      /\ t.creds = creds /\ t.image = image /\ t.layered = layered /\ t.script = script
  BY <1>1, <1>2, <1>3 DEF Settled
<1>5. UpdatedByCR(m, t, op, FALSE) =
        [t EXCEPT !.labels = labels, !.service = service, !.sum = sum, !.using = using, !.volumes = volumes,
                  !.creds = creds, !.image = image, !.layered = layered, !.script = script]
  BY DEF UpdatedByCR
<1> HIDE DEF labels, service, sum, using, volumes, creds, image, layered, script
<1> DEFINE u == [t EXCEPT !.labels = labels, !.service = service, !.sum = sum, !.using = using, !.volumes = volumes,
                          !.creds = creds, !.image = image, !.layered = layered, !.script = script]
<1>6. t = [f \in DOMAIN t |-> t[f]] /\ u = [f \in DOMAIN t |-> u[f]]
  BY DEF Template, TemplateType
<1>7. \A f \in DOMAIN t : u[f] = t[f]
  BY <1>4
<1> HIDE DEF u
<1>8. u = t
  BY <1>6, <1>7
<1> QED
  BY <1>5, <1>8 DEF u

LEMMA RenderedSettled ==
  ASSUME NEW m \in MilvusType, NEW t \in Template, NEW op \in Operators, NEW force \in BOOLEAN
  PROVE  Settled(m, UpdatePodTemplate(m, t, op, force))
<1> DEFINE u == UpdatedByCR(m, t, op, force)
           w == UpdateSomeFieldsOnlyWhenRolling(m.spec, u, op)
<1>0. Nothing \notin Operators
  BY RenderAssumption
<1>1. /\ u.labels = DesiredPodTemplateLabels(m.spec, t)
      /\ u.service = (t.service \/ m.spec.group # NoGroup)
      /\ u.sum = DesiredCheckSum(m, t)
      /\ u.using = DesiredUsing(m.spec, t)
      /\ u.volumes = InjectKafkaSecretsIntoTemplate(m.spec, UpdateUserDefinedVolumes(m.spec, t.volumes))
      /\ u.creds = PruneStorageCredentialEnv(t.creds, DesiredCredentials(m.spec)) \cup DesiredCredentials(m.spec)
      /\ u.image = UpdatedImage(m, t, force)
      /\ u.layered = (IF SupportsLayeredConfig(u.image) THEN "true" ELSE "false")
      /\ u.script = UpdatedScript(m, t, op, SupportsLayeredConfig(u.image))
  BY ZenonT(60), UpdatedFields
<1>2. DOMAIN u = DOMAIN t /\ {"labels", "service", "sum", "using", "mounted", "volumes", "creds", "image", "layered",
                             "script", "probes"} \subseteq DOMAIN t
  BY DEF UpdatedByCR, Template, TemplateType
<1>3. UpdatePodTemplate(m, t, op, force) = IF u # t \/ force THEN w ELSE t
  BY DEF UpdatePodTemplate
<1> HIDE DEF u
<1>4. /\ w.labels = u.labels /\ w.service /\ w.sum = u.sum /\ w.using = GetActiveConfigMap(m.spec)
      /\ w.volumes = u.volumes \cup (IF GetKafkaSecretRef(m.spec) THEN {"ca"} ELSE {})
      /\ w.creds = u.creds /\ w.image = u.image /\ w.layered = u.layered /\ w.script = op
  BY <1>2 DEF UpdateSomeFieldsOnlyWhenRolling
<1> HIDE DEF w
<1>5. CASE u = t /\ ~force
  <2>1. t.script # Nothing
    BY <1>0, <1>1, <1>5 DEF UpdatedScript
  <2>2. t.image = UpdatedImage(m, t, FALSE)
    BY <1>1, <1>5
  <2>3. m.spec.group # NoGroup => t.service
    BY <1>1, <1>5
  <2>4. Settled(m, t)
    BY <1>1, <1>5, <2>1, <2>2, <2>3 DEF Settled
  <2> QED
    BY <1>3, <1>5, <2>4
<1>6. CASE u # t \/ force
  <2>1. w.labels = DesiredPodTemplateLabels(m.spec, w)
    BY <1>1, <1>4 DEF DesiredPodTemplateLabels
  <2>2. w.sum = DesiredCheckSum(m, w)
    BY <1>1, <1>4 DEF DesiredCheckSum
  <2>3. w.using = DesiredUsing(m.spec, w)
    BY <1>4 DEF DesiredUsing
  <2>4. w.volumes = InjectKafkaSecretsIntoTemplate(m.spec, UpdateUserDefinedVolumes(m.spec, w.volumes))
    BY <1>1, <1>4 DEF InjectKafkaSecretsIntoTemplate, UpdateUserDefinedVolumes
  <2>5. w.creds = PruneStorageCredentialEnv(w.creds, DesiredCredentials(m.spec)) \cup DesiredCredentials(m.spec)
    BY <1>1, <1>4 DEF PruneStorageCredentialEnv
  <2>6. w.image = UpdatedImage(m, w, FALSE)
    BY <1>1, <1>4 DEF UpdatedImage
  <2>7. w.layered = IF SupportsLayeredConfig(w.image) THEN "true" ELSE "false"
    BY <1>1, <1>4
  <2>8. w.script # Nothing
    BY <1>0, <1>4
  <2>9. Settled(m, w)
    BY <1>4, <2>1, <2>2, <2>3, <2>4, <2>5, <2>6, <2>7, <2>8 DEF Settled
  <2> QED
    BY <1>3, <1>6, <2>9
<1> QED
  BY <1>5, <1>6

LEMMA SettledSame ==
  ASSUME NEW m, NEW n, NEW t, m.spec = n.spec, m.sum = n.sum, m.observed = n.observed
  PROVE  Settled(m, t) <=> Settled(n, t)
<1>1. DesiredCheckSum(m, t) = DesiredCheckSum(n, t)
  BY DEF DesiredCheckSum, IsUpdateConfigMapOnly, GetConfCheckSum
<1>2. UpdatedImage(m, t, FALSE) = UpdatedImage(n, t, FALSE)
  BY DEF UpdatedImage
<1> QED
  BY <1>1, <1>2 DEF Settled

\* Only the rendering and kubectl touch the Deployment.
LEMMA DeployKept ==
  ASSUME Next, ~ReconcileComponentDeployment, ~KubectlRestart
  PROVE  deploy' = deploy /\ last' = last
BY DEF Next, Reconcile, StartReconcile, SetDefault, ReconcileLegacyValues, SetDefaultStatus, SyncKafkaSaslCheckSum,
       ReconcileDependencies, ReconcileConfigMaps, UpdateStatusForNewGeneration,
       DependenciesReady, Roll, Edit, Rotate, UpgradeOperator, Crash, Restart, cluster

LEMMA StepLast ==
  ASSUME TypeOK, LastOK, Next
  PROVE  LastOK'
<1>1. CASE ReconcileComponentDeployment
  <2> DEFINE force == deploy.template = NewTemplate \/ Replicas(rec.m.spec) = 0
             u == UpdatePodTemplate(rec.m, deploy.template, operator, force)
             from == [spec |-> rec.m.spec, sum |-> rec.m.sum, observed |-> rec.m.observed]
  <2>1. rec.m \in MilvusType /\ deploy.template \in Template /\ operator \in Operators /\ force \in BOOLEAN
    BY <1>1, Working DEF ReconcileComponentDeployment, Job, At, TypeOK
  <2>2. Settled(rec.m, u)
    BY <2>1, RenderedSettled
  <2>3. Settled(from, u)
    <3>1. from.spec = rec.m.spec /\ from.sum = rec.m.sum /\ from.observed = rec.m.observed
      OBVIOUS
    <3> HIDE DEF from, u
    <3> QED
      BY <2>2, <3>1, SettledSame
  <2>4. (deploy' = deploy /\ last' = last) \/ (deploy' = [replicas |-> Replicas(rec.m.spec), template |-> u] /\ last' = from)
    BY <1>1, ReconcileComponentDeploymentEffect
  <2> HIDE DEF u, from
  <2>5. CASE deploy' = deploy /\ last' = last
    BY <2>5 DEF LastOK
  <2>6. CASE deploy' = [replicas |-> Replicas(rec.m.spec), template |-> u] /\ last' = from
    <3>1. deploy'.template = u
      BY <2>6
    <3> QED
      BY <2>3, <2>6, <3>1 DEF LastOK
  <2> QED
    BY <2>4, <2>5, <2>6
<1>2. CASE KubectlRestart
  <2> DEFINE t == deploy.template
             u == [t EXCEPT !.restarted = TRUE]
  <2>1. deploy'.template = u /\ last' = last
    BY <1>2 DEF KubectlRestart, TypeOK
  <2>2. /\ u.labels = t.labels /\ u.service = t.service /\ u.sum = t.sum /\ u.using = t.using /\ u.volumes = t.volumes
        /\ u.creds = t.creds /\ u.image = t.image /\ u.layered = t.layered /\ u.script = t.script
    BY DEF TypeOK, Template, TemplateType
  <2> HIDE DEF u
  <2>3. Settled(last, t) => Settled(last, u)
    BY <2>2 DEF Settled, DesiredPodTemplateLabels, DesiredCheckSum, DesiredUsing, UpdatedImage
  <2> QED
    BY <2>1, <2>3 DEF LastOK
<1>3. CASE ~ReconcileComponentDeployment /\ ~KubectlRestart
  BY <1>3, DeployKept DEF LastOK
<1> QED
  BY <1>1, <1>2, <1>3

\* No pod is restarted for nothing: for every version of the operator, a
\* template changes only with what it is rendered from.
THEOREM RestartsExplained == Spec => NoIdleRollout
<1> DEFINE Idle == deploy.template' # deploy.template /\ deploy.template'.restarted = deploy.template.restarted =>
                     \/ deploy.template = NewTemplate
                     \/ Replicas(rec.m.spec) = 0 \/ rec.m.spec.tool
                     \/ last # last'
<1>1. Init => TypeOK /\ RecOK /\ LastOK
  BY InitTypes DEF Init, LastOK
<1>2. TypeOK /\ RecOK /\ LastOK /\ [Next]_vars => TypeOK' /\ RecOK' /\ LastOK'
  <2>1. CASE TypeOK /\ RecOK /\ LastOK /\ Next
    BY <2>1, ReconcileTypes, OtherTypes, StepRec, StepLast DEF Next
  <2>2. CASE TypeOK /\ RecOK /\ LastOK /\ UNCHANGED vars
    BY <2>2 DEF TypeOK, RecOK, LastOK, vars
  <2> QED
    BY <2>1, <2>2
<1>3. TypeOK /\ LastOK /\ [Next]_vars => [Idle]_vars
  <2> SUFFICES ASSUME TypeOK, LastOK, Next, deploy.template' # deploy.template,
                      deploy.template'.restarted = deploy.template.restarted,
                      deploy.template # NewTemplate, Replicas(rec.m.spec) # 0, ~rec.m.spec.tool, last = last'
               PROVE  FALSE
    OBVIOUS
  <2>1. CASE ReconcileComponentDeployment
    <3> DEFINE t == deploy.template
               from == [spec |-> rec.m.spec, sum |-> rec.m.sum, observed |-> rec.m.observed]
    <3>1. rec.m \in MilvusType /\ t \in Template /\ operator \in Operators
      BY <2>1, Working DEF ReconcileComponentDeployment, Job, At, TypeOK
    <3>2. (deploy.template = NewTemplate \/ Replicas(rec.m.spec) = 0) = FALSE
      OBVIOUS
    <3>3. deploy'.template = UpdatePodTemplate(rec.m, t, operator, FALSE) /\ last' = from
      <4> DEFINE u == UpdatePodTemplate(rec.m, deploy.template, operator,
                                        deploy.template = NewTemplate \/ Replicas(rec.m.spec) = 0)
      <4>1. u = UpdatePodTemplate(rec.m, t, operator, FALSE)
        BY <3>2
      <4>2. deploy' = deploy \/ (deploy' = [replicas |-> Replicas(rec.m.spec), template |-> u] /\ last' = from)
        BY <2>1, ReconcileComponentDeploymentEffect
      <4>3. deploy' # deploy
        OBVIOUS
      <4> HIDE DEF u, from
      <4>4. deploy' = [replicas |-> Replicas(rec.m.spec), template |-> u] /\ last' = from
        BY <4>2, <4>3
      <4>5. deploy'.template = u
        BY <4>4
      <4> QED
        BY <4>1, <4>4, <4>5
    <3>4. from # Nothing
      <4>1. from \in RenderedType
        BY <3>1 DEF RenderedType, MilvusType
      <4> QED
        BY <4>1, RenderAssumption
    <3>5. Settled(from, t)
      BY <3>3, <3>4 DEF LastOK
    <3>6. Settled(rec.m, t)
      <4>1. from.spec = rec.m.spec /\ from.sum = rec.m.sum /\ from.observed = rec.m.observed
        OBVIOUS
      <4> HIDE DEF from
      <4> QED
        BY <3>5, <4>1, SettledSame
    <3>7. UpdatedByCR(rec.m, t, operator, FALSE) = t
      BY <3>1, <3>6, SettledMeans
    <3> QED
      BY <3>3, <3>7 DEF UpdatePodTemplate
  <2>2. CASE KubectlRestart
    BY <2>2 DEF KubectlRestart, TypeOK, Template, TemplateType
  <2> QED
    BY <2>1, <2>2, DeployKept
<1> QED
  BY <1>1, <1>2, <1>3, PTL DEF Spec, NoIdleRollout

-----------------------------------------------------------------------------
(* What Helm gets.                                                          *)

LEMMA InClusterFacts ==
  ASSUME NEW t
  PROVE  /\ InCluster(t) \subseteq {"etcd", "storage", "kafka", "pulsar", "tei"}
         /\ InCluster(t) \subseteq Dependencies
         /\ "etcd" \in InCluster(t) <=> ~t.dep["etcd"].external
         /\ "storage" \in InCluster(t) <=> ~t.dep["storage"].external
         /\ \A d \in InCluster(t) : d = "tei" \/ ~t.dep[d].external
BY DEF InCluster, Dependencies

LEMMA InClusterSame ==
  ASSUME NEW t, NEW u, t.tei = u.tei, SetDefaultMsgStreamType(t) = SetDefaultMsgStreamType(u),
         \A d \in Dependencies : t.dep[d].external = u.dep[d].external
  PROVE  InCluster(t) = InCluster(u)
<1>1. {"etcd", "storage", "kafka", "pulsar"} \subseteq Dependencies
  BY DEF Dependencies
<1> QED
  BY ZenonT(60), <1>1 DEF InCluster

\* The defaults keep the values of an instance that they have been given to,
\* and of one that was started before.
LEMMA DefaultCopy ==
  ASSUME NEW m \in MilvusType, NEW op \in Operators, CopyOK(m)
  PROVE  LET n == Default(m, op)
         IN  /\ CopyOK(n) /\ n.merged /\ n.started = m.started
             /\ Pending(n) <=> Pending(m)
             /\ InCluster(n.spec) = InCluster(m.spec)
             /\ \A d \in InCluster(n.spec) : Values(n, d) # "nil"
             /\ \A d \in Dependencies : d = "tei" \/ m.merged \/ m.started =>
                  (Values(m, d) # "nil" => Values(n, d) = Values(m, d))
             /\ m.version = Blank /\ ~m.started => \A d \in InCluster(m.spec) \ {"tei"} : Values(n, d) = op
<1> DEFINE n == Default(m, op)
<1>1. /\ n.spec = DefaultSpec(m, op) /\ n.merged /\ n.version = DefaultVersion(m, op)
      /\ n.synced = DefaultSynced(m) /\ n.started = m.started /\ n \in MilvusType
  BY DefaultType
<1>2. /\ n.spec.dep = DefaultDependencies(m, op) /\ n.spec.tei = m.spec.tei
      /\ n.spec.msg = SetDefaultMsgStreamType(m.spec) /\ n.spec.msg # Blank
  BY ZenonT(60), <1>1, DefaultSpecFacts
<1> SUFFICES /\ CopyOK(n) /\ n.merged /\ n.started = m.started
             /\ Pending(n) <=> Pending(m)
             /\ InCluster(n.spec) = InCluster(m.spec)
             /\ \A d \in InCluster(n.spec) : Values(n, d) # "nil"
             /\ \A d \in Dependencies : d = "tei" \/ m.merged \/ m.started =>
                  (Values(m, d) # "nil" => Values(n, d) = Values(m, d))
             /\ m.version = Blank /\ ~m.started => \A d \in InCluster(m.spec) \ {"tei"} : Values(n, d) = op
  OBVIOUS
<1> HIDE DEF n
<1>3. \A d \in Dependencies :
        /\ n.spec.dep[d].external = m.spec.dep[d].external
        /\ Values(n, d) = IF d \in InCluster(m.spec) THEN DefaultValuesByDependency(m, d, op) ELSE Values(m, d)
  <2> SUFFICES ASSUME NEW d \in Dependencies
               PROVE  /\ n.spec.dep[d].external = m.spec.dep[d].external
                      /\ Values(n, d) = IF d \in InCluster(m.spec) THEN DefaultValuesByDependency(m, d, op) ELSE Values(m, d)
    OBVIOUS
  <2>1. n.spec.dep[d] = IF d \notin InCluster(m.spec) THEN m.spec.dep[d]
                        ELSE [external |-> m.spec.dep[d].external, chart |-> DefaultChart(m, d),
                              values |-> DefaultValuesByDependency(m, d, op), policy |-> DefaultPolicy(m, d)]
    BY <1>2 DEF DefaultDependencies
  <2>2. CASE d \in InCluster(m.spec)
    <3> DEFINE new == [external |-> m.spec.dep[d].external, chart |-> DefaultChart(m, d),
                       values |-> DefaultValuesByDependency(m, d, op), policy |-> DefaultPolicy(m, d)]
    <3>1. n.spec.dep[d] = new
      BY <2>1, <2>2
    <3>2. new.external = m.spec.dep[d].external /\ new.values = DefaultValuesByDependency(m, d, op)
      OBVIOUS
    <3> HIDE DEF new
    <3> QED
      BY <2>2, <3>1, <3>2 DEF Values
  <2>3. CASE d \notin InCluster(m.spec)
    BY <2>1, <2>3 DEF Values
  <2> QED
    BY <2>2, <2>3
<1>4. n.version # Blank /\ op # Blank /\ op # "legacy" /\ op # "nil"
  BY <1>1 DEF DefaultVersion, Operators, Blank
<1>5. CopyOK(n)
  BY <1>1, <1>3, <1>4 DEF CopyOK
<1>6. Pending(n) <=> Pending(m)
  BY <1>1, <1>4 DEF Pending, DefaultVersion, DefaultSynced, Blank
<1>7. InCluster(n.spec) = InCluster(m.spec)
  <2>1. SetDefaultMsgStreamType(n.spec) = SetDefaultMsgStreamType(m.spec)
    BY <1>2 DEF SetDefaultMsgStreamType
  <2> QED
    BY <1>2, <1>3, <2>1, InClusterSame
<1>8. ASSUME NEW d \in InCluster(n.spec) PROVE Values(n, d) # "nil"
  <2>1. d \in Dependencies /\ Values(n, d) = DefaultValuesByDependency(m, d, op)
    BY <1>3, <1>7, <1>8, InClusterFacts
  <2> QED
    BY <1>4, <2>1 DEF DefaultValuesByDependency
<1>9. ASSUME NEW d \in Dependencies, d = "tei" \/ m.merged \/ m.started, Values(m, d) # "nil"
      PROVE  Values(n, d) = Values(m, d)
  <2>1. d = "tei" \/ m.merged \/ IsLegacy(m, op)
    BY <1>9 DEF CopyOK, IsLegacy, DefaultVersion
  <2> QED
    BY <1>3, <1>9, <2>1 DEF DefaultValuesByDependency, Values
<1>10. ASSUME m.version = Blank, ~m.started, NEW d \in InCluster(m.spec) \ {"tei"}
       PROVE  Values(n, d) = op
  <2>1. d \in Dependencies /\ ~m.merged /\ ~IsLegacy(m, op)
    BY <1>4, <1>10, InClusterFacts DEF CopyOK, IsLegacy, DefaultVersion
  <2> QED
    BY <1>3, <1>10, <2>1 DEF DefaultValuesByDependency
<1> QED
  BY <1>1, <1>5, <1>6, <1>7, <1>8, <1>9, <1>10

\* The invariant only looks at the spec and at four fields of the metadata.
LEMMA SameMilvus ==
  ASSUME NEW m, NEW n, m.spec = n.spec, m.version = n.version, m.merged = n.merged, m.synced = n.synced, m.started = n.started
  PROVE  /\ CopyOK(m) <=> CopyOK(n)
         /\ Pending(m) <=> Pending(n)
         /\ StoredOK(m) <=> StoredOK(n)
         /\ ReleaseOK(m) <=> ReleaseOK(n)
         /\ \A d : Values(m, d) = Values(n, d)
<1>1. (Pending(m) <=> Pending(n)) /\ \A d : Values(m, d) = Values(n, d)
  BY DEF Pending, Values
<1>2. CopyOK(m) <=> CopyOK(n)
  BY <1>1 DEF CopyOK
<1>3. StoredOK(m) <=> StoredOK(n)
  BY <1>2 DEF StoredOK
<1>4. ReleaseOK(m) <=> ReleaseOK(n)
  BY <1>1 DEF ReleaseOK
<1> QED
  BY <1>1, <1>2, <1>3, <1>4

\* A write keeps the invariant.
LEMMA WroteValues ==
  ASSUME NEW m, NEW step \in {"legacy", "status", "sum", "all"}, Wrote(m, step), config' = config, release' = release,
         StoredOK(m), ReleaseOK(m),
         \A d \in InCluster(m.spec) : Values(m, d) # "nil",
         step \in {"legacy", "status"} => m.merged,
         step = "status" => ~Pending(m),
         step \in {"sum", "all"} => m.started /\ (Pending(m) => InCluster(m.spec) \subseteq {"tei"})
  PROVE  ValuesOK'
<1> DEFINE n == milvus'
<1>1. /\ n.spec = m.spec /\ n.version = m.version /\ n.merged = m.merged /\ n.synced = m.synced /\ n.started = m.started
      /\ rec'.m = n /\ rec'.read = n /\ rec'.step = step
  BY DEF Wrote
<1>2. /\ CopyOK(n) /\ StoredOK(n) /\ ReleaseOK(n) /\ (Pending(n) <=> Pending(m))
      /\ \A d : Values(n, d) = Values(m, d)
  BY ZenonT(60), <1>1, SameMilvus DEF StoredOK
<1>3. StoredOK(milvus)'
  BY <1>2 DEF StoredOK, CopyOK, Values
<1>4. ReleaseOK(milvus)'
  BY <1>2 DEF ReleaseOK, Values, Pending
<1>5. CopyOK(rec.m)'
  BY <1>1, <1>2 DEF CopyOK, Values
<1>6. n.merged => n.version # Blank
  BY <1>2 DEF CopyOK
<1>7. WorkOK'
  <2>1. (rec.step \in {"legacy", "status"} => rec.m.merged)'
    BY <1>1
  <2>2. (rec.step \in {"legacy", "status"} /\ rec.read.version = Blank /\ ~rec.read.started =>
           InCluster(rec.m.spec) \subseteq {"tei"})'
    BY <1>1, <1>6
  <2>3. (rec.step = "status" => ~Pending(rec.m))'
    BY <1>1, <1>2
  <2>4. (rec.step \in {"sum", "all", "observe"} =>
           rec.m.started /\ (Pending(rec.m) => InCluster(rec.m.spec) \subseteq {"tei"}))'
    BY <1>1, <1>2
  <2>5. \A d \in InCluster(rec'.m.spec) : Values(rec.m, d)' # "nil"
    BY ZenonT(60), <1>1, <1>2 DEF Values
  <2> QED
    BY <1>1, <1>5, <2>1, <2>2, <2>3, <2>4, <2>5 DEF WorkOK
<1> QED
  BY <1>3, <1>4, <1>7 DEF ValuesOK

LEMMA InitValues ==
  ASSUME ValuesLeft, Init
  PROVE  ValuesOK
<1>1. PICK m \in MilvusType :
        /\ m.spec = config.spec /\ m.version = Blank /\ ~m.merged /\ m.started = config.old
        /\ milvus = IF config.webhook /\ ~config.old THEN Default(m, "v1") ELSE m
  BY StartSpec
<1>2. CopyOK(m)
  BY <1>1 DEF CopyOK, ValuesLeft, Values, Init
<1>3. "v1" \in Operators
  BY DEF Operators
<1>4. StoredOK(milvus)
  BY <1>1, <1>2, <1>3, DefaultCopy DEF StoredOK
<1>5. ASSUME NEW d \in Dependencies, release[d] # "nil"
      PROVE  config.old /\ d \in {"etcd", "storage"}
  BY <1>5 DEF Init
<1>6. ReleaseOK(milvus)
  BY <1>1, <1>5 DEF ReleaseOK, Pending
<1>7. rec.step = "idle"
  BY DEF Init, NoRec
<1> QED
  BY <1>4, <1>6, <1>7 DEF ValuesOK, WorkOK

\* The steps of a reconcile that write the Milvus.
LEMMA WriteValues ==
  ASSUME TypeOK, RecOK, ValuesOK, config' = config, release' = release,
         SetDefault \/ ReconcileLegacyValues \/ SetDefaultStatus \/ SyncKafkaSaslCheckSum
  PROVE  ValuesOK'
<1>0. operator \in Operators /\ milvus \in MilvusType
  BY DEF TypeOK
<1>1. CASE Failed
  <2>1. rec'.step = "idle"
    BY <1>1 DEF Failed, NoRec
  <2> QED
    BY <1>1, <2>1 DEF Failed, ValuesOK, WorkOK, StoredOK, ReleaseOK, CopyOK, Pending, Values
<1>2. rec.step # "idle" /\ rec.m \in MilvusType /\ rec.m.spec = rec.read.spec
  BY Working DEF SetDefault, ReconcileLegacyValues, SetDefaultStatus, SyncKafkaSaslCheckSum, At, RecOK
<1>3. /\ CopyOK(rec.m)
      /\ \A d \in Dependencies : Values(rec.m, d) # "nil" => Values(milvus, d) = Values(rec.m, d)
      /\ Pending(rec.m) <=> Pending(milvus)
      /\ rec.m.started = rec.read.started
      /\ rec.m.started => milvus.started
  BY <1>2 DEF ValuesOK, WorkOK
<1>4. StoredOK(milvus) /\ ReleaseOK(milvus) /\ CopyOK(milvus)
  BY DEF ValuesOK, StoredOK
<1>5. ASSUME NEW m, NEW step, Moved(m, step) PROVE StoredOK(milvus)' /\ ReleaseOK(milvus)'
  BY <1>4, <1>5 DEF Moved, StoredOK, ReleaseOK, CopyOK, Pending, Values
<1>6. CASE SetDefault
  <2> DEFINE m == Default(rec.m, operator)
  <2>1. rec.m = rec.read /\ rec.step = "default"
    BY <1>6 DEF SetDefault, At, RecOK
  <2>2. /\ CopyOK(m) /\ m.merged /\ m.started = rec.m.started
        /\ Pending(m) <=> Pending(rec.m)
        /\ InCluster(m.spec) = InCluster(rec.m.spec)
        /\ \A d \in InCluster(m.spec) : Values(m, d) # "nil"
        /\ \A d \in Dependencies : d = "tei" \/ rec.m.merged \/ rec.m.started =>
             (Values(rec.m, d) # "nil" => Values(m, d) = Values(rec.m, d))
        /\ rec.m.version = Blank /\ ~rec.m.started => \A d \in InCluster(rec.m.spec) \ {"tei"} : Values(m, d) = operator
    BY <1>0, <1>2, <1>3, DefaultCopy
  <2>3. Failed \/ Wrote(m, "legacy") \/ (m.spec = rec.m.spec /\ Moved(m, "legacy"))
    BY <1>6, SetDefaultEffect
  <2> HIDE DEF m
  <2>4. CASE Wrote(m, "legacy")
    <3>1. rec.m = milvus
      BY <2>1, <2>4 DEF Wrote
    <3>2. StoredOK(m)
      BY <2>2 DEF StoredOK
    <3>3. ReleaseOK(m)
      BY <1>4, <2>2, <3>1 DEF ReleaseOK
    <3> QED
      BY <2>2, <2>4, <3>2, <3>3, WroteValues
  <2>5. CASE m.spec = rec.m.spec /\ Moved(m, "legacy")
    <3>1. rec'.m = m /\ rec'.read = rec.m /\ rec'.step = "legacy" /\ milvus' = milvus
      BY <2>1, <2>5 DEF Moved
    <3>2. \A d : Values(m, d) = Values(rec.m, d)
      BY <2>5 DEF Values
    <3>3. rec.m.version = Blank /\ ~rec.m.started => InCluster(m.spec) \subseteq {"tei"}
      <4> SUFFICES ASSUME rec.m.version = Blank, ~rec.m.started, NEW d \in InCluster(m.spec), d # "tei"
                   PROVE  FALSE
        OBVIOUS
      <4>1. d \in Dependencies /\ Values(rec.m, d) = operator
        BY <2>2, <3>2, InClusterFacts
      <4>2. Values(rec.m, d) \in {"nil", "user"}
        BY <1>3, <4>1 DEF CopyOK
      <4> QED
        BY <1>0, <4>1, <4>2 DEF Operators
    <3>4. CopyOK(rec.m)'
      BY <2>2, <3>1 DEF CopyOK, Values
    <3>5. (Pending(rec.m) <=> Pending(milvus))'
      BY <1>3, <2>2, <3>1 DEF Pending
    <3>6. (\A d \in Dependencies : Values(rec.m, d) # "nil" => Values(milvus, d) = Values(rec.m, d))'
      BY <1>3, <3>1, <3>2 DEF Values
    <3>7. (\A d \in InCluster(rec.m.spec) : Values(rec.m, d) # "nil")'
      BY <2>2, <3>1 DEF Values
    <3>8. WorkOK'
      BY <1>3, <2>2, <3>1, <3>3, <3>4, <3>5, <3>6, <3>7 DEF WorkOK
    <3> QED
      BY <1>5, <2>5, <3>8 DEF ValuesOK
  <2> QED
    BY <1>1, <2>3, <2>4, <2>5
<1>7. ASSUME NEW step \in {"status", "sum", "all"}, Moved(rec.m, step), rec.step # "default",
             step = "status" => rec.step = "legacy" /\ ~Pending(rec.m),
             step \in {"sum", "all"} => rec.m.started /\ (Pending(rec.m) => InCluster(rec.m.spec) \subseteq {"tei"})
      PROVE  ValuesOK'
  <2>1. rec'.m = rec.m /\ rec'.read = rec.read /\ rec'.step = step /\ milvus' = milvus
    BY <1>7 DEF Moved
  <2>2. CopyOK(rec.m)'
    BY <1>3, <2>1 DEF CopyOK, Values
  <2>3. (Pending(rec.m) <=> Pending(milvus))' /\ (Pending(rec.m)' <=> Pending(rec.m))
    BY <1>3, <2>1 DEF Pending
  <2>4. (\A d \in Dependencies : Values(rec.m, d) # "nil" => Values(milvus, d) = Values(rec.m, d))'
    BY <1>3, <2>1 DEF Values
  <2>5. (\A d \in InCluster(rec.m.spec) : Values(rec.m, d) # "nil")'
    BY <1>2, <1>7, <2>1 DEF ValuesOK, WorkOK, Values
  <2>6. step = "status" => rec.m.merged /\ (rec.read.version = Blank /\ ~rec.read.started => InCluster(rec.m.spec) \subseteq {"tei"})
    BY <1>2, <1>7 DEF ValuesOK, WorkOK
  <2>7. WorkOK'
    BY <1>3, <1>7, <2>1, <2>2, <2>3, <2>4, <2>5, <2>6 DEF WorkOK
  <2> QED
    BY <1>5, <1>7, <2>7 DEF ValuesOK
<1>8. CASE ReconcileLegacyValues
  <2> DEFINE n == SyncLegacyValues(rec.m)
  <2>1. rec.step = "legacy" /\ rec.m.merged /\ \A d \in InCluster(rec.m.spec) : Values(rec.m, d) # "nil"
    BY <1>2, <1>8 DEF ReconcileLegacyValues, At, ValuesOK, WorkOK
  <2>2. rec.m.version # Blank
    BY <1>3, <2>1 DEF CopyOK
  <2>3. CASE LegacyNeedSyncValues(rec.m) /\ Wrote(n, "status")
    <3>1. /\ n.synced = "true" /\ n.version = rec.m.version /\ n.merged = rec.m.merged /\ n.started = rec.m.started
          /\ \A d \in Dependencies : n.spec.dep[d].external = rec.m.spec.dep[d].external
          /\ \A d \in Dependencies : Values(n, d) =
               IF d \in InCluster(rec.m.spec) \ {"tei"} THEN IF release[d] = "nil" THEN "user" ELSE release[d] ELSE Values(rec.m, d)
          /\ \A f \in DOMAIN rec.m.spec \ {"dep"} : n.spec[f] = rec.m.spec[f]
      BY <1>2, SyncedType
    <3> HIDE DEF n
    <3>2. rec.read = milvus /\ rec.m.spec = milvus.spec /\ rec.m.started = milvus.started
      BY <1>2, <1>3, <2>3 DEF Wrote
    <3>3. Pending(milvus) /\ ~Pending(n)
      BY <1>3, <2>2, <2>3, <3>1 DEF Pending, LegacyNeedSyncValues
    <3>4. InCluster(n.spec) = InCluster(rec.m.spec)
      <4>1. {"tei", "msg", "mode", "image"} \subseteq DOMAIN rec.m.spec \ {"dep"}
        BY <1>2 DEF MilvusType, SpecType
      <4>2. SetDefaultMsgStreamType(n.spec) = SetDefaultMsgStreamType(rec.m.spec) /\ n.spec.tei = rec.m.spec.tei
        BY <3>1, <4>1 DEF SetDefaultMsgStreamType, DefaultMode
      <4> QED
        BY <3>1, <4>2, InClusterSame
    <3>5. CopyOK(n) /\ StoredOK(n)
      BY <1>3, <2>1, <3>1 DEF CopyOK, StoredOK
    <3>6. ReleaseOK(n)
      <4> SUFFICES ASSUME NEW d \in Dependencies, release[d] # "nil"
                   PROVE  n.started /\ (d = "tei" \/ ~config.spec.dep[d].external => Values(n, d) = release[d])
        BY <3>3 DEF ReleaseOK
      <4>1. milvus.started /\ d \in {"etcd", "storage", "tei"} /\ (d = "tei" => Values(milvus, d) = release[d])
        BY <1>4, <3>3 DEF ReleaseOK
      <4>2. CASE d = "tei"
        BY ZenonT(60), <3>1, <3>2, <4>1, <4>2 DEF Values
      <4>3. CASE d # "tei"
        <5>1. ~config.spec.dep[d].external => d \in InCluster(rec.m.spec)
          BY <1>3, <4>1, <4>3, InClusterFacts DEF CopyOK
        <5> QED
          BY <3>1, <3>2, <4>1, <4>3, <5>1
      <4> QED
        BY <4>2, <4>3
    <3>7. \A d \in InCluster(n.spec) : Values(n, d) # "nil"
      BY ZenonT(60), <2>1, <3>1, <3>4, InClusterFacts
    <3> QED
      BY <2>1, <2>3, <3>1, <3>3, <3>5, <3>6, <3>7, WroteValues
  <2>4. CASE ~LegacyNeedSyncValues(rec.m) /\ Moved(rec.m, "status")
    <3>1. ~Pending(rec.m)
      BY <2>2, <2>4 DEF Pending, LegacyNeedSyncValues
    <3> QED
      BY <1>7, <2>1, <2>4, <3>1
  <2> QED
    BY <1>1, <1>8, <2>3, <2>4, ReconcileLegacyValuesEffect
<1>9. CASE SetDefaultStatus
  <2> DEFINE n == [milvus EXCEPT !.started = TRUE]
  <2>1. /\ rec.step = "status" /\ ~Pending(rec.m) /\ \A d \in InCluster(rec.m.spec) : Values(rec.m, d) # "nil"
        /\ rec.read.version = Blank /\ ~rec.read.started => InCluster(rec.m.spec) \subseteq {"tei"}
    BY <1>2, <1>9 DEF SetDefaultStatus, At, ValuesOK, WorkOK
  <2>2. /\ n.spec = milvus.spec /\ n.version = milvus.version /\ n.merged = milvus.merged
        /\ n.synced = milvus.synced /\ n.started
    BY <1>0 DEF MilvusType
  <2>3. CASE ~rec.m.started /\ Wrote(n, "sum")
    <3> HIDE DEF n
    <3>1. rec.read = milvus /\ rec.m.spec = milvus.spec /\ ~milvus.started
      BY <1>2, <1>3, <2>3 DEF Wrote
    <3>2. CopyOK(n) /\ StoredOK(n)
      BY <1>4, <2>2 DEF CopyOK, StoredOK, Values
    <3>3. ReleaseOK(n)
      BY <1>4, <3>1 DEF ReleaseOK
    <3>4. Pending(n) => InCluster(n.spec) \subseteq {"tei"}
      <4>1. Pending(n) => milvus.version = Blank
        BY <1>3, <2>1, <2>2 DEF Pending
      <4> QED
        BY <2>1, <2>2, <3>1, <4>1
    <3>5. \A d \in InCluster(n.spec) : Values(n, d) # "nil"
      BY <2>1, <2>2, <3>1 DEF Values
    <3> QED
      BY <2>2, <2>3, <3>2, <3>3, <3>4, <3>5, WroteValues
  <2>4. CASE rec.m.started /\ Moved(rec.m, "sum")
    BY <1>7, <2>1, <2>4
  <2> QED
    BY <1>1, <1>9, <2>3, <2>4, SetDefaultStatusEffect
<1>10. CASE SyncKafkaSaslCheckSum
  <2>1. /\ rec.step = "sum" /\ \A d \in InCluster(rec.m.spec) : Values(rec.m, d) # "nil"
        /\ rec.m.started /\ (Pending(rec.m) => InCluster(rec.m.spec) \subseteq {"tei"})
    BY <1>2, <1>10 DEF SyncKafkaSaslCheckSum, At, ValuesOK, WorkOK
  <2>2. CASE Wrote(rec.m, "all")
    <3>1. rec.m.spec = milvus.spec /\ rec.m.started = milvus.started
      BY <1>2, <1>3, <2>2 DEF Wrote
    <3>2. StoredOK(rec.m)
      BY <1>3, <2>1 DEF StoredOK
    <3>3. ReleaseOK(rec.m)
      BY <1>3, <1>4, <3>1 DEF ReleaseOK, Values
    <3> QED
      BY <2>1, <2>2, <3>2, <3>3, WroteValues
  <2>3. CASE Moved(rec.m, "all")
    BY <1>7, <2>1, <2>3
  <2> QED
    BY <1>1, <1>10, <2>2, <2>3, SyncKafkaSaslCheckSumEffect
<1> QED
  BY <1>6, <1>8, <1>9, <1>10

\* Helm gets what it has been given before.
LEMMA HelmKeeps ==
  ASSUME TypeOK, ValuesOK, ReconcileDependencies, NEW d \in Dependencies, release[d] # "nil"
  PROVE  release'[d] = release[d]
<1>1. rec.step = "all" /\ release' = [c \in Dependencies |-> IF c \in InCluster(rec.m.spec) THEN rec.m.spec.dep[c].values ELSE release[c]]
  BY DEF ReconcileDependencies, Job, At
<1>2. CASE d \in InCluster(rec.m.spec)
  <2>1. /\ CopyOK(rec.m) /\ Values(rec.m, d) # "nil" /\ Values(milvus, d) = Values(rec.m, d)
        /\ Pending(milvus) => InCluster(rec.m.spec) \subseteq {"tei"}
    BY <1>1, <1>2 DEF ValuesOK, WorkOK
  <2>2. d = "tei" \/ (~Pending(milvus) /\ ~config.spec.dep[d].external)
    BY <1>2, <2>1, InClusterFacts DEF CopyOK
  <2>3. Values(milvus, d) = release[d]
    BY <2>2 DEF ValuesOK, ReleaseOK
  <2> QED
    BY <1>1, <1>2, <2>1, <2>3 DEF Values
<1>3. CASE d \notin InCluster(rec.m.spec)
  BY <1>1, <1>3
<1> QED
  BY <1>2, <1>3

LEMMA WorkedValues ==
  ASSUME ValuesOK, config' = config, rec.step = "all", NEW job, NEW next, Worked(job, next)
  PROVE  WorkOK'
<1>1. milvus' = milvus
  BY DEF Worked
<1>2. CASE rec' = NoRec
  BY <1>2 DEF WorkOK, NoRec
<1>3. CASE rec'.m = rec.m /\ rec'.read = rec.read /\ rec'.step \in {"all", "observe"}
  <2>1. CopyOK(rec.m)'
    BY <1>3 DEF ValuesOK, WorkOK, CopyOK, Values
  <2>2. (Pending(rec.m) <=> Pending(milvus))' /\ (Pending(rec.m)' <=> Pending(rec.m))
    BY <1>1, <1>3 DEF ValuesOK, WorkOK, Pending
  <2>3. (\A d \in Dependencies : Values(rec.m, d) # "nil" => Values(milvus, d) = Values(rec.m, d))'
    BY <1>1, <1>3 DEF ValuesOK, WorkOK, Values
  <2>4. (\A d \in InCluster(rec.m.spec) : Values(rec.m, d) # "nil")'
    BY <1>3 DEF ValuesOK, WorkOK, Values
  <2>5. (rec.m.started = rec.read.started /\ (rec.m.started => milvus.started))'
    BY <1>1, <1>3 DEF ValuesOK, WorkOK
  <2>6. (rec.m.started /\ (Pending(rec.m) => InCluster(rec.m.spec) \subseteq {"tei"}))'
    BY <1>3, <2>2 DEF ValuesOK, WorkOK
  <2> QED
    BY <1>3, <2>1, <2>2, <2>3, <2>4, <2>5, <2>6 DEF WorkOK
<1> QED
  BY <1>2, <1>3 DEF Worked

\* A step that changes the stored Milvus beside a reconcile.
LEMMA BesideValues ==
  ASSUME WorkOK, config' = config, rec' = rec, Pending(milvus)' <=> Pending(milvus), milvus'.started = milvus.started,
         \A d \in Dependencies : Values(milvus, d) # "nil" => Values(milvus, d)' = Values(milvus, d)
  PROVE  WorkOK'
<1> SUFFICES ASSUME rec.step # "idle" PROVE WorkOK'
  BY DEF WorkOK
<1>1. CopyOK(rec.m)'
  BY DEF WorkOK, CopyOK, Values
<1>2. (Pending(rec.m) <=> Pending(milvus))' /\ (Pending(rec.m)' <=> Pending(rec.m))
  <2>1. Pending(rec.m)' <=> Pending(rec.m)
    BY DEF Pending
  <2> QED
    BY <2>1 DEF WorkOK
<1>3. (\A d \in Dependencies : Values(rec.m, d) # "nil" => Values(milvus, d) = Values(rec.m, d))'
  <2>1. \A d : Values(rec.m, d)' = Values(rec.m, d)
    BY DEF Values
  <2> QED
    BY <2>1 DEF WorkOK
<1>4. (rec.step # "default" => \A d \in InCluster(rec.m.spec) : Values(rec.m, d) # "nil")'
  BY DEF WorkOK, Values
<1> QED
  BY <1>1, <1>2, <1>3, <1>4 DEF WorkOK

LEMMA StepValues ==
  ASSUME ValuesLeft, TypeOK, RecOK, ValuesOK, Next
  PROVE  ValuesOK'
<1>0. config' = config /\ config \in Configs /\ operator \in Operators /\ NoRec.step = "idle"
  BY ConfigKept DEF TypeOK, NoRec
<1>1. StoredOK(milvus) /\ ReleaseOK(milvus) /\ CopyOK(milvus) /\ WorkOK
  BY DEF ValuesOK, StoredOK
<1>2. CASE SetDefault \/ ReconcileLegacyValues \/ SetDefaultStatus \/ SyncKafkaSaslCheckSum
  <2>1. release' = release
    BY <1>2 DEF SetDefault, ReconcileLegacyValues, SetDefaultStatus, SyncKafkaSaslCheckSum, cluster
  <2> QED
    BY <1>0, <1>2, <2>1, WriteValues
<1>3. ASSUME milvus' = milvus, release' = release PROVE StoredOK(milvus)' /\ ReleaseOK(milvus)'
  BY <1>0, <1>1, <1>3 DEF StoredOK, ReleaseOK, CopyOK, Pending, Values
\* A step that leaves what the invariant looks at.
<1>4. ASSUME milvus'.spec = milvus.spec, milvus'.version = milvus.version, milvus'.merged = milvus.merged,
             milvus'.synced = milvus.synced, milvus'.started = milvus.started, release' = release,
             rec' = rec \/ rec' = NoRec
      PROVE  ValuesOK'
  <2> DEFINE n == milvus'
  <2>1. /\ StoredOK(n) /\ ReleaseOK(n) /\ (Pending(n) <=> Pending(milvus))
        /\ \A d : Values(n, d) = Values(milvus, d)
    BY <1>1, <1>4, SameMilvus
  <2>2. StoredOK(milvus)' /\ ReleaseOK(milvus)'
    BY <1>0, <1>4, <2>1 DEF StoredOK, ReleaseOK, CopyOK, Pending, Values
  <2>3. WorkOK'
    <3>1. (Pending(milvus)' <=> Pending(milvus)) /\ \A d : Values(milvus, d)' = Values(milvus, d)
      BY <1>4 DEF Pending, Values
    <3>2. CASE rec' = rec
      BY <1>0, <1>1, <1>4, <3>1, <3>2, BesideValues
    <3>3. CASE rec' = NoRec
      BY <1>0, <3>3 DEF WorkOK
    <3> QED
      BY <1>4, <3>2, <3>3
  <2> QED
    BY <2>2, <2>3 DEF ValuesOK
<1>5. CASE StartReconcile
  <2>1. rec' = [rec EXCEPT !.step = "default", !.m = milvus, !.read = milvus] /\ rec = NoRec /\ milvus' = milvus /\ release' = release
    BY <1>5 DEF StartReconcile, Goto, At, TypeOK, RecType, cluster
  <2>2. rec'.m = milvus /\ rec'.read = milvus /\ rec'.step = "default"
    BY <2>1 DEF NoRec
  <2>3. CopyOK(rec.m)'
    BY <1>0, <1>1, <2>2 DEF CopyOK, Values
  <2>4. (Pending(rec.m) <=> Pending(milvus))' /\ \A d : Values(milvus, d)' = Values(rec.m, d)'
    BY <2>1, <2>2 DEF Pending, Values
  <2>5. WorkOK'
    BY <2>1, <2>2, <2>3, <2>4 DEF WorkOK
  <2> QED
    BY <1>3, <2>1, <2>5 DEF ValuesOK
<1>6. CASE ReconcileDependencies
  <2>1. Worked("helm", {}) /\ rec.step = "all" /\ milvus' = milvus
    BY <1>6, DoneEffect DEF ReconcileDependencies, Job, At
  <2>2. StoredOK(milvus)'
    BY <1>0, <1>1, <2>1 DEF StoredOK, CopyOK, Values
  <2>3. ReleaseOK(milvus)'
    <3>1. ASSUME NEW d \in Dependencies, release'[d] # "nil"
          PROVE  /\ milvus.started
                 /\ d = "tei" \/ (~Pending(milvus) /\ ~config.spec.dep[d].external) => Values(milvus, d) = release'[d]
                 /\ Pending(milvus) => d \in {"etcd", "storage", "tei"}
      <4>1. CASE release[d] # "nil"
        BY <1>1, <1>6, <4>1, HelmKeeps DEF ReleaseOK
      <4>2. CASE release[d] = "nil"
        <5>1. d \in InCluster(rec.m.spec) /\ release'[d] = Values(rec.m, d)
          BY <1>6, <3>1, <4>2 DEF ReconcileDependencies, Values
        <5>2. /\ Values(rec.m, d) # "nil" => Values(milvus, d) = Values(rec.m, d)
              /\ milvus.started
              /\ Pending(milvus) => InCluster(rec.m.spec) \subseteq {"tei"}
          BY <1>1, <2>1 DEF WorkOK
        <5> QED
          BY <3>1, <5>1, <5>2
      <4> QED
        BY <4>1, <4>2
    <3> QED
      BY <1>0, <2>1, <3>1 DEF ReleaseOK, Pending, Values
  <2> QED
    BY <1>0, <2>1, <2>2, <2>3, WorkedValues DEF ValuesOK
<1>7. CASE ReconcileConfigMaps
  <2>1. rec.step = "all" /\ release' = release /\ milvus' = milvus
    BY <1>7 DEF ReconcileConfigMaps, Job, At
  <2>2. WorkOK'
    BY <1>0, <1>7, <2>1, ReconcileConfigMapsEffect, WorkedValues
  <2> QED
    BY <1>3, <2>1, <2>2 DEF ValuesOK
<1>8. CASE ReconcileComponentDeployment
  <2>1. rec.step = "all" /\ release' = release /\ milvus' = milvus
    BY <1>8 DEF ReconcileComponentDeployment, Job, At
  <2>2. WorkOK'
    BY <1>0, <1>8, <2>1, ReconcileComponentDeploymentEffect, WorkedValues
  <2> QED
    BY <1>3, <2>1, <2>2 DEF ValuesOK
<1>9. CASE UpdateStatusForNewGeneration
  <2>1. release' = release /\ rec' = NoRec /\ milvus' \in {milvus, [milvus EXCEPT !.observed = TRUE]}
    BY <1>9, UpdateStatusForNewGenerationEffect DEF UpdateStatusForNewGeneration, cluster
  <2>2. /\ milvus'.spec = milvus.spec /\ milvus'.version = milvus.version /\ milvus'.merged = milvus.merged
        /\ milvus'.synced = milvus.synced /\ milvus'.started = milvus.started
    BY <2>1 DEF TypeOK, MilvusType
  <2> QED
    BY <1>4, <2>1, <2>2
<1>10. CASE DependenciesReady
  <2>1. /\ release' = release /\ rec' = rec
        /\ milvus'.spec = milvus.spec /\ milvus'.version = milvus.version /\ milvus'.merged = milvus.merged
        /\ milvus'.synced = milvus.synced /\ milvus'.started = milvus.started
    BY <1>10 DEF DependenciesReady, cluster, TypeOK, MilvusType
  <2> QED
    BY <1>4, <2>1
<1>11. CASE Roll \/ Rotate \/ KubectlRestart
  BY <1>4, <1>11 DEF Roll, Rotate, KubectlRestart, cluster
<1>12. CASE UpgradeOperator \/ Crash
  BY <1>4, <1>12 DEF UpgradeOperator, Crash, Restart, cluster
<1>13. CASE Edit
  <2>1. PICK e \in config.edits, m \in MilvusType :
           /\ m.spec = [milvus.spec EXCEPT ![e.field] = e.value]
           /\ m.version = milvus.version /\ m.merged = milvus.merged
           /\ m.synced = milvus.synced /\ m.started = milvus.started
           /\ LET n == IF config.webhook THEN Default(m, operator) ELSE m
              IN  /\ milvus'.spec = n.spec /\ milvus'.version = n.version /\ milvus'.merged = n.merged
                  /\ milvus'.synced = n.synced /\ milvus'.started = n.started
    BY <1>13, EditEffect
  <2> DEFINE n == IF config.webhook THEN Default(m, operator) ELSE m
  <2>2. m.spec.dep = milvus.spec.dep
    <3>1. e.field # "dep"
      BY <1>0, <2>1 DEF ValuesLeft
    <3>2. "dep" \in DOMAIN milvus.spec
      BY ZenonT(60) DEF TypeOK, MilvusType, SpecType
    <3> QED
      BY <2>1, <3>1, <3>2
  <2>3. /\ CopyOK(m) /\ (Pending(m) <=> Pending(milvus)) /\ \A d : Values(m, d) = Values(milvus, d)
        /\ config.webhook => m.merged \/ m.started
    BY <1>1, <2>1, <2>2 DEF CopyOK, Values, Pending, StoredOK
  <2>4. /\ CopyOK(n) /\ n.started = milvus.started /\ (Pending(n) <=> Pending(milvus)) /\ (config.webhook => n.merged)
        /\ \A d \in Dependencies : Values(milvus, d) # "nil" => Values(n, d) = Values(milvus, d)
    <3>1. CASE config.webhook
      BY <1>0, <2>1, <2>3, <3>1, DefaultCopy
    <3>2. CASE ~config.webhook
      BY <2>1, <2>3, <3>2
    <3> QED
      BY <3>1, <3>2
  <2>5. /\ milvus'.spec = n.spec /\ milvus'.version = n.version /\ milvus'.merged = n.merged
        /\ milvus'.synced = n.synced /\ milvus'.started = n.started
        /\ release' = release /\ rec' = rec
    BY <1>13, <2>1 DEF Edit, cluster
  <2> HIDE DEF n
  <2>6. StoredOK(n) /\ ReleaseOK(n)
    BY <1>1, <2>4 DEF StoredOK, ReleaseOK
  <2> DEFINE x == milvus'
  <2>7. /\ StoredOK(x) /\ ReleaseOK(x) /\ (Pending(x) <=> Pending(milvus)) /\ x.started = milvus.started
        /\ \A d : Values(x, d) = Values(n, d)
    BY <2>4, <2>5, <2>6, SameMilvus
  <2>8. StoredOK(milvus)' /\ ReleaseOK(milvus)'
    BY <1>0, <2>5, <2>7 DEF StoredOK, ReleaseOK, CopyOK, Pending, Values
  <2>9. WorkOK'
    <3>1. \A d : Values(milvus, d)' = Values(x, d)
      BY DEF Values
    <3>2. Pending(milvus)' <=> Pending(milvus)
      BY <2>7 DEF Pending
    <3> QED
      BY <1>0, <1>1, <2>4, <2>5, <2>7, <3>1, <3>2, BesideValues
  <2> QED
    BY <2>8, <2>9 DEF ValuesOK
<1> QED
  BY <1>2, <1>5, <1>6, <1>7, <1>8, <1>9, <1>10, <1>11, <1>12, <1>13 DEF Next, Reconcile

\* Only Helm touches the releases.
LEMMA ReleaseKept ==
  ASSUME Next, ~ReconcileDependencies
  PROVE  release' = release
BY DEF Next, Reconcile, StartReconcile, SetDefault, ReconcileLegacyValues, SetDefaultStatus, SyncKafkaSaslCheckSum,
       ReconcileConfigMaps, ReconcileComponentDeployment, UpdateStatusForNewGeneration,
       DependenciesReady, Roll, Edit, Rotate, UpgradeOperator, Crash, Restart, KubectlRestart, cluster

\* No release of a dependency is given other values than those it has, through
\* edits, crashes, other versions of the operator and the webhook, and for an
\* instance that an older operator has left, as long as the user does not give
\* other values.
THEOREM ReleasesKept ==
  ASSUME ValuesLeft
  PROVE  Spec => ChartValuesKept
<1>1. Init => TypeOK /\ RecOK /\ ValuesOK
  BY InitTypes, InitValues
<1>2. TypeOK /\ RecOK /\ ValuesOK /\ [Next]_vars => TypeOK' /\ RecOK' /\ ValuesOK'
  <2>1. CASE TypeOK /\ RecOK /\ ValuesOK /\ Next
    BY <2>1, ReconcileTypes, OtherTypes, StepRec, StepValues DEF Next
  <2>2. CASE TypeOK /\ RecOK /\ ValuesOK /\ UNCHANGED vars
    BY <2>2 DEF TypeOK, RecOK, ValuesOK, StoredOK, ReleaseOK, WorkOK, CopyOK, Pending, Values, vars
  <2> QED
    BY <2>1, <2>2
<1>3. TypeOK /\ ValuesOK /\ [Next]_vars => [\A d \in Dependencies : release[d] # "nil" => release'[d] = release[d]]_vars
  BY HelmKeeps, ReleaseKept
<1> QED
  BY <1>1, <1>2, <1>3, PTL DEF Spec, ChartValuesKept
=============================================================================
