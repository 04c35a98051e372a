--------------------------- MODULE MCMilvusRender ---------------------------
(***************************************************************************)
(* Instances for TLC.  Each configuration starts from a spec and has a few *)
(* edits that concern it: a cluster on an external kafka with groups, a    *)
(* standalone that is new or left by an older operator, one that changes   *)
(* its stream, and one in manual mode that changes its ConfigMap.          *)
(***************************************************************************)
EXTENDS MilvusRender

Dep(external) == [external |-> external, chart |-> "", values |-> "nil", policy |-> ""]

Base ==
  [mode |-> "", image |-> "2.4", msg |-> "", dep |-> [d \in Dependencies |-> Dep(FALSE)], tei |-> FALSE,
   etcdReplicas |-> -1, etcdEndpoints |-> 0, brokers |-> 0, pulsar |-> 0, pools |-> 0, endpoint |-> 0,
   storage |-> "", sasl |-> FALSE, ssl |-> "none", conf |-> "a", standby |-> FALSE, rolling |-> "unset",
   rollingMode |-> 0, imageMode |-> "", surge |-> 1, unavailable |-> 0, only |-> "unset", tool |-> FALSE,
   active |-> "", manual |-> FALSE, statefulSet |-> FALSE, labels |-> {}, group |-> NoGroup,
   volume |-> FALSE, replicas |-> 1]

Kafka ==
  [Base EXCEPT !.mode = "cluster", !.msg = "kafka", !.dep["kafka"] = Dep(TRUE), !.dep["storage"] = Dep(TRUE),
               !.brokers = 1, !.endpoint = 1, !.storage = "own", !.sasl = TRUE, !.only = "false"]

E(field, values) == {[field |-> field, value |-> v] : v \in values}

MCKafka ==
  {[spec |-> [Kafka EXCEPT !.group = {"group"}], old |-> FALSE, webhook |-> TRUE, maxEdits |-> 2, maxTurns |-> 1, maxFaults |-> 0,
    edits |-> E("group", {{}, {"group"}, {"group", "milvus.io/any"}}) \cup E("sasl", BOOLEAN)
              \cup E("ssl", {"none", "cert", "bad"}) \cup E("storage", {"", "own"})]}

MCStandalone ==
  {[spec |-> Base, old |-> o, webhook |-> w, maxEdits |-> IF o THEN 1 ELSE 2, maxTurns |-> IF o THEN 2 ELSE 1, maxFaults |-> 1,
    edits |-> E("image", {"2.4", "2.5"}) \cup E("conf", {"b"}) \cup E("tool", {TRUE})
              \cup E("replicas", {0, 1})] : o \in BOOLEAN, w \in BOOLEAN}

MCStream ==
  {[spec |-> [Base EXCEPT !.mode = "cluster", !.tei = TRUE], old |-> FALSE, webhook |-> w, maxEdits |-> 1, maxTurns |-> 1, maxFaults |-> 1,
    edits |-> E("msg", {"kafka", "woodpecker"}) \cup E("labels", {{"pod"}}) \cup E("volume", {TRUE})] : w \in BOOLEAN}

MCManual ==
  {[spec |-> [Base EXCEPT !.manual = TRUE], old |-> FALSE, webhook |-> TRUE, maxEdits |-> 2, maxTurns |-> 1, maxFaults |-> 0,
    edits |-> E("active", {"new", ""}) \cup E("conf", {"b"}) \cup E("only", {"false"})]}

MCConfigs == MCKafka \cup MCStandalone \cup MCStream \cup MCManual

MCRotation ==
  {[spec |-> [Kafka EXCEPT !.only = "unset"], old |-> FALSE, webhook |-> TRUE, maxEdits |-> 0, maxTurns |-> 1, maxFaults |-> 0, edits |-> {}]}
=============================================================================
