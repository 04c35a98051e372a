--------------------------- MODULE MCHelmRelease ----------------------------
(***************************************************************************)
(* Instances for TLC: new and old releases of each kind.  In MCEtcd only   *)
(* an etcd, twice resized.                                                 *)
(***************************************************************************)
EXTENDS HelmRelease

MCConfigs ==
  {[kind |-> "etcd", chart |-> c, sizes |-> 1..4, back |-> FALSE] : c \in {"v6", None}}
  \cup {[kind |-> "storage", chart |-> c, sizes |-> 1..2, back |-> TRUE] : c \in {"minio", None}}
  \cup {[kind |-> "pulsar", chart |-> c, sizes |-> 1..2, back |-> TRUE] : c \in {"pulsar", None}}

MCEtcd == {[kind |-> "etcd", chart |-> "v8", sizes |-> 1..3, back |-> FALSE]}
=============================================================================
