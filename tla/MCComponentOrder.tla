-------------------------- MODULE MCComponentOrder --------------------------
(***************************************************************************)
(* Instances for TLC: a cluster with a mixcoord and a change data capture, *)
(* and one with four coordinators, both taken from 2.5 to 2.6 and back.    *)
(***************************************************************************)
EXTENDS ComponentOrder

MCSpec(fields) ==
  [mode |-> "cluster", image |-> "v25", fields |-> fields, streaming |-> "unset",
   update |-> "rollingUpgrade"]

MCEdits(update) == [image: Images, update: update]

MCConfigs ==
  {[spec |-> MCSpec({"mixcoord"}), idle |-> {}, maxEdits |-> 2,
    edits |-> MCEdits({"rollingUpgrade"})],
   [spec |-> MCSpec({"rootcoord"}), idle |-> {}, maxEdits |-> 2,
    edits |-> {[image |-> "v26", update |-> "rollingUpgrade"], [image |-> "v25", update |-> "rollingDowngrade"]}],
   [spec |-> MCSpec({"cdc"}), idle |-> {"datanode"}, maxEdits |-> 1,
    edits |-> [image: {"v25b"}, update: {"rollingUpgrade", "rollingDowngrade", "all"}]]}
=============================================================================
