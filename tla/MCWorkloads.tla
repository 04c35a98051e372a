---------------------------- MODULE MCWorkloads -----------------------------
(***************************************************************************)
(* Instances for TLC.                                                      *)
(***************************************************************************)
EXTENDS Workloads

Cluster ==
  [mode |-> "cluster", proxy |-> {}, querynode |-> {}, sts |-> FALSE, replicas |-> 1, size |-> 1,
   standalone |-> 0, hold |-> "no"]

Alone == [Cluster EXCEPT !.mode = "standalone", !.standalone = 1]
Moving == [Cluster EXCEPT !.standalone = 1]
Sets == [Cluster EXCEPT !.sts = TRUE]

Instance(start, plans, edit, fault, old) ==
  [start |-> start, plans |-> plans, maxEdits |-> edit, maxFaults |-> fault, old |-> old,
   expands |-> TRUE]

\* The same on volumes that cannot grow.
Fixed(c) == [c EXCEPT !.expands = FALSE]

\* Groups come and go, without crashes, and go for good, with one.
Grouped ==
  LET both(g) == [Cluster EXCEPT !.proxy = g, !.querynode = g]
  IN  {Instance(Cluster, {both(g) : g \in SUBSET {"a", "b"}}, 2, 0, FALSE),
       Instance(both({"a"}), {both({"b"}), both({})}, 1, 1, FALSE)}

\* From standalone to cluster and back, or the other way round; an old
\* instance to cluster only.
Modes ==
  {Instance(Alone, {Moving, Cluster, Alone}, 3, 1, FALSE),
   Instance(Cluster, {Moving, Cluster, Alone}, 3, 0, FALSE),
   Instance(Alone, {Moving, Cluster}, 2, 1, TRUE)}

\* StatefulSets that come and go, and are resized.
Kinds ==
  {Instance(Cluster, {Sets, Cluster, [Sets EXCEPT !.replicas = 2, !.size = 2]}, 3, 0, FALSE),
   Instance(Sets, {[Sets EXCEPT !.querynode = {"a"}], [Sets EXCEPT !.replicas = 2, !.size = 2],
                   [Sets EXCEPT !.size = 2, !.replicas = 0], Cluster}, 2, 1, FALSE),
   Fixed(Instance(Sets, {[Sets EXCEPT !.size = 2]}, 1, 1, FALSE))}

MCConfigs == Grouped \cup Modes \cup Kinds

\* A paused cluster whose groups change.
MCPaused ==
  {Instance([Cluster EXCEPT !.hold = "paused"], {[Cluster EXCEPT !.hold = "paused", !.querynode = {"a"}]}, 1, 0, FALSE)}

\* A cluster with a StatefulSet that becomes a standalone.
MCLeaving == {Instance(Sets, {[Alone EXCEPT !.sts = TRUE]}, 1, 0, FALSE)}
=============================================================================
