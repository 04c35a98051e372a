----------------------------- MODULE Components -----------------------------
(***************************************************************************)
(* Which components an instance has and in which order their images are    *)
(* updated: the lists of components.go, the predicates of milvus_types.go, *)
(* the graphs of dependency_graph.go, and the defaults the webhook gives   *)
(* to spec.components.                                                     *)
(***************************************************************************)
EXTENDS FiniteSets

CONSTANTS
  Images,   \* images of spec.components
  Images26  \* those of version 2.6 or later

ASSUME ImagesAssumption == Images26 \subseteq Images

MilvusCoords == {"rootcoord", "datacoord", "querycoord", "indexcoord"}
MixtureComponents == {"mixcoord", "datanode", "querynode", "indexnode", "proxy", "standalone"}
MilvusComponents ==
  MilvusCoords \cup {"datanode", "querynode", "indexnode", "proxy", "standalone"}
Milvus26Components ==
  {"mixcoord", "datanode", "streamingnode", "querynode", "proxy", "standalone"}
AllComponents == MixtureComponents \cup MilvusComponents \cup Milvus26Components \cup {"cdc"}

\* fields: the components with a non-nil field of spec.components; streaming:
\* the pointer streamingMode.
SpecType ==
  [mode: {"standalone", "cluster"}, image: Images, fields: SUBSET AllComponents,
   streaming: {"unset", "true", "false"},
   update: {"rollingUpgrade", "rollingDowngrade", "all", "force"}]

\* The version is spec.components.version or the tag of the image.
IsVersionGreaterThan26(spec) == spec.image \in Images26
UseMixCoord(spec) == "mixcoord" \in spec.fields
UseCdc(spec) == "cdc" \in spec.fields
HasCoordsSpec(spec) == spec.fields \cap MilvusCoords # {}

UseStreamingNode(spec) ==
  \/ IsVersionGreaterThan26(spec)
  \/ spec.streaming = "true"
  \/ spec.streaming = "unset" /\ "streamingnode" \in spec.fields

GetComponentsBySpec(spec) ==
  (IF UseCdc(spec) THEN {"cdc"} ELSE {}) \cup
  CASE spec.mode # "cluster" -> {"standalone"}
    [] spec.mode = "cluster" /\ IsVersionGreaterThan26(spec) -> Milvus26Components
    [] OTHER -> (IF UseMixCoord(spec) THEN MixtureComponents ELSE MilvusComponents)
                \cup (IF UseStreamingNode(spec) THEN {"streamingnode"} ELSE {})

-----------------------------------------------------------------------------
(* The order of updates: a graph is the set of its edges, from a component  *)
(* to the one it waits for.                                                 *)

ClusterGraph ==
  {<<"rootcoord", "indexnode">>, <<"datacoord", "rootcoord">>, <<"indexcoord", "datacoord">>,
   <<"querycoord", "indexcoord">>, <<"querynode", "querycoord">>, <<"datanode", "querynode">>,
   <<"proxy", "datanode">>}

MixCoordGraph ==
  {<<"mixcoord", "indexnode">>, <<"querynode", "mixcoord">>, <<"datanode", "querynode">>,
   <<"proxy", "datanode">>}

StreamingNodeGraph ==
  {<<"streamingnode", "mixcoord">>, <<"querynode", "streamingnode">>, <<"datanode", "querynode">>,
   <<"proxy", "datanode">>}

Upgrade26Graph ==
  {<<"mixcoord", "streamingnode">>, <<"querynode", "mixcoord">>, <<"datanode", "querynode">>,
   <<"proxy", "datanode">>}

Dependencies(graph, c) == {e[2] : e \in {f \in graph : f[1] = c}}
ReversedDependencies(graph, c) == {e[1] : e \in {f \in graph : f[2] = c}}

GetDependenciesFor26Upgrade(spec, c) ==
  IF spec.mode # "cluster" THEN {} ELSE Dependencies(Upgrade26Graph, c)

GetDependencies(spec, c) ==
  LET graph == CASE UseStreamingNode(spec) -> StreamingNodeGraph
                 [] ~UseStreamingNode(spec) /\ UseMixCoord(spec) -> MixCoordGraph
                 [] OTHER -> ClusterGraph
  IN  CASE spec.mode # "cluster" -> {}
        [] spec.mode = "cluster" /\ spec.update = "rollingDowngrade" -> ReversedDependencies(graph, c)
        [] OTHER -> Dependencies(graph, c)

-----------------------------------------------------------------------------
(* DefaultComponents and defaultComponentsReplicas, as far as they decide   *)
(* which fields there are.                                                  *)

\* Fields a cluster has whatever its version and its coordinators.
ClusterFields == {"proxy", "datanode", "querynode"}

DefaultCoordinators(spec) ==
  CASE UseMixCoord(spec) -> {}
    [] ~UseMixCoord(spec) /\ ~HasCoordsSpec(spec) -> {"mixcoord"}
    [] OTHER -> MilvusCoords \cup (IF IsVersionGreaterThan26(spec) THEN {"mixcoord"} ELSE {})

DefaultComponents(spec) ==
  LET fields == {"standalone"} \cup ClusterFields \cup DefaultCoordinators(spec)
                \cup (IF IsVersionGreaterThan26(spec) THEN {} ELSE {"indexnode"})
                \cup (IF UseStreamingNode(spec) THEN {"streamingnode"} ELSE {})
  IN  IF spec.mode # "cluster" THEN [spec EXCEPT !.fields = @ \cup {"standalone"}]
      ELSE [spec EXCEPT !.fields = @ \cup fields,
                        !.streaming = IF UseStreamingNode(spec) THEN "true" ELSE "false"]
=============================================================================
