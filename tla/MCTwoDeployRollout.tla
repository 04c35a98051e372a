------------------------- MODULE MCTwoDeployRollout -------------------------
(* Instances of TwoDeployRollout for TLC.                                   *)
EXTENDS TwoDeployRollout, TLC

CONSTANTS v1, v2

MCTemplates == {v1, v2}
SameLimits == v1 :> "small" @@ v2 :> "small" @@ Dummy :> "small"
NewLimits == v1 :> "small" @@ v2 :> "large" @@ Dummy :> "small"

\* The default strategy, and none that surges: a quarter rounds down to zero.
SurgeOne == [maxSurge |-> AsInt(1), maxUnavailable |-> AsInt(0)]
NoSurge == [maxSurge |-> AsInt(0), maxUnavailable |-> AsPercent(25)]

Config(mode, strategy, limits, replicas, lagging, maxEdits) ==
  [mode |-> mode, strategy |-> strategy, limits |-> limits,
   replicas |-> replicas, lagging |-> lagging, maxEdits |-> maxEdits,
   maxScales |-> IF mode = "static" THEN 0 ELSE 1,
   maxFailures |-> IF mode = "static" THEN 1 ELSE 0, maxFaults |-> 1]

MCStatic ==
  {Config("static", SurgeOne, SameLimits, {0, 2}, {}, 2),
   Config("static", SurgeOne, NewLimits, {1, 2}, {}, 2),
   Config("static", NoSurge, SameLimits, {1, 2}, {}, 2),
   Config("static", NoSurge, NewLimits, {2}, {}, 3),
   Config("static", NoSurge, SameLimits, {0, 1}, {"milvus", "pods"}, 2),
   Config("static", SurgeOne, SameLimits, {0, 1}, {"milvus", "deploy", "pods"}, 1),
   Config("static", NoSurge, SameLimits, {0, 1}, {"milvus", "deploy", "pods"}, 1)}
MCUnattended ==
  {Config("hpa", SurgeOne, SameLimits, {1}, {}, 2),
   Config("external", SurgeOne, SameLimits, {-1, 0}, {}, 2),
   Config("force", SurgeOne, SameLimits, {0, 2}, {}, 2)}
MCRollout == MCStatic \cup MCUnattended

Unscaled(c) == [c EXCEPT !.maxScales = 0, !.maxFaults = 0]
MCHpa == {Unscaled(Config("hpa", SurgeOne, SameLimits, {1}, {}, 2))}
MCHpaAndReplicas == {Unscaled(Config("hpa", SurgeOne, SameLimits, {2}, {}, 1))}
=============================================================================
