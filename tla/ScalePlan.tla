------------------------------ MODULE ScalePlan ------------------------------
(***************************************************************************)
(* The planner of the two-deployment mode: which of a component's two      *)
(* Deployments to scale next, and by how much                              *)
(* (pkg/controllers/deploy_ctrl_util.go).  The current Deployment runs the *)
(* pod template the spec asks for, the last one is being drained.          *)
(*                                                                         *)
(* A Deployment is a record with the fields replicas (spec), available and *)
(* ready (status) and limits (the resource limits of its pod template).    *)
(***************************************************************************)
EXTENDS Integers

Min2(a, b) == IF a < b THEN a ELSE b
Max2(a, b) == IF a > b THEN a ELSE b

\* A step changes the replicas of one of the two Deployments, or neither.
ScaleAction(which, change) == [deploy |-> which, replicaChange |-> change]
NoScaleAction == ScaleAction("current", 0)

-----------------------------------------------------------------------------
(* An IntOrString is a record: a number, or a percentage of the replicas.   *)

IntOrString == [percent: BOOLEAN, value: Nat]
AsInt(n) == [percent |-> FALSE, value |-> n]
AsPercent(n) == [percent |-> TRUE, value |-> n]

ScaledValue(v, total, roundUp) ==
  IF ~v.percent THEN v.value
  ELSE IF roundUp THEN (v.value * total + 99) \div 100
  ELSE (v.value * total) \div 100

\* Mutant: percentages of maxUnavailable that round down to zero stay zero.
MutantRolloutSteps(strategy, replicas) ==
  [surge |-> ScaledValue(strategy.maxSurge, replicas, TRUE),
   unavailable |-> Min2(ScaledValue(strategy.maxUnavailable, replicas, FALSE),
                        Max2(0, replicas))]

\* How many pods a rollout may add and take away.  A positive percentage that
\* rounds down to zero must still allow progress when there is no surge.
RolloutSteps(strategy, replicas) ==
  LET surge == ScaledValue(strategy.maxSurge, replicas, TRUE)
      down  == ScaledValue(strategy.maxUnavailable, replicas, FALSE)
      least == IF /\ surge = 0 /\ down = 0
                  /\ ScaledValue(strategy.maxUnavailable, 100, FALSE) > 0
               THEN 1 ELSE down
  IN  [surge |-> surge, unavailable |-> Min2(least, Max2(0, replicas))]

\* What the webhook lets through: something must be allowed to move.
ValidRollingUpdate(strategy) ==
  /\ strategy.maxUnavailable.percent => strategy.maxUnavailable.value <= 100
  /\ \/ ScaledValue(strategy.maxSurge, 100, TRUE) # 0
     \/ ScaledValue(strategy.maxUnavailable, 100, FALSE) # 0

-----------------------------------------------------------------------------
(* The planners.                                                            *)

\* With a managed HPA the current Deployment first takes over the capacity of
\* the last one, which is drained pod by pod once that capacity is ready.
PlanScaleForHPA(minReplicas, current, last) ==
  LET target == Max2(minReplicas, last.replicas)
  IN  IF last.replicas > 0
      THEN IF current.replicas < target
           THEN ScaleAction("current", target - current.replicas)
           ELSE IF current.ready < target THEN NoScaleAction
           ELSE ScaleAction("last", -1)
      ELSE IF current.replicas = 0
           THEN ScaleAction("current", minReplicas)
           ELSE NoScaleAction

\* With replicas = -1 someone else scales; the last Deployment is dropped at
\* once when the current one is as large and ready.
PlanScaleForExternalHPA(rolling, current, last) ==
  IF current.replicas = 0 /\ last.replicas = 0
  THEN ScaleAction("current", 1)
  ELSE IF current.replicas < last.replicas
  THEN ScaleAction("current", last.replicas - current.replicas)
  ELSE IF rolling /\ last.replicas > 0 /\ current.ready >= last.replicas
  THEN ScaleAction("last", -last.replicas)
  ELSE NoScaleAction

PlanScaleForForceUpgrade(expected, current, last) ==
  IF current.replicas # expected
  THEN ScaleAction("current", expected - current.replicas)
  ELSE ScaleAction("last", -last.replicas)

PlanScaleForNormalState(expected, current) ==
  IF current.replicas > expected THEN ScaleAction("current", -1)
  ELSE ScaleAction("current", expected - current.replicas)

\* No surge: released slots are refilled first, then the last Deployment gives
\* up as many pods as stay above expected - unavailable.
PlanWithoutSurge(expected, unavailable, current, last) ==
  LET total     == current.replicas + last.replicas
      available == Min2(current.available, current.replicas)
                     + Min2(last.available, last.replicas)
      down      == Min2(last.replicas, available - Max2(0, expected - unavailable))
  IN  IF total < expected THEN ScaleAction("current", expected - total)
      ELSE IF down > 0 THEN ScaleAction("last", -down)
      ELSE NoScaleAction

\* Same limits: alternate between surging the current and shrinking the last.
PlanSameLimits(expected, steps, current, last) ==
  LET total == current.replicas + last.replicas
      down  == Min2(Max2(1, steps.unavailable), last.replicas)
      up    == Min2(steps.surge, Min2(expected - current.replicas,
                                      expected + steps.surge - total))
  IN  IF total = expected /\ last.replicas = 0 THEN NoScaleAction
      ELSE IF total > expected
      THEN IF last.replicas > 0 THEN ScaleAction("last", -down) ELSE NoScaleAction
      ELSE ScaleAction("current", up)

\* New limits: the current Deployment takes over all capacity first.
PlanNewLimits(expected, steps, current, last) ==
  LET down(n) == Min2(Max2(1, steps.unavailable), n)
  IN  IF last.replicas > 0
      THEN IF current.replicas < Max2(last.replicas, expected)
           THEN ScaleAction("current", Max2(last.replicas, expected) - current.replicas)
           ELSE ScaleAction("last", -down(last.replicas))
      ELSE IF current.replicas > expected
      THEN ScaleAction("current", -down(current.replicas - expected))
      ELSE ScaleAction("current", expected - current.replicas)

\* Mutant: the last Deployment is shrunk before the current one grows.
MutantShrinkFirst(expected, strategy, current, last) ==
  IF last.replicas > 0 /\ current.replicas + last.replicas >= expected
  THEN ScaleAction("last", -1)
  ELSE ScaleAction("current", expected - current.replicas - last.replicas)

PlanScaleForRollout(expected, strategy, current, last) ==
  LET steps == RolloutSteps(strategy, expected)
  IN  IF steps.surge = 0
      THEN PlanWithoutSurge(expected, steps.unavailable, current, last)
      ELSE IF current.limits = last.limits
      THEN PlanSameLimits(expected, steps, current, last)
      ELSE PlanNewLimits(expected, steps, current, last)
=============================================================================
