----------------------- MODULE TwoDeployRolloutProofs -----------------------
(***************************************************************************)
(* What the planner of the two-deployment mode guarantees for every        *)
(* strategy the webhook accepts and every number of replicas, and what the *)
(* deploy controller makes of it: the last Deployment is idle outside a    *)
(* rollout (IdleInv), templates change only where nothing runs, and a      *)
(* rollout that has finished has replaced everything (OldKnown).           *)
(***************************************************************************)
EXTENDS TwoDeployRollout, TLAPS

\* Zenon proves what follows; the steps that need arithmetic cite SMT.
USE Zenon

\* A strategy as the API has it.
StrategyType == [maxSurge: IntOrString, maxUnavailable: IntOrString]

-----------------------------------------------------------------------------
(* The planner: scaled values.                                              *)

\* A product of positive numbers is positive.
LEMMA PositiveProduct ==
  ASSUME NEW a \in Nat, NEW b \in Nat, a >= 1, b >= 1
  PROVE  a * b \in Nat /\ a * b >= 1
BY SMT

\* A product of natural numbers is one.
LEMMA NatProduct ==
  ASSUME NEW a \in Nat, NEW b \in Nat
  PROVE  a * b \in Nat
BY SMT

\* A number or a percentage of a natural number is a natural number.
LEMMA ScaledValueType ==
  ASSUME NEW v \in IntOrString, NEW total \in Nat, NEW roundUp \in BOOLEAN
  PROVE  ScaledValue(v, total, roundUp) \in Nat
<1> DEFINE n == v.value * total
<1>1. v.value \in Nat /\ v.percent \in BOOLEAN
  BY DEF IntOrString
<1>2. n \in Nat
  BY <1>1, NatProduct
<1> HIDE DEF n
<1>3. n \div 100 \in Nat /\ (n + 99) \div 100 \in Nat
  BY SMT, <1>2
<1>4. QED
  BY <1>1, <1>3 DEF ScaledValue, n

\* A surge that is not zero for a hundred replicas is not zero for one:
\* percentages of maxSurge round up.
LEMMA SurgeRoundsUp ==
  ASSUME NEW v \in IntOrString, NEW replicas \in Nat, replicas >= 1,
         ScaledValue(v, 100, TRUE) # 0
  PROVE  ScaledValue(v, replicas, TRUE) >= 1
<1> DEFINE n == v.value * replicas
<1>1. v.value \in Nat /\ v.percent \in BOOLEAN
  BY DEF IntOrString
<1>2. v.value >= 1
  <2>1. CASE v.percent
    <3>1. (v.value * 100 + 99) \div 100 # 0
      BY <2>1 DEF ScaledValue
    <3>2. QED
      BY SMT, <1>1, <3>1
  <2>2. CASE ~v.percent
    BY SMT, <1>1, <2>2 DEF ScaledValue
  <2>3. QED
    BY <2>1, <2>2
<1>3. n \in Nat /\ n >= 1
  BY <1>1, <1>2, PositiveProduct
<1> HIDE DEF n
<1>4. (n + 99) \div 100 >= 1
  BY SMT, <1>3
<1>5. QED
  BY <1>1, <1>2, <1>4 DEF ScaledValue, n

\* The steps of a rollout are natural numbers, and the pods given up are no
\* more than there are.
LEMMA RolloutStepsType ==
  ASSUME NEW strategy \in StrategyType, NEW replicas \in Nat
  PROVE  /\ RolloutSteps(strategy, replicas) \in [surge: Nat, unavailable: Nat]
         /\ RolloutSteps(strategy, replicas).unavailable <= replicas
<1> DEFINE s == ScaledValue(strategy.maxSurge, replicas, TRUE)
           d == ScaledValue(strategy.maxUnavailable, replicas, FALSE)
           p == ScaledValue(strategy.maxUnavailable, 100, FALSE)
<1>1. s \in Nat /\ d \in Nat /\ p \in Nat
  BY ZenonT(60), ScaledValueType DEF StrategyType
<1>2. RolloutSteps(strategy, replicas) =
        [surge |-> s,
         unavailable |-> Min2(IF s = 0 /\ d = 0 /\ p > 0 THEN 1 ELSE d, Max2(0, replicas))]
  BY DEF RolloutSteps
<1> HIDE DEF s, d, p
<1>3. QED
  BY SMT, <1>1, <1>2 DEF Min2, Max2

\* rolloutSteps never blocks a rollout: with a strategy that passes the
\* validation of the webhook, some pod may be added or taken away, for every
\* number of replicas.  The percentage that rounds down to zero is the case
\* the comment above rolloutSteps is about.
THEOREM RolloutCanProgress ==
  ASSUME NEW strategy \in StrategyType, ValidRollingUpdate(strategy),
         NEW replicas \in Nat, replicas >= 1
  PROVE  \/ RolloutSteps(strategy, replicas).surge >= 1
         \/ RolloutSteps(strategy, replicas).unavailable >= 1
<1> DEFINE s == ScaledValue(strategy.maxSurge, replicas, TRUE)
           d == ScaledValue(strategy.maxUnavailable, replicas, FALSE)
           p == ScaledValue(strategy.maxUnavailable, 100, FALSE)
<1>1. s \in Nat /\ d \in Nat /\ p \in Nat
  BY ZenonT(60), ScaledValueType DEF StrategyType
<1>2. s >= 1 \/ p # 0
  BY SurgeRoundsUp DEF ValidRollingUpdate, StrategyType
<1>3. RolloutSteps(strategy, replicas) =
        [surge |-> s,
         unavailable |-> Min2(IF s = 0 /\ d = 0 /\ p > 0 THEN 1 ELSE d, Max2(0, replicas))]
  BY DEF RolloutSteps
<1> HIDE DEF s, d, p
<1>4. QED
  BY SMT, <1>1, <1>2, <1>3 DEF Min2, Max2

-----------------------------------------------------------------------------
(* The plan of a rollout.                                                   *)

\* The smaller and the larger of two numbers.
LEMMA MinMax ==
  ASSUME NEW a \in Int, NEW b \in Int
  PROVE  /\ Min2(a, b) \in Int /\ Min2(a, b) <= a /\ Min2(a, b) <= b /\ (Min2(a, b) = a \/ Min2(a, b) = b)
         /\ Max2(a, b) \in Int /\ Max2(a, b) >= a /\ Max2(a, b) >= b /\ (Max2(a, b) = a \/ Max2(a, b) = b)
<1>1. /\ Min2(a, b) \in Int /\ Min2(a, b) <= a /\ Min2(a, b) <= b
      /\ Min2(a, b) = a \/ Min2(a, b) = b
  BY SMT DEF Min2
<1>2. /\ Max2(a, b) \in Int /\ Max2(a, b) >= a /\ Max2(a, b) >= b
      /\ Max2(a, b) = a \/ Max2(a, b) = b
  BY SMT DEF Max2
<1> QED
  BY <1>1, <1>2

\* The fields of an action.
LEMMA ActionFields ==
  ASSUME NEW a, NEW which, NEW n, a = ScaleAction(which, n)
  PROVE  a.deploy = which /\ a.replicaChange = n
<1>1. ScaleAction(which, n).deploy = which /\ ScaleAction(which, n).replicaChange = n
  BY DEF ScaleAction
<1> QED
  BY <1>1

\* A step without surge: the current Deployment makes up for what is missing, or
\* the last one gives up pods that are not needed to keep e - u of them available.
LEMMA WithoutSurgeSteps ==
  ASSUME NEW a, NEW c, NEW l, NEW e \in Nat, NEW u \in Nat,
         c.replicas \in Nat, c.available \in Nat, l.replicas \in Nat, l.available \in Nat,
         a = PlanWithoutSurge(e, u, c, l)
  PROVE  /\ a.replicaChange \in Int
         /\ \/ /\ a.deploy = "current" /\ a.replicaChange > 0
               /\ c.replicas + a.replicaChange + l.replicas = e
            \/ /\ a.deploy = "last" /\ a.replicaChange < 0 /\ l.replicas + a.replicaChange >= 0
               /\ l.replicas + a.replicaChange + Min2(c.available, c.replicas) >= e - u
            \/ a.deploy = "current" /\ a.replicaChange = 0
<1> DEFINE cr == c.replicas
           lr == l.replicas
           ca == Min2(c.available, c.replicas)
           la == Min2(l.available, l.replicas)
           kept == Max2(0, e - u)
           down == Min2(lr, (ca + la) - kept)
           up == e - (cr + lr)
<1>1. a = IF cr + lr < e THEN ScaleAction("current", up)
          ELSE IF down > 0 THEN ScaleAction("last", -down) ELSE NoScaleAction
  BY DEF PlanWithoutSurge
<1>2. cr \in Nat /\ lr \in Nat /\ ca \in Int /\ la \in Int /\ la <= lr
  <2>1. cr \in Int /\ lr \in Int /\ c.available \in Int /\ l.available \in Int
    BY SMT
  <2> QED
    BY <2>1, MinMax
<1>3. kept \in Int /\ kept >= e - u
  <2>1. e - u \in Int /\ 0 \in Int
    BY SMT
  <2> QED
    BY <2>1, MinMax
<1> HIDE DEF cr, lr, ca, la, kept
<1>4. down \in Int /\ down <= lr /\ down <= (ca + la) - kept
  <2>1. (ca + la) - kept \in Int /\ lr \in Int
    BY SMT, <1>2, <1>3
  <2> QED
    BY <2>1, MinMax
<1> HIDE DEF down
<1>5. CASE cr + lr < e
  <2>a. a = ScaleAction("current", up)
    BY <1>1, <1>5
  <2>1. a.deploy = "current" /\ a.replicaChange = up
    BY <2>a, ActionFields
  <2>2. up \in Int /\ up > 0 /\ cr + up + lr = e
    BY SMT, <1>2, <1>5
  <2> QED
    BY <2>1, <2>2 DEF cr, lr
<1>6. CASE ~(cr + lr < e) /\ down > 0
  <2>a. a = ScaleAction("last", -down)
    BY <1>1, <1>6
  <2>1. a.deploy = "last" /\ a.replicaChange = -down
    BY <2>a, ActionFields
  <2>2. -down \in Int /\ -down < 0 /\ lr + (-down) >= 0 /\ lr + (-down) + ca >= e - u
    BY SMT, <1>2, <1>3, <1>4, <1>6
  <2> QED
    BY <2>1, <2>2 DEF lr, ca
<1>7. CASE ~(cr + lr < e) /\ ~(down > 0)
  <2>a. a = ScaleAction("current", 0)
    BY <1>1, <1>7 DEF NoScaleAction
  <2>1. a.deploy = "current" /\ a.replicaChange = 0
    BY <2>a, ActionFields
  <2>2. 0 \in Int
    BY SMT
  <2> QED
    BY <2>1, <2>2
<1> QED
  BY <1>5, <1>6, <1>7

\* A step between Deployments with the same limits: the current one grows, to no
\* more than is asked for, within the surge; or the last one gives up pods,
\* u of them or one, when there are more than are asked for.
LEMMA SameLimitsSteps ==
  ASSUME NEW a, NEW c, NEW l, NEW e \in Nat, NEW steps, steps.surge \in Nat, steps.unavailable \in Nat,
         c.replicas \in Nat, l.replicas \in Nat,
         a = PlanSameLimits(e, steps, c, l)
  PROVE  /\ a.replicaChange \in Int
         /\ \/ /\ a.deploy = "current" /\ a.replicaChange >= 0
               /\ a.replicaChange = 0 \/ c.replicas + a.replicaChange <= e
               /\ a.replicaChange = 0 \/ c.replicas + a.replicaChange + l.replicas <= e + steps.surge
            \/ /\ a.deploy = "last" /\ a.replicaChange < 0 /\ l.replicas + a.replicaChange >= 0
               /\ -a.replicaChange <= Max2(1, steps.unavailable)
               /\ l.replicas + a.replicaChange + c.replicas >= e - steps.unavailable
<1> DEFINE cr == c.replicas
           lr == l.replicas
           s == steps.surge
           u == steps.unavailable
           most == Max2(1, u)
           down == Min2(most, lr)
           room == Min2(e - cr, e + s - (cr + lr))
           up == Min2(s, room)
<1>1. a = IF cr + lr = e /\ lr = 0 THEN NoScaleAction
          ELSE IF cr + lr > e THEN IF lr > 0 THEN ScaleAction("last", -down) ELSE NoScaleAction
          ELSE ScaleAction("current", up)
  BY DEF PlanSameLimits
<1>2. cr \in Nat /\ lr \in Nat /\ s \in Nat /\ u \in Nat
  OBVIOUS
<1> HIDE DEF cr, lr, s, u
<1>3. most \in Int /\ most >= 1 /\ (most = 1 \/ most = u)
  <2>1. 1 \in Int /\ u \in Int
    BY SMT, <1>2
  <2> QED
    BY <2>1, MinMax
<1> HIDE DEF most
<1>4. down \in Int /\ down <= lr /\ down <= most /\ (down = most \/ down = lr)
  <2>1. lr \in Int
    BY SMT, <1>2
  <2> QED
    BY <1>3, <2>1, MinMax
<1>5. /\ room \in Int /\ room <= e - cr /\ room <= e + s - (cr + lr)
      /\ room = e - cr \/ room = e + s - (cr + lr)
  <2>1. e - cr \in Int /\ e + s - (cr + lr) \in Int
    BY SMT, <1>2
  <2> QED
    BY <2>1, MinMax
<1> HIDE DEF room
<1>6. up \in Int /\ up <= room /\ (up = s \/ up = room)
  <2>1. s \in Int
    BY SMT, <1>2
  <2> QED
    BY <1>5, <2>1, MinMax
<1> HIDE DEF down, up
<1>7. CASE cr + lr > e /\ lr > 0
  <2>1. ~(cr + lr = e /\ lr = 0)
    BY SMT, <1>2, <1>7
  <2>a. a = ScaleAction("last", -down)
    BY <1>1, <1>7, <2>1
  <2>2. a.deploy = "last" /\ a.replicaChange = -down
    BY <2>a, ActionFields
  <2>3. -down \in Int /\ -down < 0 /\ lr + (-down) >= 0 /\ -(-down) <= most /\ lr + (-down) + cr >= e - u
    BY SMT, <1>2, <1>3, <1>4, <1>7
  <2> QED
    BY <2>2, <2>3 DEF lr, cr, most, u
<1>8. CASE ~(cr + lr > e) /\ ~(cr + lr = e /\ lr = 0)
  <2>a. a = ScaleAction("current", up)
    BY <1>1, <1>8
  <2>1. a.deploy = "current" /\ a.replicaChange = up
    BY <2>a, ActionFields
  <2>2. up >= 0 /\ cr + up <= e /\ cr + up + lr <= e + s
    BY SMT, <1>2, <1>5, <1>6, <1>8
  <2> QED
    BY <1>6, <2>1, <2>2 DEF lr, cr, s
<1>9. CASE (cr + lr = e /\ lr = 0) \/ (cr + lr > e /\ ~(lr > 0))
  <2>a. a = ScaleAction("current", 0)
    BY <1>1, <1>9 DEF NoScaleAction
  <2>1. a.deploy = "current" /\ a.replicaChange = 0
    BY <2>a, ActionFields
  <2>2. 0 \in Int /\ 0 >= 0
    BY SMT
  <2> QED
    BY <2>1, <2>2
<1> QED
  BY <1>7, <1>8, <1>9

\* A step between Deployments with other limits: the current one grows to the
\* larger of the two numbers, then the last one gives up pods; without pods of
\* the last one, the current one moves towards what is asked for.
LEMMA NewLimitsSteps ==
  ASSUME NEW a, NEW c, NEW l, NEW e \in Nat, NEW steps, steps.surge \in Nat, steps.unavailable \in Nat,
         c.replicas \in Nat, l.replicas \in Nat,
         a = PlanNewLimits(e, steps, c, l)
  PROVE  /\ a.replicaChange \in Int
         /\ \/ /\ a.deploy = "current" /\ c.replicas + a.replicaChange >= 0
               /\ l.replicas > 0 => a.replicaChange > 0 /\ c.replicas + a.replicaChange <= Max2(e, l.replicas)
            \/ /\ a.deploy = "last" /\ a.replicaChange < 0 /\ l.replicas + a.replicaChange >= 0
               /\ -a.replicaChange <= Max2(1, steps.unavailable)
               /\ l.replicas + a.replicaChange + c.replicas >= e
<1> DEFINE cr == c.replicas
           lr == l.replicas
           u == steps.unavailable
           most == Max2(1, u)
           target == Max2(lr, e)
           down(n) == Min2(most, n)
<1>1. a = IF lr > 0
          THEN IF cr < target THEN ScaleAction("current", target - cr) ELSE ScaleAction("last", -down(lr))
          ELSE IF cr > e THEN ScaleAction("current", -down(cr - e)) ELSE ScaleAction("current", e - cr)
  BY DEF PlanNewLimits
<1>2. cr \in Nat /\ lr \in Nat /\ u \in Nat
  OBVIOUS
<1>3. most \in Int /\ most >= 1
  <2>1. 1 \in Int /\ u \in Int
    BY SMT, <1>2
  <2> QED
    BY <2>1, MinMax
<1>4. target = Max2(e, lr) /\ target \in Int /\ target >= lr /\ target >= e
  BY SMT, <1>2 DEF Max2
<1> HIDE DEF cr, lr, u, most
<1>5. ASSUME NEW n \in Int
      PROVE  down(n) \in Int /\ down(n) <= n /\ down(n) <= most /\ (down(n) = most \/ down(n) = n)
  BY <1>3, MinMax
<1> HIDE DEF down, target
<1>6. CASE lr > 0 /\ cr < target
  <2>a. a = ScaleAction("current", target - cr)
    BY <1>1, <1>6
  <2>1. a.deploy = "current" /\ a.replicaChange = target - cr
    BY <2>a, ActionFields
  <2>2. target - cr \in Int /\ target - cr > 0 /\ cr + (target - cr) >= 0 /\ cr + (target - cr) <= target
    BY SMT, <1>2, <1>4, <1>6
  <2> QED
    BY <1>4, <2>1, <2>2 DEF lr, cr
<1>7. CASE lr > 0 /\ ~(cr < target)
  <2> DEFINE d == down(lr)
  <2>a. a = ScaleAction("last", -d)
    BY <1>1, <1>7
  <2>1. a.deploy = "last" /\ a.replicaChange = -d
    BY <2>a, ActionFields
  <2>2. lr \in Int
    BY SMT, <1>2
  <2>3. d \in Int /\ d <= lr /\ d <= most /\ (d = most \/ d = lr)
    BY <1>5, <2>2
  <2> HIDE DEF d
  <2>4. -d \in Int /\ -d < 0 /\ lr + (-d) >= 0 /\ -(-d) <= most /\ lr + (-d) + cr >= e
    BY SMT, <1>2, <1>3, <1>4, <1>7, <2>3
  <2> QED
    BY <2>1, <2>4 DEF lr, cr, most, u
<1>8. CASE ~(lr > 0) /\ cr > e
  <2> DEFINE d == down(cr - e)
  <2>a. a = ScaleAction("current", -d)
    BY <1>1, <1>8
  <2>1. a.deploy = "current" /\ a.replicaChange = -d
    BY <2>a, ActionFields
  <2>2. cr - e \in Int
    BY SMT, <1>2
  <2>3. d \in Int /\ d <= cr - e
    BY <1>5, <2>2
  <2> HIDE DEF d
  <2>4. -d \in Int /\ cr + (-d) >= 0
    BY SMT, <1>2, <2>3
  <2> QED
    BY <1>8, <2>1, <2>4 DEF lr, cr
<1>9. CASE ~(lr > 0) /\ ~(cr > e)
  <2>a. a = ScaleAction("current", e - cr)
    BY <1>1, <1>9
  <2>1. a.deploy = "current" /\ a.replicaChange = e - cr
    BY <2>a, ActionFields
  <2>2. e - cr \in Int /\ cr + (e - cr) >= 0
    BY SMT, <1>2
  <2> QED
    BY <1>9, <2>1, <2>2 DEF lr, cr
<1> QED
  BY <1>6, <1>7, <1>8, <1>9

\* A step of the plan of a rollout: the current Deployment changes, growing while
\* the last one has pods, within what is asked for or the last one has, and
\* within the surge unless the limits are new; or the last one gives up pods, and
\* enough of them are left.
RolloutMove(a, e, steps, c, l) ==
  /\ a.replicaChange \in Int
  /\ \/ /\ a.deploy = "current" /\ c.replicas + a.replicaChange >= 0
        /\ \/ a.replicaChange = 0 \/ l.replicas = 0
           \/ a.replicaChange > 0 /\ c.replicas + a.replicaChange <= Max2(e, l.replicas)
        /\ steps.surge = 0 \/ c.limits = l.limits =>
             a.replicaChange = 0 \/ c.replicas + a.replicaChange + l.replicas <= e + steps.surge
     \/ /\ a.deploy = "last" /\ a.replicaChange < 0 /\ l.replicas + a.replicaChange >= 0
        /\ steps.surge # 0 => -a.replicaChange <= Max2(1, steps.unavailable)
        /\ l.replicas + a.replicaChange
             + (IF steps.surge = 0 THEN Min2(c.available, c.replicas) ELSE c.replicas) >= e - steps.unavailable

\* planScaleForRollout makes only such steps.
LEMMA RolloutPlanSteps ==
  ASSUME NEW strategy \in StrategyType, NEW c, NEW l, NEW e \in Nat,
         c.replicas \in Nat, c.available \in Nat, l.replicas \in Nat, l.available \in Nat
  PROVE  RolloutMove(PlanScaleForRollout(e, strategy, c, l), e, RolloutSteps(strategy, e), c, l)
<1> DEFINE steps == RolloutSteps(strategy, e)
           a == PlanScaleForRollout(e, strategy, c, l)
           s == steps.surge
           u == steps.unavailable
           cr == c.replicas
           lr == l.replicas
           d == a.deploy
           x == a.replicaChange
           most == Max2(e, lr)
           Grows == /\ d = "current" /\ cr + x >= 0
                    /\ x = 0 \/ lr = 0 \/ (x > 0 /\ cr + x <= most)
                    /\ s = 0 \/ c.limits = l.limits => x = 0 \/ cr + x + lr <= e + s
           Gives == /\ d = "last" /\ x < 0 /\ lr + x >= 0
                    /\ s # 0 => -x <= Max2(1, u)
                    /\ lr + x + (IF s = 0 THEN Min2(c.available, cr) ELSE cr) >= e - u
<1>1. s \in Nat /\ u \in Nat /\ cr \in Nat /\ lr \in Nat
  BY RolloutStepsType
<1>2. most >= e /\ most \in Int
  <2>1. e \in Int /\ lr \in Int
    BY SMT, <1>1
  <2> QED
    BY <2>1, MinMax
<1> SUFFICES x \in Int /\ (Grows \/ Gives)
  BY DEF RolloutMove
<1> HIDE DEF steps
<1>3. CASE s = 0
  <2>1. a = PlanWithoutSurge(e, u, c, l)
    BY <1>3 DEF PlanScaleForRollout, steps
  <2> HIDE DEF a, s, u
  <2>2. x \in Int /\ \/ d = "current" /\ x > 0 /\ cr + x + lr = e
                     \/ d = "last" /\ x < 0 /\ lr + x >= 0 /\ lr + x + Min2(c.available, cr) >= e - u
                     \/ d = "current" /\ x = 0
    BY <1>1, <2>1, WithoutSurgeSteps
  <2> HIDE DEF x, d, cr, lr, most
  <2>3. CASE d = "current" /\ x > 0 /\ cr + x + lr = e
    <3>1. cr + x >= 0 /\ cr + x <= most /\ cr + x + lr <= e + s
      BY SMT, <1>1, <1>2, <1>3, <2>2, <2>3
    <3> QED
      BY <2>2, <2>3, <3>1
  <2>4. CASE d = "last" /\ x < 0 /\ lr + x >= 0 /\ lr + x + Min2(c.available, cr) >= e - u
    BY <1>3, <2>2, <2>4
  <2>5. CASE d = "current" /\ x = 0
    <3>1. cr + x >= 0
      BY SMT, <1>1, <2>5
    <3> QED
      BY <2>2, <2>5, <3>1
  <2> QED
    BY <2>2, <2>3, <2>4, <2>5
<1>4. CASE s # 0 /\ c.limits = l.limits
  <2>1. a = PlanSameLimits(e, steps, c, l)
    BY <1>4 DEF PlanScaleForRollout, steps
  <2> HIDE DEF a
  <2>2. x \in Int /\ \/ /\ d = "current" /\ x >= 0 /\ (x = 0 \/ cr + x <= e)
                        /\ x = 0 \/ cr + x + lr <= e + s
                     \/ d = "last" /\ x < 0 /\ lr + x >= 0 /\ -x <= Max2(1, u) /\ lr + x + cr >= e - u
    BY <1>1, <2>1, SameLimitsSteps
  <2> HIDE DEF s, u, x, d, cr, lr, most
  <2>3. CASE d = "current" /\ x >= 0 /\ (x = 0 \/ cr + x <= e) /\ (x = 0 \/ cr + x + lr <= e + s)
    <3>1. cr + x >= 0 /\ (x = 0 \/ (x > 0 /\ cr + x <= most))
      BY SMT, <1>1, <1>2, <2>2, <2>3
    <3> QED
      BY <2>2, <2>3, <3>1
  <2>4. CASE d = "last" /\ x < 0 /\ lr + x >= 0 /\ -x <= Max2(1, u) /\ lr + x + cr >= e - u
    BY <1>4, <2>2, <2>4
  <2> QED
    BY <2>2, <2>3, <2>4
<1>5. CASE s # 0 /\ c.limits # l.limits
  <2>1. a = PlanNewLimits(e, steps, c, l)
    BY <1>5 DEF PlanScaleForRollout, steps
  <2> HIDE DEF a
  <2>2. x \in Int /\ \/ d = "current" /\ cr + x >= 0 /\ (lr > 0 => x > 0 /\ cr + x <= most)
                     \/ d = "last" /\ x < 0 /\ lr + x >= 0 /\ -x <= Max2(1, u) /\ lr + x + cr >= e
    BY <1>1, <2>1, NewLimitsSteps
  <2> HIDE DEF s, u, x, d, cr, lr, most
  <2>3. CASE d = "current" /\ cr + x >= 0 /\ (lr > 0 => x > 0 /\ cr + x <= most)
    <3>1. lr = 0 \/ lr > 0
      BY SMT, <1>1
    <3> QED
      BY <1>5, <2>2, <2>3, <3>1
  <2>4. CASE d = "last" /\ x < 0 /\ lr + x >= 0 /\ -x <= Max2(1, u) /\ lr + x + cr >= e
    <3>1. lr + x + cr >= e - u
      BY SMT, <1>1, <2>2, <2>4
    <3> QED
      BY <1>5, <2>2, <2>4, <3>1
  <2> QED
    BY <2>2, <2>3, <2>4
<1> QED
  BY <1>3, <1>4, <1>5

\* The replicas of the two Deployments after a step of the plan.
After(action, which, d) ==
  d.replicas + (IF action.deploy = which THEN action.replicaChange ELSE 0)

\* planScaleForRollout never asks for a negative number of replicas, for any
\* strategy, any replicas and any status: both Deployments keep at least zero.
THEOREM PlanKeepsReplicas ==
  ASSUME NEW strategy \in StrategyType, NEW expected \in Nat,
         NEW current, NEW last,
         current.replicas \in Nat, current.available \in Nat,
         last.replicas \in Nat, last.available \in Nat
  PROVE  LET a == PlanScaleForRollout(expected, strategy, current, last)
         IN  After(a, "current", current) >= 0 /\ After(a, "last", last) >= 0
<1> DEFINE a == PlanScaleForRollout(expected, strategy, current, last)
           c == current.replicas
           l == last.replicas
           x == a.replicaChange
<1>1. x \in Int /\ \/ a.deploy = "current" /\ c + x >= 0
                   \/ a.deploy = "last" /\ l + x >= 0
  <2>1. RolloutMove(a, expected, RolloutSteps(strategy, expected), current, last)
    BY RolloutPlanSteps
  <2> HIDE DEF a
  <2> QED
    BY <2>1 DEF RolloutMove
<1>2. c + 0 >= 0 /\ l + 0 >= 0
  BY SMT
<1> HIDE DEF a
<1>3. After(a, "current", current) >= 0 /\ After(a, "last", last) >= 0
  BY <1>1, <1>2 DEF After
<1> QED
  BY <1>3 DEF a

\* planScaleForRollout respects maxSurge: as long as the limits are the same,
\* or no surge is allowed, a step leaves at most expected + surge replicas in
\* the two Deployments together, or no more than there were.
THEOREM PlanRespectsSurge ==
  ASSUME NEW strategy \in StrategyType, NEW expected \in Nat,
         NEW current, NEW last,
         current.replicas \in Nat, current.available \in Nat,
         last.replicas \in Nat, last.available \in Nat,
         \/ current.limits = last.limits
         \/ RolloutSteps(strategy, expected).surge = 0
  PROVE  LET a == PlanScaleForRollout(expected, strategy, current, last)
         IN  After(a, "current", current) + After(a, "last", last)
               <= Max2(current.replicas + last.replicas,
                       expected + RolloutSteps(strategy, expected).surge)
<1> DEFINE a == PlanScaleForRollout(expected, strategy, current, last)
           c == current.replicas
           l == last.replicas
           x == a.replicaChange
           most == expected + RolloutSteps(strategy, expected).surge
           sum == After(a, "current", current) + After(a, "last", last)
<1>1. x \in Int /\ \/ a.deploy = "current" /\ (x = 0 \/ c + x + l <= most)
                   \/ a.deploy = "last" /\ x < 0
  <2>1. RolloutMove(a, expected, RolloutSteps(strategy, expected), current, last)
    BY RolloutPlanSteps
  <2> HIDE DEF a
  <2> QED
    BY <2>1 DEF RolloutMove
<1>2. c \in Int /\ l \in Int /\ c + l \in Int /\ most \in Int
  <2>1. RolloutSteps(strategy, expected).surge \in Nat
    BY RolloutStepsType
  <2> QED
    BY SMT, <2>1
<1>3. sum = (c + x) + (l + 0) \/ sum = (c + 0) + (l + x)
  <2> HIDE DEF a
  <2> QED
    BY <1>1 DEF After
<1>4. Max2(c + l, most) \in Int /\ Max2(c + l, most) >= c + l /\ Max2(c + l, most) >= most
  BY <1>2, MinMax
<1> HIDE DEF x, c, l, sum, most
<1>5. x = 0 \/ c + x + l <= most \/ x < 0
  BY <1>1
<1>6. sum <= Max2(c + l, most)
  BY SMT, <1>1, <1>2, <1>3, <1>4, <1>5
<1> QED
  BY <1>6 DEF sum, most, c, l

-----------------------------------------------------------------------------
(* Types.                                                                   *)

\* What is known of a configuration.
LEMMA ConfigFacts ==
  ASSUME config \in Configs
  PROVE  /\ config.mode \in {"static", "hpa", "external", "force"}
         /\ config.strategy \in StrategyType
         /\ config.mode # "external" => config.replicas \subseteq Nat
         /\ config.mode = "external" => config.replicas \subseteq {-1, 0}
         /\ config.replicas \subseteq Int
         /\ config.maxEdits \in Nat /\ config.maxScales \in Nat
         /\ config.maxFailures \in Nat /\ config.maxFaults \in Nat
<1>1. IsConfig(config)
  BY RolloutAssumption
<1>2. config.replicas \subseteq IF config.mode = "external" THEN {-1, 0} ELSE Nat
  BY <1>1 DEF IsConfig
<1>3. config.replicas \subseteq Int
  BY SMT, <1>2
<1> QED
  BY <1>1, <1>2, <1>3 DEF IsConfig, StrategyType

\* What the reconcile reads has the type of what is there.
LEMMA ViewTypes ==
  ASSUME TypeOK
  PROVE  MView \in MilvusType /\ DView \in [Slots -> DeployType] /\ PView \in [Slots -> PodsType]
BY DEF TypeOK, MView, DView, PView

\* A counter below its bound may be increased.
LEMMA Counted ==
  ASSUME NEW n, NEW max \in Nat, n \in 0..max, n < max
  PROVE  n + 1 \in 0..max
BY SMT

\* The two slots.
LEMMA LastSlot ==
  ASSUME NEW i \in Slots
  PROVE  Last(i) \in Slots /\ Last(i) # i /\ Last(Last(i)) = i /\ (\A j \in Slots : j # i => j = Last(i))
BY SMT DEF Last, Slots

\* A write keeps the type of a Deployment.
LEMMA WrittenType ==
  ASSUME NEW d \in DeployType, NEW t \in Templates \cup {Dummy}, NEW n \in Nat
  PROVE  /\ Written(d, t, n) \in DeployType
         /\ Written(d, t, n).template = t /\ Written(d, t, n).replicas = n
         /\ Written(d, t, n).exists = d.exists
<1> DEFINE o == d.observed /\ t = d.template /\ n = d.replicas
<1>1. o \in BOOLEAN
  OBVIOUS
<1> HIDE DEF o
<1>2. Written(d, t, n) = [d EXCEPT !.template = t, !.replicas = n, !.observed = o]
  BY DEF Written, o
<1> QED
  BY <1>1, <1>2 DEF DeployType

\* Pods that get old are still counted.
LEMMA OutdatedType ==
  ASSUME NEW p \in PodsType
  PROVE  Outdated(p) \in PodsType
<1> DEFINE a == p.old + p.ready
           b == p.dying + p.starting
<1>1. a \in Nat /\ b \in Nat
  BY SMT DEF PodsType
<1>2. Outdated(p) = [p EXCEPT !.old = a, !.dying = b, !.starting = 0, !.ready = 0]
  BY DEF Outdated
<1> HIDE DEF a, b
<1>3. p \in [old: Nat, starting: Nat, ready: Nat, dying: Nat] /\ 0 \in Nat
  BY DEF PodsType
<1> QED
  BY <1>1, <1>2, <1>3 DEF PodsType

\* UpdateDeploy keeps the types and leaves the other slot alone.
LEMMA UpdateType ==
  ASSUME TypeOK, NEW i \in Slots, NEW t \in Templates \cup {Dummy}, NEW n \in Nat, UpdateDeploy(i, t, n)
  PROVE  /\ deploy' \in [Slots -> DeployType] /\ pods' \in [Slots -> PodsType]
         /\ deploy'[i] = Written(deploy[i], t, n)
         /\ deploy'[i].template = t /\ deploy'[i].replicas = n /\ deploy'[i].exists = deploy[i].exists
         /\ \A j \in Slots \ {i} : deploy'[j] = deploy[j] /\ pods'[j] = pods[j]
         /\ t = deploy[i].template => pods' = pods
<1>1. deploy \in [Slots -> DeployType] /\ pods \in [Slots -> PodsType]
  BY DEF TypeOK
<1>2. Written(deploy[i], t, n) \in DeployType /\ Outdated(pods[i]) \in PodsType
  BY <1>1, WrittenType, OutdatedType
<1>3. deploy' = [deploy EXCEPT ![i] = Written(deploy[i], t, n)]
  BY DEF UpdateDeploy
<1>4. pods' = pods \/ pods' = [pods EXCEPT ![i] = Outdated(pods[i])]
  BY DEF UpdateDeploy
<1>5. deploy'[i] = Written(deploy[i], t, n)
  BY <1>1, <1>3
<1>6. t = deploy[i].template => pods' = pods
  BY DEF UpdateDeploy
<1> QED
  BY SMT, <1>1, <1>2, <1>3, <1>4, <1>5, <1>6, WrittenType

\* A Deployment that is only scaled keeps its template and its pods.
LEMMA ScaleKeeps ==
  ASSUME TypeOK, NEW i \in Slots, NEW n \in Nat, UpdateDeploy(i, deploy[i].template, n)
  PROVE  /\ deploy'[i].template = deploy[i].template /\ deploy'[i].replicas = n /\ deploy'[i].exists = deploy[i].exists
         /\ \A j \in Slots \ {i} : deploy'[j] = deploy[j]
         /\ pods' = pods
<1> DEFINE t == deploy[i].template
<1>1. t \in Templates \cup {Dummy} /\ UpdateDeploy(i, t, n)
  BY DEF TypeOK, DeployType
<1> HIDE DEF t
<1>2. /\ deploy'[i].template = t /\ deploy'[i].replicas = n /\ deploy'[i].exists = deploy[i].exists
      /\ \A j \in Slots \ {i} : deploy'[j] = deploy[j]
      /\ t = deploy[i].template => pods' = pods
  BY SMT, <1>1, UpdateType
<1> QED
  BY <1>2 DEF t

\* So does one that is stopped.
LEMMA StopWrites ==
  ASSUME TypeOK, NEW i \in Slots, UpdateDeploy(i, deploy[i].template, 0)
  PROVE  /\ deploy'[i].template = deploy[i].template /\ deploy'[i].replicas = 0 /\ deploy'[i].exists = deploy[i].exists
         /\ \A j \in Slots \ {i} : deploy'[j] = deploy[j]
         /\ pods' = pods
<1>1. 0 \in Nat
  BY SMT
<1> QED
  BY <1>1, ScaleKeeps

\* A write of the Milvus object keeps its type.
LEMMA MilvusWritten ==
  ASSUME NEW m \in MilvusType
  PROVE  /\ [m EXCEPT !.rolling = FALSE] \in MilvusType /\ [m EXCEPT !.current = 0] \in MilvusType
         /\ \A s \in Slots : [m EXCEPT !.current = s, !.rolling = TRUE] \in MilvusType
BY DEF MilvusType, Slots

-----------------------------------------------------------------------------
(* The plans.                                                               *)

\* A step that leaves both Deployments with at least zero replicas, and does
\* not touch a last Deployment that has none.
Fits(a, c, l) ==
  /\ a.deploy \in {"current", "last"} /\ a.replicaChange \in Int
  /\ After(a, "current", c) >= 0 /\ After(a, "last", l) >= 0
  /\ l.replicas = 0 => a.deploy = "current" \/ a.replicaChange = 0

\* Such a step changes the replicas of one of them to a natural number.
LEMMA FitsNat ==
  ASSUME NEW a, NEW c, NEW l, c.replicas \in Nat, l.replicas \in Nat, Fits(a, c, l), a.replicaChange # 0
  PROVE  /\ a.deploy = "current" => /\ c.replicas + a.replicaChange \in Nat
                                    /\ c.replicas + a.replicaChange # c.replicas
         /\ a.deploy = "last" => /\ l.replicas + a.replicaChange \in Nat
                                 /\ l.replicas + a.replicaChange # l.replicas /\ l.replicas # 0
<1> DEFINE x == a.replicaChange
<1>1. /\ a.deploy = "current" => c.replicas + x >= 0
      /\ a.deploy = "last" => l.replicas + x >= 0
      /\ a.deploy = "last" => l.replicas # 0
      /\ x \in Int /\ x # 0
  BY DEF Fits, After
<1> HIDE DEF x
<1>2. \A k \in Nat : k + x >= 0 => k + x \in Nat /\ k + x # k
  BY SMT, <1>1
<1> QED
  BY <1>1, <1>2 DEF x

\* Every planner makes such steps.
LEMMA PlansFit ==
  ASSUME NEW c, NEW l, NEW expected \in Nat, NEW rolling,
         c.replicas \in Nat, c.available \in Nat, c.ready \in Nat,
         l.replicas \in Nat, l.available \in Nat, l.ready \in Nat
  PROVE  /\ Fits(PlanScaleForHPA(expected, c, l), c, l)
         /\ Fits(PlanScaleForExternalHPA(rolling, c, l), c, l)
         /\ Fits(PlanScaleForForceUpgrade(expected, c, l), c, l)
         /\ Fits(PlanScaleForNormalState(expected, c), c, l)
<1>1. Fits(PlanScaleForHPA(expected, c, l), c, l)
  BY SMT DEF Fits, PlanScaleForHPA, ScaleAction, NoScaleAction, After, Max2
<1>2. Fits(PlanScaleForExternalHPA(rolling, c, l), c, l)
  BY SMT DEF Fits, PlanScaleForExternalHPA, ScaleAction, NoScaleAction, After
<1>3. Fits(PlanScaleForForceUpgrade(expected, c, l), c, l)
  BY SMT DEF Fits, PlanScaleForForceUpgrade, ScaleAction, After
<1>4. Fits(PlanScaleForNormalState(expected, c), c, l)
  BY SMT DEF Fits, PlanScaleForNormalState, ScaleAction, After
<1> QED
  BY <1>1, <1>2, <1>3, <1>4

\* The plan of a rollout too.
LEMMA RolloutPlanFits ==
  ASSUME NEW strategy \in StrategyType, NEW c, NEW l, NEW expected \in Nat,
         c.replicas \in Nat, c.available \in Nat, l.replicas \in Nat, l.available \in Nat
  PROVE  Fits(PlanScaleForRollout(expected, strategy, c, l), c, l)
<1> DEFINE a == PlanScaleForRollout(expected, strategy, c, l)
           x == a.replicaChange
<1>1. x \in Int /\ \/ a.deploy = "current"
                   \/ a.deploy = "last" /\ x < 0 /\ l.replicas + x >= 0
  <2>1. RolloutMove(a, expected, RolloutSteps(strategy, expected), c, l)
    BY RolloutPlanSteps
  <2> HIDE DEF a
  <2> QED
    BY <2>1 DEF RolloutMove
<1>2. After(a, "current", c) >= 0 /\ After(a, "last", l) >= 0
  BY PlanKeepsReplicas
<1> HIDE DEF a
<1>3. a.deploy = "last" => l.replicas # 0
  BY SMT, <1>1
<1>4. Fits(a, c, l)
  BY <1>1, <1>2, <1>3 DEF Fits
<1> QED
  BY <1>4 DEF a

\* What the planners see of a Deployment.
LEMMA PlannedFacts ==
  ASSUME TypeOK, NEW i \in Slots
  PROVE  /\ Planned(i).replicas = DView[i].replicas /\ Planned(i).replicas \in Nat
         /\ Planned(i).available = DView[i].available /\ Planned(i).available \in Nat
         /\ Planned(i).ready \in Nat
<1>1. DView[i] \in DeployType
  BY ViewTypes
<1>2. DView[i].replicas \in Nat /\ DView[i].available \in Nat
  BY <1>1 DEF DeployType
<1> QED
  BY <1>2 DEF Planned

\* The number of replicas that is asked for, where a planner uses it.
LEMMA ExpectedNat ==
  ASSUME TypeOK, config.mode # "external" \/ ~(MView.replicas < 0)
  PROVE  MView.replicas \in Nat
<1>1. MView.replicas \in config.replicas
  BY ViewTypes DEF MilvusType
<1>2. config \in Configs
  BY DEF TypeOK
<1> QED
  BY SMT, <1>1, <1>2, ConfigFacts

LEMMA NextPlanFits ==
  ASSUME TypeOK, NEW c \in Slots, NEW l \in Slots
  PROVE  Fits(PlanNextScaleAction(c, l), Planned(c), Planned(l))
<1> DEFINE a == PlanNextScaleAction(c, l)
           kind == CheckScaleKind(l)
<1>1. config \in Configs /\ HpaMin \in Nat
  BY RolloutAssumption DEF TypeOK
<1>2. config.mode \in {"static", "hpa", "external", "force"} /\ config.strategy \in StrategyType
  BY <1>1, ConfigFacts
<1>3. CASE config.mode = "hpa"
  <2>1. a = PlanScaleForHPA(HpaMin, Planned(c), Planned(l))
    <3>1. MView.replicas \in Nat
      BY <1>3, ExpectedNat
    <3>2. kind = "hpa"
      BY SMT, <1>3, <3>1 DEF CheckScaleKind
    <3> QED
      BY <3>2 DEF PlanNextScaleAction
  <2>2. /\ Planned(c).replicas \in Nat /\ Planned(c).available \in Nat /\ Planned(c).ready \in Nat
        /\ Planned(l).replicas \in Nat /\ Planned(l).available \in Nat /\ Planned(l).ready \in Nat
    BY PlannedFacts
  <2> QED
    BY <1>1, <2>1, <2>2, PlansFit
<1>4. CASE config.mode = "force"
  <2>1. a = PlanScaleForForceUpgrade(MView.replicas, Planned(c), Planned(l))
    <3>1. MView.replicas \in Nat
      BY <1>4, ExpectedNat
    <3>2. kind = "force"
      BY SMT, <1>4, <3>1 DEF CheckScaleKind
    <3> QED
      BY <3>2 DEF PlanNextScaleAction
  <2>2. MView.replicas \in Nat
    BY <1>4, ExpectedNat
  <2>3. /\ Planned(c).replicas \in Nat /\ Planned(c).available \in Nat /\ Planned(c).ready \in Nat
        /\ Planned(l).replicas \in Nat /\ Planned(l).available \in Nat /\ Planned(l).ready \in Nat
    BY PlannedFacts
  <2> QED
    BY <2>1, <2>2, <2>3, PlansFit
<1>5. CASE config.mode \in {"static", "external"} /\ MView.replicas < 0
  <2>1. a = PlanScaleForExternalHPA(MView.rolling, Planned(c), Planned(l))
    BY <1>5 DEF PlanNextScaleAction, CheckScaleKind
  <2> QED
    BY <1>1, <2>1, PlannedFacts, PlansFit
<1>6. CASE config.mode \in {"static", "external"} /\ ~(MView.replicas < 0)
  <2>1. MView.replicas \in Nat
    BY <1>6, ExpectedNat
  <2>2. CASE DView[l].replicas > 0
    <3>1. a = PlanScaleForRollout(MView.replicas, config.strategy, Planned(c), Planned(l))
      BY <1>6, <2>2 DEF PlanNextScaleAction, CheckScaleKind
    <3> QED
      BY <1>2, <2>1, <3>1, PlannedFacts, RolloutPlanFits
  <2>3. CASE ~(DView[l].replicas > 0)
    <3>1. a = PlanScaleForNormalState(MView.replicas, Planned(c))
      BY <1>6, <2>3 DEF PlanNextScaleAction, CheckScaleKind
    <3> QED
      BY <2>1, <3>1, PlannedFacts, PlansFit
  <2> QED
    BY <2>2, <2>3
<1> QED
  BY <1>2, <1>3, <1>4, <1>5, <1>6

\* What ScaleDeployments writes: to one of the Deployments of the view, a number
\* of replicas; the last one gets none that had none.
LEMMA ScaleWrites ==
  ASSUME TypeOK, ScaleDeployments
  PROVE  \E i \in Slots, n \in Nat :
           /\ UpdateDeploy(i, DView[i].template, n) /\ n # DView[i].replicas
           /\ i \in {Current, Last(Current)} /\ Current \in Slots
           /\ i = Last(Current) => DView[i].replicas # 0
<1> DEFINE a == PlanNextScaleAction(Current, Last(Current))
           i == IF a.deploy = "current" THEN Current ELSE Last(Current)
           n == DView[i].replicas + a.replicaChange
<1>1. Current \in Slots
  BY ViewTypes DEF ScaleDeployments, Rolling, TwoDeploys, Current, MilvusType, Slots, NoSlot
<1>2. Last(Current) \in Slots /\ Last(Current) # Current
  BY <1>1, LastSlot
<1>3. Fits(a, Planned(Current), Planned(Last(Current)))
  BY <1>1, <1>2, NextPlanFits
<1>4. a.replicaChange # 0 /\ UpdateDeploy(i, DView[i].template, n)
  BY DEF ScaleDeployments
<1> HIDE DEF a
<1>5. DView[Current].replicas \in Nat /\ DView[Last(Current)].replicas \in Nat
  BY <1>1, <1>2, PlannedFacts
<1>6. CASE a.deploy = "current"
  <2>1. n \in Nat /\ n # DView[i].replicas /\ i = Current
    <3>1. Planned(Current).replicas = DView[Current].replicas /\ Planned(Last(Current)).replicas = DView[Last(Current)].replicas
      BY <1>1, <1>2, PlannedFacts
    <3> QED
      BY <1>3, <1>4, <1>5, <1>6, <3>1, FitsNat
  <2> QED
    BY <1>1, <1>2, <1>4, <2>1
<1>7. CASE a.deploy = "last"
  <2>1. n \in Nat /\ n # DView[i].replicas /\ i = Last(Current) /\ DView[i].replicas # 0
    <3>1. Planned(Current).replicas = DView[Current].replicas /\ Planned(Last(Current)).replicas = DView[Last(Current)].replicas
      BY <1>1, <1>2, PlannedFacts
    <3> QED
      BY <1>3, <1>4, <1>5, <1>7, <3>1, FitsNat
  <2> QED
    BY <1>1, <1>2, <1>4, <2>1
<1> QED
  BY <1>3, <1>6, <1>7 DEF Fits

-----------------------------------------------------------------------------
(* What a plan keeps and adds.                                              *)

\* A share of a number grows with it, and no faster.
LEMMA ShareGrows ==
  ASSUME NEW v \in Nat, v <= 100, NEW r \in Nat, NEW e \in Nat, r <= e
  PROVE  (v * r) \div 100 <= (v * e) \div 100 /\ (v * e) \div 100 <= (v * r) \div 100 + (e - r)
<1> DEFINE a == v * r
           b == v * e
           k == e - r
<1>1. k \in Nat /\ e = r + k
  BY SMT
<1>2. b = a + v * k
  BY SMT, <1>1
<1>3. v * k \in Nat /\ a \in Nat
  BY <1>1, NatProduct
<1>4. v * k <= 100 * k
  <2>1. (100 - v) * k \in Nat
    BY SMT, <1>1, NatProduct
  <2>2. (100 - v) * k = 100 * k - v * k
    BY SMT, <1>1
  <2> QED
    BY SMT, <1>1, <1>3, <2>1, <2>2
<1> DEFINE d == v * k
<1>5. d \in Nat /\ d <= 100 * k /\ b = a + d
  BY <1>2, <1>3, <1>4
<1> HIDE DEF a, b, k, d
<1>6. a \div 100 <= b \div 100 /\ b \div 100 <= a \div 100 + k
  BY SMT, <1>1, <1>3, <1>5
<1> QED
  BY <1>6 DEF a, b, k

\* The more replicas, the more of them stay: what a rollout leaves of more
\* replicas is no less.
LEMMA KeptGrows ==
  ASSUME NEW strategy \in StrategyType, ValidRollingUpdate(strategy), NEW r \in Nat, NEW e \in Nat, r <= e, r # 0
  PROVE  r - RolloutSteps(strategy, r).unavailable <= e - RolloutSteps(strategy, e).unavailable
<1> DEFINE v == strategy.maxUnavailable
           s(n) == ScaledValue(strategy.maxSurge, n, TRUE)
           d(n) == ScaledValue(v, n, FALSE)
           u(n) == RolloutSteps(strategy, n).unavailable
<1>1. s(r) \in Nat /\ s(e) \in Nat /\ d(r) \in Nat /\ d(e) \in Nat /\ d(100) \in Nat
  BY ZenonT(60), ScaledValueType DEF StrategyType
<1>2. /\ u(r) = Min2(IF s(r) = 0 /\ d(r) = 0 /\ d(100) > 0 THEN 1 ELSE d(r), Max2(0, r))
      /\ u(e) = Min2(IF s(e) = 0 /\ d(e) = 0 /\ d(100) > 0 THEN 1 ELSE d(e), Max2(0, e))
  BY DEF RolloutSteps
<1>3. v \in IntOrString /\ strategy.maxSurge \in IntOrString
  BY DEF StrategyType
<1>4. s(e) = 0 => s(r) = 0
  <2> DEFINE w == strategy.maxSurge
             a == w.value * e
             b == w.value * r
  <2>1. w.value \in Nat /\ w.percent \in BOOLEAN
    BY <1>3 DEF IntOrString
  <2>2. CASE ~w.percent
    BY <2>2 DEF ScaledValue
  <2>3. CASE w.percent /\ w.value = 0
    BY SMT, <2>3 DEF ScaledValue
  <2>4. CASE w.percent /\ w.value # 0
    <3>1. a \in Nat /\ a >= 1
      BY SMT, <2>1, <2>4, PositiveProduct
    <3> HIDE DEF a
    <3>2. (a + 99) \div 100 # 0
      BY SMT, <3>1
    <3> QED
      BY <2>4, <3>2 DEF ScaledValue, a
  <2> QED
    BY <2>1, <2>2, <2>3, <2>4
<1>5. CASE ~v.percent
  <2>1. d(r) = v.value /\ d(e) = v.value /\ v.value \in Nat /\ d(100) = v.value
    BY <1>3, <1>5 DEF ScaledValue, IntOrString
  <2> HIDE DEF s, d, u, v
  <2>2. u(r) = Min2(d(r), r) /\ u(e) = Min2(d(r), e)
    BY SMT, <1>1, <1>2, <2>1 DEF Min2, Max2
  <2> QED
    BY SMT, <1>1, <2>2 DEF Min2, u
<1>6. CASE v.percent
  <2>1. v.value \in Nat /\ v.value <= 100
    BY <1>3, <1>6 DEF IntOrString, ValidRollingUpdate
  <2>2. d(r) = (v.value * r) \div 100 /\ d(e) = (v.value * e) \div 100
    BY <1>6 DEF ScaledValue
  <2> HIDE DEF s, d, u, v
  <2>3. d(r) <= d(e) /\ d(e) <= d(r) + (e - r)
    <3>1. /\ (v.value * r) \div 100 <= (v.value * e) \div 100
          /\ (v.value * e) \div 100 <= (v.value * r) \div 100 + (e - r)
      BY ZenonT(60), <2>1, ShareGrows
    <3> QED
      BY <2>2, <3>1
  <2>4. u(r) >= d(r) \/ u(r) = r
    BY SMT, <1>1, <1>2 DEF Min2, Max2
  <2>5. u(e) <= d(e) \/ (u(e) = 1 /\ d(e) = 0 /\ s(e) = 0 /\ d(100) > 0)
    BY SMT, <1>1, <1>2 DEF Min2, Max2
  <2>6. u(e) <= e /\ u(e) \in Nat /\ u(r) \in Nat
    BY SMT, <1>1, <1>2 DEF Min2, Max2
  <2>7. CASE u(r) = r
    BY SMT, <2>6, <2>7 DEF u
  <2>8. CASE u(r) >= d(r) /\ u(e) <= d(e)
    BY SMT, <1>1, <2>3, <2>6, <2>8 DEF u
  <2>9. CASE u(e) = 1 /\ d(e) = 0 /\ s(e) = 0 /\ d(100) > 0
    <3>1. d(r) = 0 /\ s(r) = 0
      BY SMT, <1>1, <1>4, <2>3, <2>9
    <3>2. u(r) = 1
      BY SMT, <1>2, <2>9, <3>1 DEF Min2, Max2
    <3> QED
      BY SMT, <2>9, <3>2 DEF u
  <2> QED
    BY <2>4, <2>5, <2>7, <2>8, <2>9
<1> QED
  BY <1>5, <1>6

\* The more replicas, the more a rollout may add, and, where it adds pods, give
\* up; a rollout that may add none may add none to more replicas.
LEMMA StepsGrow ==
  ASSUME NEW strategy \in StrategyType, NEW r \in Nat, NEW e \in Nat, r <= e
  PROVE  /\ RolloutSteps(strategy, r).surge <= RolloutSteps(strategy, e).surge
         /\ r >= 1 /\ RolloutSteps(strategy, r).surge = 0 => RolloutSteps(strategy, e).surge = 0
         /\ RolloutSteps(strategy, r).surge # 0 =>
              RolloutSteps(strategy, r).unavailable <= RolloutSteps(strategy, e).unavailable
<1> DEFINE w == strategy.maxSurge
           v == strategy.maxUnavailable
           s(n) == ScaledValue(w, n, TRUE)
           d(n) == ScaledValue(v, n, FALSE)
           u(n) == RolloutSteps(strategy, n).unavailable
<1>1. s(r) \in Nat /\ s(e) \in Nat /\ d(r) \in Nat /\ d(e) \in Nat /\ d(100) \in Nat
  BY ZenonT(60), ScaledValueType DEF StrategyType
<1>2. /\ u(r) = Min2(IF s(r) = 0 /\ d(r) = 0 /\ d(100) > 0 THEN 1 ELSE d(r), Max2(0, r))
      /\ u(e) = Min2(IF s(e) = 0 /\ d(e) = 0 /\ d(100) > 0 THEN 1 ELSE d(e), Max2(0, e))
      /\ RolloutSteps(strategy, r).surge = s(r) /\ RolloutSteps(strategy, e).surge = s(e)
  BY DEF RolloutSteps
<1>3. /\ v.percent \in BOOLEAN /\ v.value \in Nat /\ w.percent \in BOOLEAN /\ w.value \in Nat
  BY DEF StrategyType, IntOrString
<1>4. ASSUME NEW x \in Nat PROVE x * r \in Nat /\ x * e \in Nat /\ x * r <= x * e
  <2> DEFINE k == e - r
  <2>1. k \in Nat /\ e = r + k
    BY SMT
  <2>2. x * e = x * r + x * k
    BY SMT, <2>1
  <2>3. x * k \in Nat /\ x * r \in Nat /\ x * e \in Nat
    BY <2>1, NatProduct
  <2> QED
    BY SMT, <2>2, <2>3
<1>5. d(r) <= d(e)
  <2> DEFINE a == v.value * r
             b == v.value * e
  <2>1. a \in Nat /\ b \in Nat /\ a <= b
    BY <1>3, <1>4
  <2>2. d(r) = (IF v.percent THEN a \div 100 ELSE v.value) /\ d(e) = (IF v.percent THEN b \div 100 ELSE v.value)
    BY <1>3 DEF ScaledValue
  <2> HIDE DEF a, b, d
  <2> QED
    BY SMT, <1>3, <2>1, <2>2
<1>6. s(r) <= s(e) /\ (r >= 1 /\ s(r) = 0 => s(e) = 0)
  <2> DEFINE a == w.value * r
             b == w.value * e
  <2>1. a \in Nat /\ b \in Nat /\ a <= b
    BY <1>3, <1>4
  <2>2. /\ s(r) = (IF w.percent THEN (a + 99) \div 100 ELSE w.value)
        /\ s(e) = (IF w.percent THEN (b + 99) \div 100 ELSE w.value)
    BY <1>3 DEF ScaledValue
  <2>3. r >= 1 /\ a = 0 => b = 0
    <3> SUFFICES ASSUME r >= 1, a = 0 PROVE b = 0
      OBVIOUS
    <3>1. ~(w.value >= 1)
      BY SMT, <1>3, PositiveProduct
    <3>2. w.value = 0
      BY SMT, <1>3, <3>1
    <3> QED
      BY SMT, <3>2
  <2> HIDE DEF a, b, s
  <2>4. w.percent => s(r) <= s(e)
    BY SMT, <2>1, <2>2
  <2>5. w.percent /\ r >= 1 /\ s(r) = 0 => s(e) = 0
    BY SMT, <2>1, <2>2, <2>3
  <2> QED
    BY SMT, <1>3, <2>2, <2>4, <2>5
<1> HIDE DEF s, d, u, v, w
<1>7. s(r) # 0 => u(r) <= u(e)
  BY SMT, <1>1, <1>2, <1>5, <1>6 DEF Min2, Max2
<1> QED
  BY <1>2, <1>6, <1>7 DEF u

\* The normal plan brings a Deployment up to what is expected, or one pod closer to it.
LEMMA NormalPlanSteps ==
  ASSUME NEW e \in Nat, NEW c, NEW a, c.replicas \in Nat, a = PlanScaleForNormalState(e, c), a.replicaChange # 0
  PROVE  /\ a.deploy = "current"
         /\ \/ c.replicas < e /\ c.replicas + a.replicaChange = e
            \/ c.replicas + a.replicaChange = c.replicas - 1 /\ c.replicas + a.replicaChange >= e
         /\ c.replicas + a.replicaChange >= e
<1> DEFINE r == c.replicas
           x == a.replicaChange
<1>1. a.deploy = "current" /\ x = (IF r > e THEN -1 ELSE e - r)
  <2>1. CASE r > e
    <3>1. a = ScaleAction("current", -1)
      BY <2>1 DEF PlanScaleForNormalState
    <3> QED
      BY <2>1, <3>1, ActionFields
  <2>2. CASE ~(r > e)
    <3>1. a = ScaleAction("current", e - r)
      BY <2>2 DEF PlanScaleForNormalState
    <3> QED
      BY <2>2, <3>1, ActionFields
  <2> QED
    BY <2>1, <2>2
<1>2. x # 0 /\ r \in Nat
  OBVIOUS
<1> HIDE DEF r, x
<1>3. /\ (r < e /\ r + x = e) \/ (r + x = r - 1 /\ r + x >= e)
      /\ r + x >= e
  BY SMT, <1>1, <1>2
<1> QED
  BY <1>1, <1>3 DEF r, x

\* Scaling during a rollout: the current Deployment only grows, and what is left
\* of the last one makes up, with the pods of the current one, for the replicas
\* asked for less maxUnavailable.
MoveServes(a, e, steps, c, l) ==
  \/ a.deploy = "current" /\ a.replicaChange >= 0
  \/ /\ a.deploy = "last"
     /\ l.replicas + a.replicaChange
          + (IF steps.surge = 0 THEN Min2(c.available, c.replicas) ELSE c.replicas) >= e - steps.unavailable

\* So does every step of planScaleForRollout while the last one has replicas.
LEMMA RolloutPlanServes ==
  ASSUME NEW strategy \in StrategyType, NEW c, NEW l, NEW e \in Nat,
         c.replicas \in Nat, c.available \in Nat, l.replicas \in Nat, l.available \in Nat, l.replicas > 0
  PROVE  MoveServes(PlanScaleForRollout(e, strategy, c, l), e, RolloutSteps(strategy, e), c, l)
<1> DEFINE a == PlanScaleForRollout(e, strategy, c, l)
           steps == RolloutSteps(strategy, e)
           x == a.replicaChange
<1>1. RolloutMove(a, e, steps, c, l)
  BY RolloutPlanSteps
<1> HIDE DEF a, steps
<1>2. x \in Int
  BY <1>1 DEF RolloutMove
<1>3. x = 0 \/ l.replicas = 0 \/ x > 0 => x >= 0
  <2> HIDE DEF x
  <2> QED
    BY SMT, <1>2
<1>4. MoveServes(a, e, steps, c, l)
  BY <1>1, <1>3 DEF RolloutMove, MoveServes
<1> QED
  BY <1>4 DEF a, steps

\* A step of a rollout: the current Deployment grows, to no more than is asked for
\* or the last one has, and, without surge or with the same limits, to no more
\* than is asked for and the surge beside the last one; or the last one shrinks,
\* by no more than maxUnavailable or one pod if there is surge.
MoveBounded(a, e, steps, c, l) ==
  \/ /\ a.deploy = "current" /\ a.replicaChange > 0
     /\ c.replicas + a.replicaChange <= Max2(e, l.replicas)
     /\ steps.surge = 0 \/ c.limits = l.limits =>
          c.replicas + a.replicaChange + l.replicas <= e + steps.surge
  \/ /\ a.deploy = "last" /\ a.replicaChange < 0
     /\ steps.surge # 0 => -a.replicaChange <= Max2(1, steps.unavailable)

\* So is every step of planScaleForRollout that changes something while the last
\* one has replicas.
LEMMA RolloutPlanBounds ==
  ASSUME NEW strategy \in StrategyType, NEW c, NEW l, NEW e \in Nat,
         c.replicas \in Nat, c.available \in Nat, l.replicas \in Nat, l.available \in Nat, l.replicas > 0,
         PlanScaleForRollout(e, strategy, c, l).replicaChange # 0
  PROVE  MoveBounded(PlanScaleForRollout(e, strategy, c, l), e, RolloutSteps(strategy, e), c, l)
<1> DEFINE a == PlanScaleForRollout(e, strategy, c, l)
           steps == RolloutSteps(strategy, e)
<1>1. l.replicas # 0
  BY SMT
<1>2. RolloutMove(a, e, steps, c, l) /\ a.replicaChange # 0
  BY RolloutPlanSteps
<1> HIDE DEF a, steps
<1>3. MoveBounded(a, e, steps, c, l)
  BY <1>1, <1>2 DEF RolloutMove, MoveBounded
<1> QED
  BY <1>3 DEF a, steps

-----------------------------------------------------------------------------
(* Every step keeps the types.                                              *)

\* What a step may do to the state.
LEMMA TypeFrame ==
  ASSUME TypeOK, config' = config, milvus' \in MilvusType, mseen' \in MilvusType,
         deploy' \in [Slots -> DeployType], dseen' \in [Slots -> DeployType],
         pods' \in [Slots -> PodsType], pseen' \in [Slots -> PodsType],
         hpa' \in Slots \cup {NoSlot}, prep' \subseteq [milvus: MilvusType, slot: Slots],
         edits' \in 0..config.maxEdits, scales' \in 0..config.maxScales,
         failures' \in 0..config.maxFailures, faults' \in 0..config.maxFaults,
         floor' \in config.replicas, ceiling' \in config.replicas
  PROVE  TypeOK'
<1>1. MilvusType' = MilvusType /\ DeployType' = DeployType /\ PodsType' = PodsType /\ Slots' = Slots
  BY DEF MilvusType, DeployType, PodsType, Slots, NoSlot
<1> QED
  BY <1>1 DEF TypeOK, NoSlot

\* The slot that a reconcile calls current is one of the two.
LEMMA CurrentSlot ==
  ASSUME TypeOK, TwoDeploys
  PROVE  Current \in Slots /\ Last(Current) \in Slots
<1>1. Current \in Slots
  BY ViewTypes DEF TwoDeploys, Current, MilvusType, Slots, NoSlot
<1> QED
  BY <1>1, LastSlot

\* Steps of the reconcile.
LEMMA ReconcileTypes ==
  ASSUME TypeOK,
         MarkFirstGroup \/ HandleCreate \/ HandleStop \/ FinishRollout \/ PrepareNewRollout \/ SetRolling
           \/ ScaleDeployments \/ ReconcileHPAs
  PROVE  TypeOK'
<1>a. /\ MView \in MilvusType /\ DView \in [Slots -> DeployType]
      /\ deploy \in [Slots -> DeployType] /\ pods \in [Slots -> PodsType]
      /\ prep \subseteq [milvus: MilvusType, slot: Slots]
  BY ViewTypes DEF TypeOK
<1>1. CASE MarkFirstGroup
  <2>1. milvus' \in MilvusType
    BY <1>1, <1>a, MilvusWritten DEF MarkFirstGroup, WriteMilvus
  <2> QED
    BY <1>1, <2>1, TypeFrame DEF MarkFirstGroup, views, history, TypeOK
<1>2. CASE HandleCreate
  <2>1. PICK i \in Slots : CreateDeploy(i)
    BY <1>2 DEF HandleCreate, Slots
  <2>2. \A t \in Templates \cup {Dummy} :
          [Absent EXCEPT !.exists = TRUE, !.observed = FALSE, !.template = t] \in DeployType
    BY DEF Absent, DeployType
  <2>3. (IF i = 0 THEN Desired ELSE Dummy) \in Templates \cup {Dummy}
    BY <1>a DEF Desired, MilvusType
  <2>4. deploy' \in [Slots -> DeployType]
    BY <1>a, <2>1, <2>2, <2>3 DEF CreateDeploy
  <2> QED
    BY <2>1, <2>4, TypeFrame DEF CreateDeploy, views, history, TypeOK
<1>3. CASE HandleStop
  <2>1. TwoDeploys /\ UNCHANGED <<config, hpa, views, prep, history>>
    BY <1>3 DEF HandleStop
  <2>2. CASE \E i \in Slots : UpdateDeploy(i, DView[i].template, 0) /\ UNCHANGED milvus
    <3>1. PICK i \in Slots : UpdateDeploy(i, DView[i].template, 0) /\ UNCHANGED milvus
      BY <2>2
    <3>2. DView[i].template \in Templates \cup {Dummy}
      BY <1>a DEF DeployType
    <3>3. deploy' \in [Slots -> DeployType] /\ pods' \in [Slots -> PodsType]
      BY <3>1, <3>2, UpdateType
    <3> QED
      BY <2>1, <3>1, <3>3, TypeFrame DEF views, history, TypeOK
  <2>3. CASE WriteMilvus(MView, [MView EXCEPT !.rolling = FALSE]) /\ UNCHANGED <<deploy, pods>>
    <3>1. milvus' \in MilvusType
      BY <1>a, <2>3, MilvusWritten DEF WriteMilvus
    <3> QED
      BY <2>1, <2>3, <3>1, TypeFrame DEF views, history, TypeOK
  <2> QED
    BY <1>3, <2>1, <2>2, <2>3, CurrentSlot DEF HandleStop
<1>4. CASE FinishRollout
  <2>1. milvus' \in MilvusType
    BY <1>4, <1>a, MilvusWritten DEF FinishRollout, WriteMilvus
  <2> QED
    BY <1>4, <2>1, TypeFrame DEF FinishRollout, views, history, TypeOK
<1>5. CASE PrepareNewRollout
  <2>1. RolloutSlot \in Slots
    BY <1>5, CurrentSlot DEF PrepareNewRollout, Rolling, RolloutSlot
  <2>2. Desired \in Templates \cup {Dummy} /\ DView[RolloutSlot].replicas \in Nat
    BY <1>a, <2>1 DEF Desired, MilvusType, DeployType
  <2>3. UpdateDeploy(RolloutSlot, Desired, DView[RolloutSlot].replicas)
    BY <1>5 DEF PrepareNewRollout
  <2>4. deploy' \in [Slots -> DeployType] /\ pods' \in [Slots -> PodsType]
    BY <2>1, <2>2, <2>3, UpdateType
  <2>5. prep' \subseteq [milvus: MilvusType, slot: Slots]
    BY SMT, <1>5, <1>a, <2>1 DEF PrepareNewRollout
  <2> QED
    BY <1>5, <2>4, <2>5, TypeFrame DEF PrepareNewRollout, views, history, TypeOK
<1>6. CASE SetRolling
  <2>1. PICK p \in prep :
          /\ milvus' = IF p.milvus = milvus
                       THEN [milvus EXCEPT !.current = p.slot, !.rolling = TRUE]
                       ELSE milvus
          /\ prep' = {}
          /\ UNCHANGED <<config, deploy, pods, hpa, views, history>>
    BY <1>6 DEF SetRolling
  <2>2. milvus \in MilvusType /\ p.slot \in Slots
    BY <1>a DEF TypeOK
  <2>3. milvus' \in MilvusType
    BY <2>1, <2>2, MilvusWritten
  <2> QED
    BY <2>1, <2>3, TypeFrame DEF views, history, TypeOK
<1>7. CASE ScaleDeployments
  <2>1. PICK i \in Slots, n \in Nat : UpdateDeploy(i, DView[i].template, n)
    BY <1>7, ScaleWrites
  <2>2. DView[i].template \in Templates \cup {Dummy}
    BY <1>a DEF DeployType
  <2>3. deploy' \in [Slots -> DeployType] /\ pods' \in [Slots -> PodsType]
    BY <2>1, <2>2, UpdateType
  <2> QED
    BY <1>7, <2>3, TypeFrame DEF ScaleDeployments, views, history, TypeOK
<1>8. CASE ReconcileHPAs
  <2>1. hpa' \in Slots \cup {NoSlot}
    <3>1. ReconcileTwoDeployHPA(MView) \in {NoSlot, 0, MView.current}
      BY DEF ReconcileTwoDeployHPA
    <3> QED
      BY <1>8, <1>a, <3>1 DEF ReconcileHPAs, MilvusType, Slots
  <2> QED
    BY <1>8, <2>1, TypeFrame DEF ReconcileHPAs, views, history, TypeOK
<1> QED
  BY <1>1, <1>2, <1>3, <1>4, <1>5, <1>6, <1>7, <1>8

\* The pods after their controller has acted are counted.
LEMMA ScaledPodsType ==
  ASSUME NEW p \in PodsType, NEW n \in Nat
  PROVE  ScaledPods(p, n) \in PodsType
<1>1. p.old \in Nat /\ p.starting \in Nat /\ p.ready \in Nat /\ p.dying \in Nat
  BY DEF PodsType
<1> DEFINE s == Min2(p.starting, Max2(0, n - p.ready))
           r == Min2(p.ready, n)
           up == Max2(0, n - r)
           gone == p.dying + p.old + (p.starting - s) + (p.ready - r)
<1>2. r \in Nat /\ up \in Nat /\ gone \in Nat
  BY SMT, <1>1 DEF Min2, Max2
<1>3. ScaledPods(p, n) = [old |-> 0, starting |-> up, ready |-> r, dying |-> gone]
  BY DEF ScaledPods
<1> HIDE DEF r, up, gone
<1> QED
  BY SMT, <1>2, <1>3 DEF PodsType

\* Steps of the cluster.
LEMMA ClusterTypes ==
  ASSUME TypeOK, NEW i \in Slots,
         ScalePods(i) \/ SyncStatus(i) \/ PodReady(i) \/ PodGone(i) \/ PodUnready(i)
           \/ \E n \in HpaMin..HpaMax : AutoScale(i, n)
  PROVE  TypeOK'
<1>a. /\ deploy \in [Slots -> DeployType] /\ pods \in [Slots -> PodsType]
      /\ deploy[i] \in DeployType /\ pods[i] \in PodsType
  BY DEF TypeOK
<1>b. pods[i].old \in Nat /\ pods[i].starting \in Nat /\ pods[i].ready \in Nat /\ pods[i].dying \in Nat
  BY <1>a DEF PodsType
<1>c. /\ config.maxScales \in Nat /\ config.maxFailures \in Nat
      /\ scales \in 0..config.maxScales /\ failures \in 0..config.maxFailures
  BY ConfigFacts DEF TypeOK
<1>1. CASE ScalePods(i)
  <2>1. deploy[i].replicas \in Nat
    BY <1>a DEF DeployType
  <2>2. ScaledPods(pods[i], deploy[i].replicas) \in PodsType
    BY <1>a, <2>1, ScaledPodsType
  <2>3. pods' \in [Slots -> PodsType]
    BY <1>1, <1>a, <2>2 DEF ScalePods
  <2> QED
    BY <1>1, <2>3, TypeFrame DEF ScalePods, views, history, TypeOK
<1>2. CASE SyncStatus(i)
  <2> DEFINE t == Live(pods[i])
             u == pods[i].starting + pods[i].ready
             v == pods[i].old + pods[i].ready
  <2>1. t \in Nat /\ u \in Nat /\ v \in Nat
    BY SMT, <1>b DEF Live
  <2>2. deploy' = [deploy EXCEPT ![i] = [deploy[i] EXCEPT !.observed = TRUE, !.total = t, !.updated = u, !.available = v]]
    BY <1>2 DEF SyncStatus
  <2> HIDE DEF t, u, v
  <2>3. [deploy[i] EXCEPT !.observed = TRUE, !.total = t, !.updated = u, !.available = v] \in DeployType
    BY <1>a, <2>1 DEF DeployType
  <2>4. deploy' \in [Slots -> DeployType]
    BY <1>a, <2>2, <2>3
  <2> QED
    BY <1>2, <2>4, TypeFrame DEF SyncStatus, views, history, TypeOK
<1>3. CASE PodReady(i) \/ PodGone(i) \/ PodUnready(i)
  <2>1. PICK s, r, d \in Nat : pods' = [pods EXCEPT ![i] = [pods[i] EXCEPT !.starting = s, !.ready = r, !.dying = d]]
    <3>1. CASE PodReady(i)
      <4>1. pods[i].starting - 1 \in Nat /\ pods[i].ready + 1 \in Nat
        BY SMT, <3>1, <1>b DEF PodReady
      <4>2. pods' = [pods EXCEPT ![i] = [pods[i] EXCEPT !.starting = pods[i].starting - 1, !.ready = pods[i].ready + 1,
                                                        !.dying = pods[i].dying]]
        BY <3>1, <1>a DEF PodReady, PodsType
      <4> QED
        BY <1>b, <4>1, <4>2
    <3>2. CASE PodGone(i)
      <4>1. pods[i].dying - 1 \in Nat
        BY SMT, <3>2, <1>b DEF PodGone
      <4>2. pods' = [pods EXCEPT ![i] = [pods[i] EXCEPT !.starting = pods[i].starting, !.ready = pods[i].ready,
                                                        !.dying = pods[i].dying - 1]]
        BY <3>2, <1>a DEF PodGone, PodsType
      <4> QED
        BY <1>b, <4>1, <4>2
    <3>3. CASE PodUnready(i)
      <4>1. pods[i].starting + 1 \in Nat /\ pods[i].ready - 1 \in Nat
        BY SMT, <3>3, <1>b DEF PodUnready
      <4>2. pods' = [pods EXCEPT ![i] = [pods[i] EXCEPT !.starting = pods[i].starting + 1, !.ready = pods[i].ready - 1,
                                                        !.dying = pods[i].dying]]
        BY <3>3, <1>a DEF PodUnready, PodsType
      <4> QED
        BY <1>b, <4>1, <4>2
    <3> QED
      BY <1>3, <3>1, <3>2, <3>3
  <2>2. pods' \in [Slots -> PodsType]
    BY <1>a, <2>1 DEF PodsType
  <2>3. failures' \in 0..config.maxFailures
    <3>1. failures' = failures \/ (failures < config.maxFailures /\ failures' = failures + 1)
      BY <1>3 DEF PodReady, PodGone, PodUnready, history
    <3> QED
      BY <1>c, <3>1, Counted
  <2> QED
    BY <1>3, <2>2, <2>3, TypeFrame DEF PodReady, PodGone, PodUnready, views, history, TypeOK
<1>4. ASSUME NEW n \in HpaMin..HpaMax, AutoScale(i, n) PROVE TypeOK'
  <2>1. n \in Nat
    BY SMT, <1>4, RolloutAssumption
  <2>2. Written(deploy[i], deploy[i].template, n) \in DeployType
    BY <1>a, <2>1, WrittenType DEF DeployType
  <2>3. deploy' \in [Slots -> DeployType]
    BY <1>4, <1>a, <2>2 DEF AutoScale
  <2>4. scales' \in 0..config.maxScales
    BY <1>4, <1>c, Counted DEF AutoScale
  <2> QED
    BY <1>4, <2>3, <2>4, TypeFrame DEF AutoScale, views, history, TypeOK
<1> QED
  BY <1>1, <1>2, <1>3, <1>4

\* Users, crashes and caches.
LEMMA OtherTypes ==
  ASSUME TypeOK,
         Crash \/ (\E t \in Templates, r \in config.replicas : Edit(t, r)) \/ SyncMilvus \/ SyncDeploys \/ SyncPods
  PROVE  TypeOK'
<1>a. /\ config.maxEdits \in Nat /\ config.maxFaults \in Nat
      /\ edits \in 0..config.maxEdits /\ faults \in 0..config.maxFaults
  BY ConfigFacts DEF TypeOK
<1>1. CASE Crash
  <2>1. faults' \in 0..config.maxFaults
    BY <1>1, <1>a, Counted DEF Crash
  <2> QED
    BY <1>1, <2>1, TypeFrame DEF Crash, objects, views, TypeOK
<1>2. ASSUME NEW t \in Templates, NEW r \in config.replicas, Edit(t, r) PROVE TypeOK'
  <2>1. milvus' \in MilvusType
    BY <1>2 DEF Edit, TypeOK, MilvusType
  <2>2. edits' \in 0..config.maxEdits
    BY <1>2, <1>a, Counted DEF Edit
  <2>3. floor' \in config.replicas /\ ceiling' \in config.replicas
    BY <1>2 DEF Edit, TypeOK, Min2, Max2
  <2> QED
    BY <1>2, <2>1, <2>2, <2>3, TypeFrame DEF Edit, views, TypeOK
<1>3. CASE SyncMilvus \/ SyncDeploys \/ SyncPods
  BY <1>3, TypeFrame DEF SyncMilvus, SyncDeploys, SyncPods, objects, history, TypeOK
<1> QED
  BY <1>1, <1>2, <1>3

LEMMA TypeStep == TypeOK /\ [Next]_vars => TypeOK'
<1>1. TypeOK /\ UNCHANGED vars => TypeOK'
  <2> SUFFICES ASSUME TypeOK, UNCHANGED vars PROVE TypeOK'
    OBVIOUS
  <2>1. UNCHANGED <<config, milvus, deploy, pods, hpa, mseen, dseen, pseen, prep, edits, scales, failures, faults,
                    floor, ceiling>>
    BY DEF vars, objects, views, history
  <2> QED
    BY <2>1, TypeFrame DEF TypeOK
<1> QED
  BY <1>1, ReconcileTypes, ClusterTypes, OtherTypes DEF Next

\* A component is created without Deployments.
LEMMA TypeInit == Init => TypeOK
<1> SUFFICES ASSUME Init PROVE TypeOK
  OBVIOUS
<1>1. config \in Configs
  BY DEF Init
<1>2. PICK t \in Templates, r \in config.replicas :
        /\ milvus = [template |-> t, replicas |-> r, current |-> NoSlot, rolling |-> FALSE]
        /\ floor = r /\ ceiling = r
  BY DEF Init
<1>3. milvus \in MilvusType /\ mseen \in MilvusType
  BY <1>2 DEF Init, MilvusType
<1>4. Absent \in DeployType /\ NoPods \in PodsType
  BY DEF Absent, DeployType, NoPods, PodsType
<1>5. /\ deploy \in [Slots -> DeployType] /\ dseen \in [Slots -> DeployType]
      /\ pods \in [Slots -> PodsType] /\ pseen \in [Slots -> PodsType]
  BY <1>4 DEF Init
<1>6. /\ edits \in 0..config.maxEdits /\ scales \in 0..config.maxScales
      /\ failures \in 0..config.maxFailures /\ faults \in 0..config.maxFaults
  BY SMT, <1>1, ConfigFacts DEF Init
<1> QED
  BY <1>1, <1>2, <1>3, <1>5, <1>6 DEF Init, TypeOK

\* Types hold in every reachable state of the deploy controller, with every
\* cache, crash and autoscaler: among others, ScaleDeployments never writes a
\* negative number of replicas.
THEOREM RolloutTypes == Spec => []TypeOK
BY TypeInit, TypeStep, PTL DEF Spec

-----------------------------------------------------------------------------
(* The last Deployment is idle outside a rollout.                           *)

\* The cache of the Deployments keeps up.  With one that lags, a rollout that
\* is rolled back after its first step is taken for finished: the Deployment
\* that the cache still shows empty has got replicas in the meantime.
DeploysSeen == \A c \in Configs : "deploy" \notin c.lagging

\* What LastIdle says of the Milvus object holds of the copy that is read.
SeenIdle ==
  MView.current \in Slots /\ ~MView.rolling => deploy[Last(MView.current)].replicas = 0

\* Outside a rollout an outdated copy still names the current slot, unless it is
\* from before the first.
SeenCurrent == ~milvus.rolling => MView.current \in {milvus.current, NoSlot}

\* A Deployment that is not there has no replicas, and slot 1 becomes current
\* only when there are both.
CreatedFirst ==
  /\ \A i \in Slots : ~deploy[i].exists => deploy[i].replicas = 0
  /\ milvus.current = 1 \/ prep # {} => deploy[0].exists

IdleInv == LastIdle /\ SeenIdle /\ SeenCurrent /\ CreatedFirst

LEMMA DeploysAreSeen ==
  ASSUME TypeOK, DeploysSeen
  PROVE  DView = deploy
BY DEF TypeOK, DeploysSeen, DView

\* Steps that give no replicas to a Deployment that has none, and leave the
\* Milvus object alone.
LEMMA IdleFrame ==
  ASSUME TypeOK, IdleInv, UNCHANGED <<config, milvus, mseen>>,
         \A i \in Slots : /\ deploy[i].replicas = 0 => deploy'[i].replicas = 0
                          /\ deploy[i].exists => deploy'[i].exists
                          /\ ~deploy[i].exists => deploy'[i].replicas = 0,
         prep' # {} => deploy[0].exists
  PROVE  IdleInv'
<1>1. MView' = MView
  BY DEF MView
<1>2. LastIdle'
  BY LastSlot DEF IdleInv, LastIdle, Slots
<1>3. SeenIdle'
  BY <1>1, LastSlot DEF IdleInv, SeenIdle, Slots
<1>4. SeenCurrent'
  BY <1>1 DEF IdleInv, SeenCurrent, NoSlot
<1>5. 0 \in Slots
  BY DEF Slots
<1>6. CreatedFirst'
  BY <1>5 DEF IdleInv, CreatedFirst, Slots
<1> QED
  BY <1>2, <1>3, <1>4, <1>6 DEF IdleInv

\* Writes of the Milvus object: a step that keeps the current slot, or makes
\* one current that has both Deployments, and that leaves no rollout only when
\* the last Deployment is idle.
LEMMA IdleWrite ==
  ASSUME TypeOK, IdleInv, UNCHANGED <<config, deploy, mseen>>, milvus' \in MilvusType, prep' = prep \/ prep' = {},
         milvus'.current = 1 => deploy[0].exists,
         ~milvus'.rolling => /\ MView = milvus /\ MView.current \in {milvus'.current, NoSlot}
                             /\ milvus'.current \in Slots => deploy[Last(milvus'.current)].replicas = 0
  PROVE  IdleInv'
<1>1. MView' \in {MView, milvus'}
  BY DEF MView
<1>2. LastIdle'
  BY DEF LastIdle, Slots
<1>3. SeenIdle'
  <2>1. CASE MView' = MView
    BY <2>1 DEF IdleInv, SeenIdle, Slots
  <2>2. CASE MView' = milvus'
    BY <2>2 DEF SeenIdle, Slots
  <2> QED
    BY <1>1, <2>1, <2>2
<1>4. SeenCurrent'
  BY <1>1 DEF SeenCurrent, NoSlot
<1>5. CreatedFirst'
  BY DEF IdleInv, CreatedFirst, Slots
<1> QED
  BY <1>2, <1>3, <1>4, <1>5 DEF IdleInv

\* Steps of the reconcile that write the Milvus object.
LEMMA WritesIdle ==
  ASSUME TypeOK, IdleInv, DeploysSeen, MarkFirstGroup \/ FinishRollout \/ SetRolling, TypeOK'
  PROVE  IdleInv'
<1>a. DView = deploy /\ MView \in MilvusType /\ milvus \in MilvusType /\ milvus' \in MilvusType
  <2>1. milvus' \in MilvusType' /\ MilvusType' = MilvusType
    BY DEF TypeOK, MilvusType, MarkFirstGroup, FinishRollout, SetRolling, Slots, NoSlot
  <2> QED
    BY <2>1, DeploysAreSeen, ViewTypes DEF TypeOK
<1>1. CASE MarkFirstGroup
  <2>1. /\ UNCHANGED <<config, deploy, mseen, prep>> /\ MView = milvus
        /\ milvus' = [milvus EXCEPT !.current = 0] /\ MView.current # 0
        /\ \A i \in Slots : ~deploy[i].exists
    BY <1>1, <1>a DEF MarkFirstGroup, WriteMilvus, views
  <2>2. milvus'.current = 0 /\ milvus'.rolling = milvus.rolling
    BY <1>a, <2>1 DEF MilvusType
  <2>3. milvus.current = NoSlot
    <3>1. milvus.current \in {0, 1, NoSlot}
      BY <1>a DEF MilvusType, Slots
    <3>2. ~deploy[0].exists
      BY <2>1 DEF Slots
    <3> QED
      BY <2>1, <3>1, <3>2 DEF IdleInv, CreatedFirst
  <2>4. deploy[Last(0)].replicas = 0
    BY SMT, <2>1 DEF IdleInv, CreatedFirst, Last, Slots
  <2> QED
    BY SMT, <1>a, <2>1, <2>2, <2>3, <2>4, IdleWrite
<1>2. CASE FinishRollout
  <2>1. /\ UNCHANGED <<config, deploy, mseen, prep>> /\ MView = milvus
        /\ milvus' = [milvus EXCEPT !.rolling = FALSE] /\ TwoDeploys /\ LastDown(Last(Current))
    BY <1>2, <1>a DEF FinishRollout, WriteMilvus, views, Rolling, DeploymentShowsRolloutFinished
  <2>2. milvus'.current = milvus.current
    BY <1>a, <2>1 DEF MilvusType
  <2>3. deploy[Last(milvus.current)].replicas = 0
    BY <1>a, <2>1 DEF LastDown, Current
  <2> QED
    BY <1>a, <2>1, <2>2, <2>3, IdleWrite DEF IdleInv, CreatedFirst
<1>3. CASE SetRolling
  <2>1. PICK p \in prep :
          /\ milvus' = IF p.milvus = milvus
                       THEN [milvus EXCEPT !.current = p.slot, !.rolling = TRUE]
                       ELSE milvus
          /\ prep' = {} /\ UNCHANGED <<config, deploy, mseen>>
    BY <1>3 DEF SetRolling, views
  <2>2. CASE milvus' = milvus
    BY <2>1, <2>2, IdleFrame DEF IdleInv, CreatedFirst
  <2>3. CASE milvus' = [milvus EXCEPT !.current = p.slot, !.rolling = TRUE]
    <3>1. milvus'.rolling = TRUE
      BY <1>a, <2>3 DEF MilvusType
    <3>2. deploy[0].exists
      BY <2>1 DEF IdleInv, CreatedFirst
    <3> QED
      BY <1>a, <2>1, <3>1, <3>2, IdleWrite
  <2> QED
    BY <2>1, <2>2, <2>3
<1> QED
  BY <1>1, <1>2, <1>3

\* Steps of the reconcile that write a Deployment.
LEMMA DeploysIdle ==
  ASSUME TypeOK, IdleInv, DeploysSeen, HandleCreate \/ HandleStop \/ PrepareNewRollout \/ ScaleDeployments, TypeOK'
  PROVE  IdleInv'
<1>a. DView = deploy /\ MView \in MilvusType /\ milvus \in MilvusType /\ deploy \in [Slots -> DeployType]
  BY DeploysAreSeen, ViewTypes DEF TypeOK
<1>b. \A i \in Slots : deploy[i].template \in Templates \cup {Dummy} /\ deploy[i].replicas \in Nat
  BY <1>a DEF DeployType
<1>1. CASE HandleCreate
  <2>1. PICK i \in Slots : CreateDeploy(i)
    BY <1>1 DEF HandleCreate, Slots
  <2>2. UNCHANGED <<config, milvus, mseen, prep>> /\ ~deploy[i].exists
    BY <2>1 DEF CreateDeploy, views
  <2>3. deploy'[i].exists /\ deploy'[i].replicas = 0 /\ \A j \in Slots \ {i} : deploy'[j] = deploy[j]
    BY <1>a, <2>1 DEF CreateDeploy, Absent
  <2>4. \A j \in Slots : /\ deploy[j].replicas = 0 => deploy'[j].replicas = 0
                         /\ deploy[j].exists => deploy'[j].exists
                         /\ ~deploy[j].exists => deploy'[j].replicas = 0
    BY <2>2, <2>3 DEF IdleInv, CreatedFirst
  <2> QED
    BY <2>2, <2>4, IdleFrame DEF IdleInv, CreatedFirst
<1>2. CASE HandleStop
  <2>1. TwoDeploys /\ UNCHANGED <<config, mseen, prep>>
    BY <1>2 DEF HandleStop, views
  <2>2. \A i \in Slots : deploy[i].exists
    BY <1>a, <2>1 DEF TwoDeploys
  <2>3. CASE \E i \in Slots : UpdateDeploy(i, DView[i].template, 0) /\ UNCHANGED milvus
    <3>1. PICK i \in Slots : UpdateDeploy(i, deploy[i].template, 0) /\ UNCHANGED milvus
      BY <1>a, <2>3
    <3>2. deploy'[i].replicas = 0 /\ deploy'[i].exists = deploy[i].exists /\ \A j \in Slots \ {i} : deploy'[j] = deploy[j]
      BY <3>1, StopWrites
    <3> QED
      BY ZenonT(60), <2>1, <2>2, <3>1, <3>2, IdleFrame DEF Slots
  <2>4. CASE /\ \A i \in Slots : DView[i].replicas = 0
             /\ WriteMilvus(MView, [MView EXCEPT !.rolling = FALSE]) /\ UNCHANGED <<deploy, pods>>
    <3>1. MView = milvus /\ milvus' = [milvus EXCEPT !.rolling = FALSE] /\ deploy' = deploy
      BY <2>4 DEF WriteMilvus
    <3>2. milvus' \in MilvusType /\ milvus'.current = milvus.current
      BY <1>a, <3>1 DEF MilvusType
    <3>3. deploy[Last(0)].replicas = 0 /\ deploy[Last(1)].replicas = 0
      BY <1>a, <2>4, LastSlot DEF Slots
    <3> QED
      BY <1>a, <2>1, <2>2, <3>1, <3>2, <3>3, IdleWrite DEF Slots
  <2> QED
    BY <1>2, <2>1, <2>3, <2>4, CurrentSlot DEF HandleStop
<1>3. CASE PrepareNewRollout
  <2>1. RolloutSlot \in Slots
    BY <1>3, CurrentSlot DEF PrepareNewRollout, Rolling, RolloutSlot
  <2>2. /\ TwoDeploys /\ UNCHANGED <<config, milvus, mseen>>
        /\ UpdateDeploy(RolloutSlot, Desired, deploy[RolloutSlot].replicas)
    BY <1>3, <1>a DEF PrepareNewRollout, Rolling, views
  <2>3. Desired \in Templates \cup {Dummy}
    BY <1>a DEF Desired, MilvusType
  <2>4. /\ deploy'[RolloutSlot].replicas = deploy[RolloutSlot].replicas
        /\ deploy'[RolloutSlot].exists = deploy[RolloutSlot].exists
        /\ \A j \in Slots \ {RolloutSlot} : deploy'[j] = deploy[j]
    BY <1>b, <2>1, <2>2, <2>3, UpdateType
  <2>5. \A i \in Slots : deploy[i].exists
    BY <1>a, <2>2 DEF TwoDeploys
  <2> HIDE DEF RolloutSlot
  <2> QED
    BY <2>1, <2>2, <2>4, <2>5, IdleFrame DEF Slots
<1>4. CASE ScaleDeployments
  <2>1. PICK i \in Slots, n \in Nat :
           /\ UpdateDeploy(i, deploy[i].template, n)
           /\ i \in {Current, Last(Current)} /\ Current \in Slots
           /\ i = Last(Current) => deploy[i].replicas # 0
    BY <1>4, <1>a, ScaleWrites
  <2>2. UNCHANGED <<config, milvus, mseen, prep>> /\ TwoDeploys
    BY <1>4 DEF ScaleDeployments, Rolling, views
  <2>3. deploy'[i].exists = deploy[i].exists /\ \A j \in Slots \ {i} : deploy'[j] = deploy[j]
    BY <1>b, <2>1, UpdateType
  <2>4. \A j \in Slots : deploy[j].exists
    BY <1>a, <2>2 DEF TwoDeploys
  <2>5. CASE i = Last(Current)
    BY <2>1, <2>2, <2>3, <2>4, <2>5, IdleFrame DEF Slots
  <2>6. CASE i = Current
    <3>1. MView' = MView
      BY <2>2 DEF MView
    <3>2. Last(Current) \in Slots \ {i}
      BY <2>6, LastSlot
    <3>3. deploy'[Last(Current)] = deploy[Last(Current)]
      BY <2>3, <3>2
    <3>4. LastIdle'
      BY SMT, <2>1, <2>2, <3>3 DEF IdleInv, LastIdle, SeenCurrent, Current, Slots, NoSlot
    <3>5. SeenIdle'
      BY <2>1, <3>1, <3>3 DEF IdleInv, SeenIdle, Current, Slots
    <3>6. SeenCurrent'
      BY <2>2, <3>1 DEF IdleInv, SeenCurrent, NoSlot
    <3>7. CreatedFirst'
      BY <2>2, <2>3, <2>4 DEF CreatedFirst, Slots
    <3> QED
      BY <3>4, <3>5, <3>6, <3>7 DEF IdleInv
  <2> QED
    BY <2>1, <2>5, <2>6
<1> QED
  BY <1>1, <1>2, <1>3, <1>4

\* All other steps: an autoscaler gives no replicas to a Deployment without any.
LEMMA OthersIdle ==
  ASSUME TypeOK, IdleInv,
         \/ Crash \/ ReconcileHPAs \/ SyncMilvus \/ SyncDeploys \/ SyncPods
         \/ \E t \in Templates, r \in config.replicas : Edit(t, r)
         \/ \E i \in Slots :
              \/ ScalePods(i) \/ SyncStatus(i) \/ PodReady(i) \/ PodGone(i) \/ PodUnready(i)
              \/ \E n \in HpaMin..HpaMax : AutoScale(i, n)
         \/ UNCHANGED vars
  PROVE  IdleInv'
<1>a. milvus \in MilvusType /\ mseen \in MilvusType /\ deploy \in [Slots -> DeployType]
  BY DEF TypeOK
<1>1. CASE \/ Crash \/ ReconcileHPAs \/ SyncDeploys \/ SyncPods \/ UNCHANGED vars
           \/ \E i \in Slots : ScalePods(i) \/ PodReady(i) \/ PodGone(i) \/ PodUnready(i)
  <2>1. UNCHANGED <<config, milvus, mseen, deploy>> /\ (prep' = prep \/ prep' = {})
    BY <1>1 DEF Crash, ReconcileHPAs, SyncDeploys, SyncPods, ScalePods, PodReady, PodGone, PodUnready,
       vars, objects, views
  <2> QED
    BY <2>1, IdleFrame DEF IdleInv, CreatedFirst
<1>2. ASSUME NEW i \in Slots, SyncStatus(i) PROVE IdleInv'
  <2>1. UNCHANGED <<config, milvus, mseen, prep>>
    BY <1>2 DEF SyncStatus, views
  <2>2. \A j \in Slots : deploy'[j].replicas = deploy[j].replicas /\ deploy'[j].exists = deploy[j].exists
    BY <1>2, <1>a DEF SyncStatus, DeployType
  <2> QED
    BY <2>1, <2>2, IdleFrame DEF IdleInv, CreatedFirst
<1>3. ASSUME NEW i \in Slots, NEW n \in HpaMin..HpaMax, AutoScale(i, n) PROVE IdleInv'
  <2>1. UNCHANGED <<config, milvus, mseen, prep>> /\ deploy[i].replicas > 0
    BY <1>3 DEF AutoScale, views
  <2>2. n \in Nat /\ deploy[i].template \in Templates \cup {Dummy}
    BY SMT, <1>a, RolloutAssumption DEF DeployType
  <2>3. deploy' = [deploy EXCEPT ![i] = Written(deploy[i], deploy[i].template, n)]
    BY <1>3 DEF AutoScale
  <2>a. deploy[i] \in DeployType
    BY <1>a
  <2>b. \A d \in DeployType, t \in Templates \cup {Dummy}, m \in Nat : Written(d, t, m).exists = d.exists
    BY SMT, WrittenType
  <2>4. Written(deploy[i], deploy[i].template, n).exists = deploy[i].exists
    BY <2>2, <2>a, <2>b
  <2>5. deploy'[i].exists = deploy[i].exists /\ \A j \in Slots \ {i} : deploy'[j] = deploy[j]
    BY <1>a, <2>3, <2>4
  <2>6. deploy[i].replicas # 0 /\ deploy[i].exists
    BY SMT, <2>1 DEF IdleInv, CreatedFirst
  <2> QED
    BY <2>1, <2>5, <2>6, IdleFrame DEF IdleInv, CreatedFirst
<1>4. ASSUME NEW t \in Templates, NEW r \in config.replicas, Edit(t, r) PROVE IdleInv'
  <2>1. /\ UNCHANGED <<config, deploy, mseen, prep>>
        /\ milvus'.current = milvus.current /\ milvus'.rolling = milvus.rolling
    BY <1>4, <1>a DEF Edit, views, MilvusType
  <2>2. MView'.current = MView.current /\ MView'.rolling = MView.rolling
    BY <2>1 DEF MView
  <2> QED
    BY <2>1, <2>2 DEF IdleInv, LastIdle, SeenIdle, SeenCurrent, CreatedFirst, Slots, NoSlot
<1>5. CASE SyncMilvus
  <2>1. UNCHANGED <<config, deploy, milvus, prep>> /\ MView' = milvus
    BY <1>5 DEF SyncMilvus, objects, MView
  <2> QED
    BY <2>1 DEF IdleInv, LastIdle, SeenIdle, SeenCurrent, CreatedFirst, Slots, NoSlot
<1> QED
  BY <1>1, <1>2, <1>3, <1>4, <1>5

LEMMA IdleInit == Init => IdleInv
<1> SUFFICES ASSUME Init PROVE IdleInv
  OBVIOUS
<1>1. milvus.current = NoSlot /\ milvus.rolling = FALSE /\ mseen = milvus /\ prep = {}
  BY SMT DEF Init
<1>2. MView = milvus
  BY <1>1 DEF MView
<1>3. \A i \in Slots : deploy[i].replicas = 0
  BY DEF Init, Absent
<1> QED
  BY SMT, <1>1, <1>2, <1>3 DEF IdleInv, LastIdle, SeenIdle, SeenCurrent, CreatedFirst, Slots, NoSlot

LEMMA IdleAlways ==
  ASSUME DeploysSeen
  PROVE  Spec => [](TypeOK /\ IdleInv)
<1>1. Init => TypeOK /\ IdleInv
  BY TypeInit, IdleInit
<1>2. TypeOK /\ IdleInv /\ [Next]_vars => (TypeOK /\ IdleInv)'
  <2> SUFFICES ASSUME TypeOK, IdleInv, [Next]_vars PROVE TypeOK' /\ IdleInv'
    OBVIOUS
  <2>1. TypeOK'
    BY TypeStep
  <2>2. IdleInv'
    BY <2>1, WritesIdle, DeploysIdle, OthersIdle DEF Next
  <2> QED
    BY <2>1, <2>2
<1> QED
  BY <1>1, <1>2, PTL DEF Spec

\* Outside a rollout the last Deployment has no replicas (LastRolloutFinished,
\* and the comment in HandleRolling that relies on it), for every strategy, mode
\* and number of replicas, whatever edits, crashes and autoscalers do, and with
\* caches of the Milvus object and the pods that lag.
THEOREM LastAlwaysIdle ==
  ASSUME DeploysSeen
  PROVE  Spec => []LastIdle
<1>1. TypeOK /\ IdleInv => LastIdle
  BY DEF IdleInv
<1> QED
  BY <1>1, IdleAlways, PTL

-----------------------------------------------------------------------------
(* Templates and the end of a rollout.                                      *)

\* PrepareNewRollout is the only step that changes a template, and it finds the
\* Deployment without replicas, or with the template already.
LEMMA TemplateStep ==
  ASSUME TypeOK, IdleInv, DeploysSeen, Next, NEW i \in Slots, deploy'[i].template # deploy[i].template
  PROVE  deploy[i].replicas = 0
<1>a. DView = deploy /\ MView \in MilvusType /\ deploy \in [Slots -> DeployType]
  BY DeploysAreSeen, ViewTypes DEF TypeOK
<1>b. \A j \in Slots : deploy[j].template \in Templates \cup {Dummy} /\ deploy[j].replicas \in Nat
  BY <1>a DEF DeployType
<1>1. CASE HandleCreate
  <2>1. PICK j \in Slots : CreateDeploy(j)
    BY <1>1 DEF HandleCreate, Slots
  <2>2. ~deploy[j].exists /\ \A k \in Slots \ {j} : deploy'[k] = deploy[k]
    BY <1>a, <2>1 DEF CreateDeploy
  <2>3. i = j
    BY <2>2
  <2> QED
    BY <2>2, <2>3 DEF IdleInv, CreatedFirst
<1>2. CASE PrepareNewRollout
  <2>1. Current \in Slots /\ Last(Current) \in Slots /\ RolloutSlot \in {Current, Last(Current)}
    BY <1>2, CurrentSlot DEF PrepareNewRollout, Rolling, RolloutSlot
  <2>2. UpdateDeploy(RolloutSlot, Desired, deploy[RolloutSlot].replicas) /\ CanStartRollout
    BY <1>2, <1>a DEF PrepareNewRollout
  <2>3. Desired \in Templates \cup {Dummy} /\ RolloutSlot \in Slots
    BY <1>a, <2>1 DEF Desired, MilvusType
  <2>4. deploy'[RolloutSlot].template = Desired /\ \A j \in Slots \ {RolloutSlot} : deploy'[j] = deploy[j]
    BY ZenonT(60), <1>b, <2>2, <2>3, UpdateType
  <2>5. i = RolloutSlot /\ deploy[i].template # Desired
    BY <2>3, <2>4
  <2>6. ~ShouldRollback
    BY <1>a, <2>5 DEF ShouldRollback, RolloutSlot, IsPodTemplateChanged
  <2>7. ~MView.rolling
    BY <2>2, <2>6 DEF CanStartRollout
  <2>8. CASE deploy[Current].replicas > 0
    <3>1. i = Last(Current)
      BY <1>a, <2>5, <2>8 DEF RolloutSlot
    <3> QED
      BY <2>1, <2>7, <3>1 DEF IdleInv, SeenIdle, Current
  <2>9. CASE ~(deploy[Current].replicas > 0)
    <3>1. i = Current
      BY <1>a, <2>5, <2>6, <2>9 DEF RolloutSlot
    <3> QED
      BY SMT, <1>b, <2>1, <2>9, <3>1
  <2> QED
    BY <2>8, <2>9
<1>3. CASE HandleStop \/ ScaleDeployments
  <2>1. deploy' = deploy \/ \E j \in Slots, n \in Nat : UpdateDeploy(j, deploy[j].template, n)
    <3>1. CASE HandleStop
      BY <3>1, <1>a, CurrentSlot DEF HandleStop
    <3>2. CASE ScaleDeployments
      BY <3>2, <1>a, ScaleWrites
    <3> QED
      BY <1>3, <3>1, <3>2
  <2>2. ASSUME NEW j \in Slots, NEW n \in Nat, UpdateDeploy(j, deploy[j].template, n) PROVE FALSE
    <3>1. deploy'[j].template = deploy[j].template /\ \A q \in Slots \ {j} : deploy'[q] = deploy[q]
      BY <1>b, <2>2, UpdateType
    <3> QED
      BY <3>1
  <2> QED
    BY <2>1, <2>2
<1>4. ASSUME NEW j \in Slots, SyncStatus(j) PROVE FALSE
  BY <1>4, <1>a DEF SyncStatus, DeployType
<1>5. ASSUME NEW j \in Slots, NEW n \in HpaMin..HpaMax, AutoScale(j, n) PROVE FALSE
  <2>1. n \in Nat
    BY SMT, RolloutAssumption
  <2>2. deploy' = [deploy EXCEPT ![j] = Written(deploy[j], deploy[j].template, n)]
    BY <1>5 DEF AutoScale
  <2>3. deploy[j] \in DeployType /\ deploy[j].template \in Templates \cup {Dummy}
    BY <1>a, <1>b
  <2>4. Written(deploy[j], deploy[j].template, n).template = deploy[j].template
    BY ZenonT(60), <2>1, <2>3, WrittenType
  <2> QED
    BY <1>a, <2>2, <2>4
<1>6. CASE \/ MarkFirstGroup \/ FinishRollout \/ SetRolling \/ ReconcileHPAs \/ Crash
           \/ (\E t \in Templates, r \in config.replicas : Edit(t, r)) \/ SyncMilvus \/ SyncDeploys \/ SyncPods
           \/ \E j \in Slots : ScalePods(j) \/ PodReady(j) \/ PodGone(j) \/ PodUnready(j)
  <2>1. deploy' = deploy
    BY <1>6 DEF MarkFirstGroup, FinishRollout, SetRolling, ReconcileHPAs, Crash, Edit, SyncMilvus, SyncDeploys,
       SyncPods, ScalePods, PodReady, PodGone, PodUnready, objects
  <2> QED
    BY <2>1
<1> QED
  BY <1>1, <1>2, <1>3, <1>4, <1>5, <1>6 DEF Next

\* The template of a Deployment that has replicas never changes
\* (PrepareNewRollout): pods are replaced by moving replicas between the two.
THEOREM TemplateIsFixed ==
  ASSUME DeploysSeen
  PROVE  Spec => TemplateFixedWhileUsed
<1>1. TypeOK /\ IdleInv /\ [Next]_vars
        => [\A i \in Slots : deploy'[i].template # deploy[i].template => deploy[i].replicas = 0]_vars
  BY TemplateStep
<1>2. Spec => [](TypeOK /\ IdleInv) /\ [][Next]_vars
  BY IdleAlways, PTL DEF Spec
<1> QED
  BY <1>1, <1>2, PTL DEF TemplateFixedWhileUsed

\* The status of a Deployment that shows only updated pods, and is of its
\* generation, is right about the old ones.
OldKnown ==
  \A i \in Slots : deploy[i].observed /\ deploy[i].total = deploy[i].updated => pods[i].old = 0

\* A write that leaves the status observed changes nothing.
LEMMA WrittenStatus ==
  ASSUME NEW d \in DeployType, NEW t \in Templates \cup {Dummy}, NEW n \in Nat
  PROVE  /\ Written(d, t, n).observed => d.observed /\ t = d.template
         /\ Written(d, t, n).total = d.total /\ Written(d, t, n).updated = d.updated
<1> DEFINE o == d.observed /\ t = d.template /\ n = d.replicas
<1>1. Written(d, t, n) = [d EXCEPT !.template = t, !.replicas = n, !.observed = o]
  BY DEF Written
<1>2. o => d.observed /\ t = d.template
  OBVIOUS
<1> HIDE DEF o
<1>3. /\ Written(d, t, n).observed = o
      /\ Written(d, t, n).total = d.total /\ Written(d, t, n).updated = d.updated
  BY <1>1 DEF DeployType
<1> QED
  BY <1>2, <1>3

LEMMA UpdateOld ==
  ASSUME TypeOK, OldKnown, NEW i \in Slots, NEW t \in Templates \cup {Dummy}, NEW n \in Nat, UpdateDeploy(i, t, n)
  PROVE  OldKnown'
<1>1. deploy[i] \in DeployType
  BY DEF TypeOK
<1>2. /\ deploy'[i] = Written(deploy[i], t, n)
      /\ \A j \in Slots \ {i} : deploy'[j] = deploy[j] /\ pods'[j] = pods[j]
      /\ t = deploy[i].template => pods' = pods
  BY SMT, UpdateType
<1>3. deploy'[i].observed /\ deploy'[i].total = deploy'[i].updated => pods'[i].old = 0
  <2> DEFINE d == Written(deploy[i], t, n)
  <2>1. /\ d.observed => deploy[i].observed /\ t = deploy[i].template
        /\ d.total = deploy[i].total /\ d.updated = deploy[i].updated
    BY ZenonT(60), <1>1, WrittenStatus
  <2> HIDE DEF d
  <2> QED
    BY ZenonT(60), <1>2, <2>1 DEF OldKnown, d
<1> QED
  BY SMT, <1>2, <1>3 DEF OldKnown, Slots

LEMMA OldStep ==
  ASSUME TypeOK, OldKnown, [Next]_vars
  PROVE  OldKnown'
<1>a. /\ DView \in [Slots -> DeployType] /\ MView \in MilvusType
      /\ deploy \in [Slots -> DeployType] /\ pods \in [Slots -> PodsType]
  BY ViewTypes DEF TypeOK
<1>b. \A j \in Slots : /\ DView[j].template \in Templates \cup {Dummy} /\ DView[j].replicas \in Nat
                       /\ deploy[j].template \in Templates \cup {Dummy} /\ deploy[j].replicas \in Nat
  BY <1>a DEF DeployType
<1>1. CASE HandleCreate
  <2>1. PICK j \in Slots : CreateDeploy(j)
    BY <1>1 DEF HandleCreate, Slots
  <2>2. deploy'[j].observed = FALSE /\ pods' = pods /\ \A k \in Slots \ {j} : deploy'[k] = deploy[k]
    BY <1>a, <2>1 DEF CreateDeploy, Absent
  <2> QED
    BY <2>2 DEF OldKnown, Slots
<1>2. CASE HandleStop \/ ScaleDeployments \/ PrepareNewRollout
  <2>1. UNCHANGED <<deploy, pods>>
        \/ \E j \in Slots, t \in Templates \cup {Dummy}, n \in Nat : UpdateDeploy(j, t, n)
    <3>1. CASE HandleStop
      <4>1. UNCHANGED <<deploy, pods>> \/ \E j \in Slots : UpdateDeploy(j, DView[j].template, 0)
        BY <3>1, CurrentSlot DEF HandleStop
      <4> QED
        BY <1>b, <4>1
    <3>2. CASE ScaleDeployments
      BY <3>2, <1>b, ScaleWrites
    <3>3. CASE PrepareNewRollout
      <4>1. RolloutSlot \in Slots
        BY <3>3, CurrentSlot DEF PrepareNewRollout, Rolling, RolloutSlot
      <4>2. Desired \in Templates \cup {Dummy} /\ DView[RolloutSlot].replicas \in Nat
        BY <1>a, <1>b, <4>1 DEF Desired, MilvusType
      <4> QED
        BY <3>3, <4>1, <4>2 DEF PrepareNewRollout
    <3> QED
      BY <1>2, <3>1, <3>2, <3>3
  <2>2. CASE UNCHANGED <<deploy, pods>>
    BY <2>2 DEF OldKnown, Slots
  <2> QED
    BY <2>1, <2>2, UpdateOld
<1>3. ASSUME NEW j \in Slots, SyncStatus(j) PROVE OldKnown'
  <2>1. pods[j].old \in Nat /\ pods[j].starting \in Nat /\ pods[j].ready \in Nat
    BY <1>a DEF PodsType
  <2>2. /\ deploy'[j].total = Live(pods[j]) /\ deploy'[j].updated = pods[j].starting + pods[j].ready
        /\ pods' = pods /\ \A k \in Slots \ {j} : deploy'[k] = deploy[k]
    BY <1>3, <1>a DEF SyncStatus, DeployType
  <2>3. deploy'[j].total = deploy'[j].updated => pods[j].old = 0
    BY SMT, <2>1, <2>2 DEF Live
  <2> QED
    BY ZenonT(60), <2>2, <2>3 DEF OldKnown, Slots
<1>4. ASSUME NEW j \in Slots, NEW n \in HpaMin..HpaMax, AutoScale(j, n) PROVE OldKnown'
  <2>1. n \in Nat
    BY SMT, RolloutAssumption
  <2>2. deploy' = [deploy EXCEPT ![j] = Written(deploy[j], deploy[j].template, n)] /\ pods' = pods
    BY <1>4 DEF AutoScale
  <2>3. deploy'[j] = Written(deploy[j], deploy[j].template, n) /\ \A k \in Slots \ {j} : deploy'[k] = deploy[k]
    BY <1>a, <2>2
  <2>4. deploy[j] \in DeployType /\ deploy[j].template \in Templates \cup {Dummy}
    BY <1>a, <1>b
  <2>5. /\ deploy'[j].observed => deploy[j].observed
        /\ deploy'[j].total = deploy[j].total /\ deploy'[j].updated = deploy[j].updated
    BY SMT, <2>1, <2>3, <2>4, WrittenStatus
  <2>6. deploy'[j].observed /\ deploy'[j].total = deploy'[j].updated => pods'[j].old = 0
    BY <2>2, <2>5 DEF OldKnown
  <2> QED
    BY SMT, <2>2, <2>3, <2>6 DEF OldKnown, Slots
<1>5. ASSUME NEW j \in Slots, ScalePods(j) \/ PodReady(j) \/ PodGone(j) \/ PodUnready(j) PROVE OldKnown'
  <2>1. deploy' = deploy /\ pods'[j].old \in {0, pods[j].old} /\ \A k \in Slots \ {j} : pods'[k] = pods[k]
    <3>1. CASE ScalePods(j)
      BY <3>1, <1>a DEF ScalePods, ScaledPods
    <3>2. CASE PodReady(j) \/ PodGone(j) \/ PodUnready(j)
      BY SMT, <3>2, <1>a DEF PodReady, PodGone, PodUnready, PodsType
    <3> QED
      BY <1>5, <3>1, <3>2
  <2> QED
    BY SMT, <2>1 DEF OldKnown, Slots
<1>6. CASE \/ MarkFirstGroup \/ FinishRollout \/ SetRolling \/ ReconcileHPAs \/ Crash
           \/ (\E t \in Templates, r \in config.replicas : Edit(t, r)) \/ SyncMilvus \/ SyncDeploys \/ SyncPods
           \/ UNCHANGED vars
  <2>1. deploy' = deploy /\ pods' = pods
    BY <1>6 DEF MarkFirstGroup, FinishRollout, SetRolling, ReconcileHPAs, Crash, Edit, SyncMilvus, SyncDeploys,
       SyncPods, vars, objects
  <2> QED
    BY <2>1 DEF OldKnown, Slots
<1> QED
  BY <1>1, <1>2, <1>3, <1>4, <1>5, <1>6 DEF Next

\* The cache of the pods keeps up.  With one that lags, pods that are still
\* terminating are missed.
PodsSeen == \A c \in Configs : "pods" \notin c.lagging

\* Only LastRolloutFinished and HandleStop clear the rolling id.
LEMMA FinishStep ==
  ASSUME TypeOK, OldKnown, DeploysSeen, PodsSeen, Next, milvus.rolling, ~milvus'.rolling, milvus.replicas # 0
  PROVE  AllPods(pods[Last(milvus.current)]) = 0 /\ pods[milvus.current].old = 0
<1>a. DView = deploy /\ PView = pods /\ milvus \in MilvusType
  BY DeploysAreSeen DEF TypeOK, PodsSeen, PView
<1>1. CASE FinishRollout
  <2>1. MView = milvus /\ TwoDeploys /\ CurrentUp(Current) /\ LastDown(Last(Current))
    BY <1>1 DEF FinishRollout, WriteMilvus, Rolling, DeploymentShowsRolloutFinished
  <2>2. Current = milvus.current /\ Current \in Slots
    BY <2>1, CurrentSlot DEF Current
  <2>3. AllPods(pods[Last(Current)]) = 0
    BY <1>a, <2>1 DEF LastDown
  <2>4. deploy[Current].observed /\ deploy[Current].total = deploy[Current].updated
    BY <1>a, <2>1 DEF CurrentUp
  <2> QED
    BY <2>2, <2>3, <2>4 DEF OldKnown
<1>2. CASE HandleStop
  BY <1>2 DEF HandleStop, Stopping, WriteMilvus
<1>3. CASE MarkFirstGroup
  BY <1>3, <1>a DEF MarkFirstGroup, WriteMilvus, MilvusType
<1>4. CASE SetRolling
  BY <1>4, <1>a DEF SetRolling, MilvusType
<1>5. ASSUME NEW t \in Templates, NEW r \in config.replicas, Edit(t, r) PROVE FALSE
  BY <1>5, <1>a DEF Edit, MilvusType
<1>6. CASE \/ HandleCreate \/ PrepareNewRollout \/ ScaleDeployments \/ ReconcileHPAs \/ Crash
           \/ SyncMilvus \/ SyncDeploys \/ SyncPods
           \/ \E i \in Slots :
                \/ ScalePods(i) \/ SyncStatus(i) \/ PodReady(i) \/ PodGone(i) \/ PodUnready(i)
                \/ \E n \in HpaMin..HpaMax : AutoScale(i, n)
  <2>1. milvus' = milvus
    BY <1>6 DEF HandleCreate, CreateDeploy, PrepareNewRollout, ScaleDeployments, ReconcileHPAs, Crash, SyncMilvus,
       SyncDeploys, SyncPods, ScalePods, SyncStatus, PodReady, PodGone, PodUnready, AutoScale, objects
  <2> QED
    BY <2>1
<1> QED
  BY <1>1, <1>2, <1>3, <1>4, <1>5, <1>6 DEF Next

\* When LastRolloutFinished clears the rolling id, every pod is of the new
\* template: the other slot has none left, not even a terminating one.
THEOREM FinishedIsReplaced ==
  ASSUME DeploysSeen, PodsSeen
  PROVE  Spec => FinishedMeansReplaced
<1>1. Init => TypeOK /\ OldKnown
  <2>1. Init => OldKnown
    BY SMT DEF Init, OldKnown, NoPods, Slots
  <2> QED
    BY <2>1, TypeInit
<1>2. TypeOK /\ OldKnown /\ [Next]_vars => (TypeOK /\ OldKnown)'
  BY TypeStep, OldStep
<1>3. Spec => [](TypeOK /\ OldKnown) /\ [][Next]_vars
  BY <1>1, <1>2, PTL DEF Spec
<1>4. TypeOK /\ OldKnown /\ [Next]_vars
        => [(milvus.rolling /\ ~milvus'.rolling /\ milvus.replicas # 0)
              => /\ AllPods(pods[Last(milvus.current)]) = 0
                 /\ pods[milvus.current].old = 0]_vars
  BY FinishStep
<1> QED
  BY <1>3, <1>4, PTL DEF FinishedMeansReplaced

-----------------------------------------------------------------------------
(* How the replicas move.                                                   *)

\* What ScaleDeployments does to a component whose replicas the spec fixes.  With
\* an idle last Deployment the current one is filled up, after the pods of the
\* last one are gone if there is no surge, or shrinks by one.  Else both
\* Deployments have settled, and a step of the plan is made.
LEMMA ScaleCases ==
  ASSUME TypeOK, DeploysSeen, PodsSeen, config.mode = "static", ScaleDeployments
  PROVE  LET c == Current
             l == Last(Current)
             e == MView.replicas
             steps == RolloutSteps(config.strategy, e)
         IN  /\ c \in Slots /\ l \in Slots /\ c # l /\ Last(c) = l /\ Last(l) = c /\ e \in Nat /\ e # 0 /\ pods' = pods
             /\ deploy'[c].replicas \in Nat /\ deploy'[l].replicas \in Nat
             /\ \/ /\ deploy[l].replicas = 0 /\ deploy'[l] = deploy[l]
                   /\ \/ /\ deploy[c].replicas < e /\ deploy'[c].replicas = e
                         /\ steps.surge = 0 => AllPods(pods[l]) = 0
                      \/ deploy'[c].replicas = deploy[c].replicas - 1 /\ deploy'[c].replicas >= e
                \/ /\ AllPods(pods[c]) = deploy[c].replicas /\ AllPods(pods[l]) = deploy[l].replicas
                   /\ deploy[l].replicas # 0 /\ deploy'[l] = deploy[l]
                   /\ deploy'[c].replicas > deploy[c].replicas
                   /\ deploy'[c].replicas <= Max2(e, deploy[l].replicas)
                   /\ steps.surge = 0 \/ config.limits[deploy[c].template] = config.limits[deploy[l].template] =>
                        deploy'[c].replicas + deploy[l].replicas <= e + steps.surge
                \/ /\ AllPods(pods[c]) = deploy[c].replicas /\ AllPods(pods[l]) = deploy[l].replicas
                   /\ deploy'[c] = deploy[c] /\ deploy'[l].replicas < deploy[l].replicas
                   /\ steps.surge # 0 => deploy[l].replicas - deploy'[l].replicas <= Max2(1, steps.unavailable)
<1> DEFINE c == Current
           l == Last(Current)
           e == MView.replicas
           steps == RolloutSteps(config.strategy, e)
           a == PlanNextScaleAction(c, l)
           k == IF a.deploy = "current" THEN c ELSE l
           n == deploy[k].replicas + a.replicaChange
<1>a. DView = deploy /\ PView = pods /\ deploy \in [Slots -> DeployType]
  BY DeploysAreSeen DEF TypeOK, PodsSeen, PView
<1>b. c \in Slots /\ l \in Slots /\ c # l /\ Last(c) = l /\ Last(l) = c
  BY CurrentSlot, LastSlot DEF ScaleDeployments, Rolling
<1>c. \A i \in Slots : /\ deploy[i].template \in Templates \cup {Dummy} /\ deploy[i].replicas \in Nat
                       /\ deploy[i].available \in Nat
  BY <1>a DEF DeployType
<1>d. a.replicaChange # 0 /\ UpdateDeploy(k, deploy[k].template, n) /\ CheckCanScaleNow(c, l)
  BY <1>a DEF ScaleDeployments
<1>e. k \in Slots
  BY <1>b
<1>f. Fits(a, Planned(c), Planned(l))
  BY <1>b, NextPlanFits
<1>g. /\ Planned(c).replicas = deploy[c].replicas /\ Planned(c).available = deploy[c].available
      /\ Planned(l).replicas = deploy[l].replicas /\ Planned(l).available = deploy[l].available
      /\ Planned(c).limits = config.limits[deploy[c].template] /\ Planned(l).limits = config.limits[deploy[l].template]
  BY <1>a, <1>b, PlannedFacts DEF Planned
<1>h. a.deploy \in {"current", "last"} /\ a.replicaChange \in Int
  BY <1>f DEF Fits
<1>i. e \in Nat /\ e # 0 /\ config.strategy \in StrategyType
  <2>1. e \in Nat
    BY ExpectedNat
  <2>2. e # 0
    BY DEF ScaleDeployments, Rolling, Stopping
  <2> QED
    BY <2>1, <2>2, ConfigFacts DEF TypeOK
<1> HIDE DEF a
<1>1. n \in Nat /\ (k = l => deploy[l].replicas # 0)
  <2>1. /\ a.deploy = "current" => deploy[c].replicas + a.replicaChange \in Nat
        /\ a.deploy = "last" => deploy[l].replicas + a.replicaChange \in Nat /\ deploy[l].replicas # 0
    <3>1. /\ Planned(c).replicas \in Nat /\ Planned(l).replicas \in Nat
          /\ Planned(c).replicas = deploy[c].replicas /\ Planned(l).replicas = deploy[l].replicas
      BY <1>b, <1>c, <1>g
    <3> HIDE DEF c, l
    <3>2. /\ a.deploy = "current" => Planned(c).replicas + a.replicaChange \in Nat
          /\ a.deploy = "last" => Planned(l).replicas + a.replicaChange \in Nat /\ Planned(l).replicas # 0
      BY <1>d, <1>f, <3>1, FitsNat
    <3> QED
      BY <3>1, <3>2
  <2> QED
    BY <1>b, <1>h, <2>1
<1>2. deploy'[k].replicas = n /\ pods' = pods /\ \A j \in Slots \ {k} : deploy'[j] = deploy[j]
  <2> HIDE DEF k, n
  <2> QED
    BY <1>d, <1>e, <1>1, ScaleKeeps
<1>3. deploy'[c].replicas \in Nat /\ deploy'[l].replicas \in Nat
  <2>1. \A j \in Slots : deploy'[j].replicas \in Nat
    <3> HIDE DEF n, k
    <3> QED
      BY <1>c, <1>1, <1>2
  <2> QED
    BY <1>b, <2>1
<1>4. CheckScaleKind(l) = IF deploy[l].replicas > 0 THEN "rollout" ELSE "normal"
  BY SMT, <1>a, <1>i DEF CheckScaleKind
<1>5. steps.surge \in Nat /\ steps.unavailable \in Nat
  BY <1>i, RolloutStepsType
<1>6. CASE deploy[l].replicas = 0
  <2>1. a = PlanScaleForNormalState(e, Planned(c)) /\ CheckScaleKind(l) = "normal"
    BY SMT, <1>4, <1>6 DEF PlanNextScaleAction, a
  <2>2. k = c
    BY <1>b, <1>1, <1>6
  <2>3. deploy'[l] = deploy[l] /\ deploy'[c].replicas = deploy[c].replicas + a.replicaChange
    BY <1>b, <1>2, <2>2
  <2>4. (steps.surge = 0 /\ deploy[c].replicas < e) => DeploymentIsStable(l)
    BY <1>a, <1>d, <2>1 DEF CheckCanScaleNow
  <2>5. DeploymentIsStable(l) => AllPods(pods[l]) = 0
    BY <1>a, <1>6 DEF DeploymentIsStable
  <2>6. deploy[c].replicas \in Nat
    BY <1>b, <1>c
  <2> HIDE DEF n, k, c, l, e, steps
  <2>7. \/ deploy[c].replicas < e /\ deploy'[c].replicas = e
        \/ deploy'[c].replicas = deploy[c].replicas - 1 /\ deploy'[c].replicas >= e
    <3> DEFINE pc == Planned(c)
    <3>1. /\ deploy[c].replicas = pc.replicas
          /\ deploy'[c].replicas = pc.replicas + a.replicaChange
          /\ pc.replicas + a.replicaChange = deploy[c].replicas + a.replicaChange
          /\ pc.replicas - 1 = deploy[c].replicas - 1
      BY <1>g, <2>3
    <3>2. a = PlanScaleForNormalState(e, pc) /\ pc.replicas \in Nat /\ a.replicaChange # 0 /\ e \in Nat
      BY <1>d, <1>i, <2>1, <2>6, <3>1
    <3> HIDE DEF pc
    <3>3. \/ pc.replicas < e /\ pc.replicas + a.replicaChange = e
          \/ pc.replicas + a.replicaChange = pc.replicas - 1 /\ pc.replicas + a.replicaChange >= e
      BY <3>2, NormalPlanSteps
    <3> QED
      BY <3>1, <3>3
  <2> QED
    BY <1>b, <1>i, <1>2, <1>3, <1>6, <2>3, <2>4, <2>5, <2>7 DEF c, l, e, steps
<1>7. CASE deploy[l].replicas # 0
  <2>1. CheckScaleKind(l) = "rollout" /\ deploy[l].replicas > 0
    BY SMT, <1>b, <1>c, <1>4, <1>7
  <2>2. a = PlanScaleForRollout(e, config.strategy, Planned(c), Planned(l))
    BY <2>1 DEF PlanNextScaleAction, a
  <2>3. CheckDeploymentsStable(c, l, steps.surge = 0 /\ steps.unavailable > 0)
    BY <1>d, <2>1 DEF CheckCanScaleNow
  <2>4. AllPods(pods[c]) = deploy[c].replicas /\ AllPods(pods[l]) = deploy[l].replicas
    BY <1>a, <2>3 DEF CheckDeploymentsStable, SettledWithPending, DeploymentIsStable
  <2>5. \/ /\ a.deploy = "current" /\ a.replicaChange > 0
           /\ deploy[c].replicas + a.replicaChange <= Max2(e, deploy[l].replicas)
           /\ steps.surge = 0 \/ config.limits[deploy[c].template] = config.limits[deploy[l].template] =>
                deploy[c].replicas + a.replicaChange + deploy[l].replicas <= e + steps.surge
        \/ /\ a.deploy = "last" /\ a.replicaChange < 0
           /\ steps.surge # 0 => -a.replicaChange <= Max2(1, steps.unavailable)
    <3> DEFINE pc == Planned(c)
               pl == Planned(l)
    <3>1. /\ pc.replicas \in Nat /\ pc.available \in Nat
          /\ pl.replicas \in Nat /\ pl.available \in Nat /\ pl.replicas > 0
      BY <1>b, <1>c, <1>g, <2>1
    <3> HIDE DEF c, l, pc, pl, e
    <3>2. /\ a.replicaChange # 0 /\ a = PlanScaleForRollout(e, config.strategy, pc, pl)
          /\ config.strategy \in StrategyType /\ e \in Nat
      BY <1>d, <1>i, <2>2 DEF pc, pl
    <3>3. MoveBounded(PlanScaleForRollout(e, config.strategy, pc, pl), e, RolloutSteps(config.strategy, e), pc, pl)
      BY <3>1, <3>2, RolloutPlanBounds
    <3>4. MoveBounded(a, e, steps, pc, pl)
      BY <3>2, <3>3
    <3> HIDE DEF steps
    <3> QED
      BY <1>g, <3>4 DEF MoveBounded, pc, pl
  <2>6. deploy[c].replicas \in Nat /\ deploy[l].replicas \in Nat
    BY <1>b, <1>c
  <2>7. CASE a.deploy = "current"
    <3>1. deploy'[l] = deploy[l] /\ deploy'[c].replicas = deploy[c].replicas + a.replicaChange
      BY <1>b, <1>2, <2>7
    <3>2. deploy'[c].replicas > deploy[c].replicas
      <4>1. a.replicaChange > 0
        BY <2>5, <2>7
      <4> DEFINE x == a.replicaChange
                 r == deploy[c].replicas
      <4>2. x \in Int /\ x > 0 /\ r \in Nat /\ deploy'[c].replicas = r + x
        BY <1>h, <2>6, <3>1, <4>1
      <4> HIDE DEF x, r
      <4>3. r + x > r
        BY SMT, <4>2
      <4> QED
        BY <4>2, <4>3 DEF r
    <3> QED
      BY <1>b, <1>i, <1>2, <1>3, <1>7, <2>4, <2>5, <2>7, <3>1, <3>2
  <2>8. CASE a.deploy = "last"
    <3>1. deploy'[c] = deploy[c] /\ deploy'[l].replicas = deploy[l].replicas + a.replicaChange
      BY <1>b, <1>2, <2>8
    <3>2. a.replicaChange < 0 /\ (steps.surge # 0 => -a.replicaChange <= Max2(1, steps.unavailable))
      BY <2>5, <2>8
    <3>3. deploy'[l].replicas < deploy[l].replicas /\ deploy[l].replicas - deploy'[l].replicas = -a.replicaChange
      <4> DEFINE x == a.replicaChange
                 r == deploy[l].replicas
      <4>1. x \in Int /\ x < 0 /\ r \in Nat /\ deploy'[l].replicas = r + x
        BY <1>h, <2>6, <3>1, <3>2
      <4> HIDE DEF x, r
      <4>2. r + x < r /\ r - (r + x) = -x
        BY SMT, <4>1
      <4> QED
        BY <4>1, <4>2 DEF x, r
    <3> QED
      BY <1>b, <1>i, <1>2, <1>3, <2>4, <3>1, <3>2, <3>3
  <2> QED
    BY <1>h, <2>7, <2>8
<1> QED
  BY <1>6, <1>7

-----------------------------------------------------------------------------
(* A slot in use has its own template.                                      *)

\* The slots that something refers to, or that have replicas.
Used(i) ==
  \/ i = milvus.current \/ i = MView.current \/ deploy[i].replicas # 0
  \/ \E p \in prep : p.slot = i

\* A slot that is used has got a template of the spec in place of the dummy one,
\* unless it is the first, which is named before it is created.
TemplateGiven ==
  \A i \in Slots :
    /\ ~deploy[i].exists => deploy[i].template = Dummy
    /\ Used(i) => deploy[i].template # Dummy \/ (i = 0 /\ ~deploy[0].exists)

\* Steps that use no other slots, and leave the templates alone.
LEMMA GivenFrame ==
  ASSUME TemplateGiven, 
         \A i \in Slots : /\ Used(i)' => Used(i) \/ (i = 0 /\ ~deploy[0].exists)
                          /\ deploy'[i].template = deploy[i].template /\ deploy'[i].exists = deploy[i].exists
  PROVE  TemplateGiven'
<1>1. 0 \in Slots
  BY DEF Slots
<1> QED
  BY <1>1 DEF TemplateGiven, Slots

LEMMA GivenStep ==
  ASSUME TypeOK, IdleInv, DeploysSeen, TemplateGiven, [Next]_vars
  PROVE  TemplateGiven'
<1>a. /\ DView = deploy /\ MView \in MilvusType /\ milvus \in MilvusType /\ deploy \in [Slots -> DeployType]
      /\ prep \subseteq [milvus: MilvusType, slot: Slots]
  BY DeploysAreSeen, ViewTypes DEF TypeOK
<1>b. \A i \in Slots : deploy[i].template \in Templates \cup {Dummy} /\ deploy[i].replicas \in Nat
  BY <1>a DEF DeployType
<1>c. Desired \in Templates /\ Desired # Dummy
  BY <1>a, RolloutAssumption DEF Desired, MilvusType
<1>1. CASE MarkFirstGroup
  <2>1. /\ UNCHANGED <<config, deploy, mseen, prep>> /\ milvus' = [milvus EXCEPT !.current = 0]
        /\ \A i \in Slots : ~deploy[i].exists
    BY <1>1, <1>a DEF MarkFirstGroup, WriteMilvus, views
  <2>2. milvus'.current = 0 /\ MView' \in {MView, milvus'}
    BY <1>a, <2>1 DEF MilvusType, MView
  <2>3. \A i \in Slots : Used(i)' => Used(i) \/ (i = 0 /\ ~deploy[0].exists)
    BY <2>1, <2>2 DEF Used, Slots
  <2> QED
    BY <2>1, <2>3, GivenFrame
<1>2. CASE HandleCreate
  <2>1. PICK i \in Slots : CreateDeploy(i)
    BY <1>2 DEF HandleCreate, Slots
  <2>2. UNCHANGED <<config, milvus, mseen, prep>> /\ ~deploy[i].exists
    BY <2>1 DEF CreateDeploy, views
  <2>3. /\ deploy'[i].exists /\ deploy'[i].replicas = 0 /\ \A j \in Slots \ {i} : deploy'[j] = deploy[j]
        /\ deploy'[i].template = IF i = 0 THEN Desired ELSE Dummy
    BY <1>a, <2>1 DEF CreateDeploy, Absent
  <2>4. \A j \in Slots : Used(j)' => Used(j)
    BY ZenonT(60), <2>2, <2>3 DEF Used, MView, Slots
  <2>5. i # 0 => ~Used(i)
    BY <2>2 DEF TemplateGiven
  <2>6. 0 \in Slots /\ (i # 0 => deploy'[0] = deploy[0])
    BY <2>3 DEF Slots
  <2> SUFFICES ASSUME NEW j \in Slots
               PROVE  /\ ~deploy'[j].exists => deploy'[j].template = Dummy
                      /\ Used(j)' => deploy'[j].template # Dummy \/ (j = 0 /\ ~deploy'[0].exists)
    BY DEF TemplateGiven, Slots
  <2>7. CASE j = i
    BY <1>c, <2>3, <2>4, <2>5, <2>7
  <2>8. CASE j # i
    BY ZenonT(60), <2>3, <2>4, <2>6, <2>8 DEF TemplateGiven
  <2> QED
    BY <2>7, <2>8
<1>3. CASE HandleStop
  <2>1. TwoDeploys /\ UNCHANGED <<config, mseen, prep>>
    BY <1>3 DEF HandleStop, views
  <2>2. CASE \E i \in Slots : UpdateDeploy(i, DView[i].template, 0) /\ UNCHANGED milvus
    <3>1. PICK i \in Slots : UpdateDeploy(i, deploy[i].template, 0) /\ UNCHANGED milvus
      BY <1>a, <2>2
    <3>2. /\ deploy'[i].replicas = 0 /\ deploy'[i].exists = deploy[i].exists /\ deploy'[i].template = deploy[i].template
          /\ \A j \in Slots \ {i} : deploy'[j] = deploy[j]
      BY <3>1, StopWrites
    <3>3. \A j \in Slots : Used(j)' => Used(j)
      BY ZenonT(60), <2>1, <3>1, <3>2 DEF Used, MView, Slots
    <3> QED
      BY <3>2, <3>3, GivenFrame
  <2>3. CASE WriteMilvus(MView, [MView EXCEPT !.rolling = FALSE]) /\ UNCHANGED <<deploy, pods>>
    <3>1. milvus' = [milvus EXCEPT !.rolling = FALSE] /\ deploy' = deploy
      BY <2>3 DEF WriteMilvus
    <3>2. milvus'.current = milvus.current /\ MView' \in {MView, milvus'}
      BY <1>a, <2>1, <3>1 DEF MilvusType, MView
    <3>3. \A j \in Slots : Used(j)' => Used(j)
      BY <2>1, <3>1, <3>2 DEF Used, Slots
    <3> QED
      BY <3>1, <3>3, GivenFrame
  <2> QED
    BY <1>3, <2>1, <2>2, <2>3, CurrentSlot DEF HandleStop
<1>4. CASE FinishRollout
  <2>1. UNCHANGED <<config, deploy, mseen, prep>> /\ milvus' = [milvus EXCEPT !.rolling = FALSE]
    BY <1>4, <1>a DEF FinishRollout, WriteMilvus, views
  <2>2. milvus'.current = milvus.current /\ MView' \in {MView, milvus'}
    BY <1>a, <2>1 DEF MilvusType, MView
  <2>3. \A j \in Slots : Used(j)' => Used(j)
    BY <2>1, <2>2 DEF Used, Slots
  <2> QED
    BY <2>1, <2>3, GivenFrame
<1>5. CASE PrepareNewRollout
  <2> DEFINE k == RolloutSlot
  <2>1. k \in Slots
    BY <1>5, CurrentSlot DEF PrepareNewRollout, Rolling, RolloutSlot
  <2>2. /\ TwoDeploys /\ UNCHANGED <<config, milvus, mseen>> /\ UpdateDeploy(k, Desired, deploy[k].replicas)
        /\ prep' = {[milvus |-> MView, slot |-> k]}
    BY <1>5, <1>a DEF PrepareNewRollout, Rolling, views
  <2> HIDE DEF k
  <2>3. /\ deploy'[k].replicas = deploy[k].replicas /\ deploy'[k].template = Desired
        /\ deploy'[k].exists = deploy[k].exists /\ \A j \in Slots \ {k} : deploy'[j] = deploy[j]
    BY ZenonT(60), <1>b, <1>c, <2>1, <2>2, UpdateType
  <2>4. \A j \in Slots : deploy[j].exists
    BY <1>a, <2>2 DEF TwoDeploys
  <2>5. \A p \in prep' : p.slot = k
    BY SMT, <2>2
  <2>6. \A j \in Slots \ {k} : Used(j)' => Used(j)
    BY <2>2, <2>3, <2>5 DEF Used, MView, Slots
  <2> QED
    BY <1>c, <2>1, <2>3, <2>4, <2>6 DEF TemplateGiven, Slots
<1>6. CASE SetRolling
  <2>1. PICK p \in prep :
          /\ milvus' = IF p.milvus = milvus
                       THEN [milvus EXCEPT !.current = p.slot, !.rolling = TRUE]
                       ELSE milvus
          /\ prep' = {} /\ UNCHANGED <<config, deploy, mseen>>
    BY <1>6 DEF SetRolling, views
  <2>2. milvus'.current \in {milvus.current, p.slot} /\ MView' \in {MView, milvus'}
    BY <1>a, <2>1 DEF MilvusType, MView
  <2>3. \A j \in Slots : Used(j)' => Used(j)
    BY <2>1, <2>2 DEF Used, Slots
  <2> QED
    BY <2>1, <2>3, GivenFrame
<1>7. CASE ScaleDeployments
  <2>1. PICK i \in Slots, n \in Nat :
           /\ UpdateDeploy(i, deploy[i].template, n)
           /\ i \in {Current, Last(Current)} /\ Current \in Slots
           /\ i = Last(Current) => deploy[i].replicas # 0
    BY <1>7, <1>a, ScaleWrites
  <2>2. UNCHANGED <<config, milvus, mseen, prep>>
    BY <1>7 DEF ScaleDeployments, views
  <2>3. /\ deploy'[i].exists = deploy[i].exists /\ deploy'[i].template = deploy[i].template
        /\ \A j \in Slots \ {i} : deploy'[j] = deploy[j]
    BY <1>b, <2>1, UpdateType
  <2>4. Used(i)
    BY <2>1 DEF Used, Current
  <2>5. \A j \in Slots : Used(j)' => Used(j)
    BY <2>2, <2>3, <2>4 DEF Used, MView, Slots
  <2> QED
    BY <2>3, <2>5, GivenFrame
<1>8. ASSUME NEW i \in Slots, SyncStatus(i) \/ \E n \in HpaMin..HpaMax : AutoScale(i, n) PROVE TemplateGiven'
  <2>1. UNCHANGED <<config, milvus, mseen, prep>>
    BY <1>8 DEF SyncStatus, AutoScale, views
  <2>2. \A j \in Slots : /\ deploy'[j].template = deploy[j].template /\ deploy'[j].exists = deploy[j].exists
                         /\ deploy[j].replicas = 0 => deploy'[j].replicas = 0
    <3>1. CASE SyncStatus(i)
      BY <1>a, <3>1 DEF SyncStatus, DeployType
    <3>2. ASSUME NEW n \in HpaMin..HpaMax, AutoScale(i, n)
          PROVE  \A j \in Slots : /\ deploy'[j].template = deploy[j].template /\ deploy'[j].exists = deploy[j].exists
                                  /\ deploy[j].replicas = 0 => deploy'[j].replicas = 0
      <4>1. deploy[i].replicas > 0 /\ deploy' = [deploy EXCEPT ![i] = Written(deploy[i], deploy[i].template, n)]
        BY <3>2 DEF AutoScale
      <4>2. n \in Nat /\ deploy[i] \in DeployType /\ deploy[i].template \in Templates \cup {Dummy}
        BY SMT, <1>a, <1>b, RolloutAssumption
      <4>3. /\ Written(deploy[i], deploy[i].template, n).exists = deploy[i].exists
            /\ Written(deploy[i], deploy[i].template, n).template = deploy[i].template
        <5> DEFINE d == deploy[i]
                   t == deploy[i].template
        <5> HIDE DEF d, t
        <5>1. d \in DeployType /\ t \in Templates \cup {Dummy} /\ n \in Nat
          BY <4>2 DEF d, t
        <5>2. Written(d, t, n).exists = d.exists /\ Written(d, t, n).template = t
          BY SMT, <5>1, WrittenType
        <5> QED
          BY <5>2 DEF d, t
      <4>4. deploy[i].replicas # 0
        BY SMT, <4>1
      <4> QED
        BY <1>a, <4>1, <4>3, <4>4
    <3> QED
      BY <1>8, <3>1, <3>2
  <2>3. \A j \in Slots : Used(j)' => Used(j)
    BY <2>1, <2>2 DEF Used, MView, Slots
  <2> QED
    BY <2>2, <2>3, GivenFrame
<1>9. ASSUME NEW t \in Templates, NEW r \in config.replicas, Edit(t, r) PROVE TemplateGiven'
  <2>1. UNCHANGED <<config, deploy, mseen, prep>> /\ milvus'.current = milvus.current
    BY <1>9, <1>a DEF Edit, views, MilvusType
  <2>2. MView'.current = MView.current
    BY <2>1 DEF MView
  <2>3. \A j \in Slots : Used(j)' => Used(j)
    BY <2>1, <2>2 DEF Used, Slots
  <2> QED
    BY <2>1, <2>3, GivenFrame
<1>10. CASE \/ Crash \/ ReconcileHPAs \/ SyncMilvus \/ SyncDeploys \/ SyncPods \/ UNCHANGED vars
            \/ \E i \in Slots : ScalePods(i) \/ PodReady(i) \/ PodGone(i) \/ PodUnready(i)
  <2>1. UNCHANGED <<config, milvus, deploy>> /\ mseen' \in {mseen, milvus} /\ prep' \in {prep, {}}
    BY <1>10 DEF Crash, ReconcileHPAs, SyncMilvus, SyncDeploys, SyncPods, ScalePods, PodReady, PodGone, PodUnready,
       vars, objects, views
  <2>2. MView' \in {MView, milvus}
    BY <2>1 DEF MView
  <2>3. \A j \in Slots : Used(j)' => Used(j)
    BY <2>1, <2>2 DEF Used, Slots
  <2> QED
    BY <2>1, <2>3, GivenFrame
<1> QED
  BY <1>1, <1>2, <1>3, <1>4, <1>5, <1>6, <1>7, <1>8, <1>9, <1>10 DEF Next

LEMMA GivenInit == Init => TemplateGiven
<1> SUFFICES ASSUME Init PROVE TemplateGiven
  OBVIOUS
<1>1. milvus.current = NoSlot /\ MView = milvus /\ prep = {}
  BY SMT DEF Init, MView
<1>2. \A i \in Slots : deploy[i].template = Dummy /\ deploy[i].replicas = 0
  BY DEF Init, Absent
<1>3. \A i \in Slots : i # NoSlot
  BY SMT DEF Slots, NoSlot
<1> QED
  BY <1>1, <1>2, <1>3 DEF TemplateGiven, Used
=============================================================================
