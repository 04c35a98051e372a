------------------------ MODULE TwoDeployPodsProofs -------------------------
(***************************************************************************)
(* What moving the replicas between the two Deployments of a component     *)
(* does to its pods: it keeps the guaranteed number of them serving        *)
(* (ServedInv) and adds no more of them than the surge allows (SurgeInv).  *)
(***************************************************************************)
EXTENDS TwoDeployRolloutProofs

\* Zenon proves what follows; the steps that need arithmetic cite SMT.
USE Zenon

-----------------------------------------------------------------------------
(* Serving pods.  A component that is asked to have no replicas is being      *)
(* stopped, and nothing is promised from then on.                            *)

Served == config.mode = "static" /\ floor # 0

\* Nobody has asked for fewer replicas.
FloorKnown == floor <= milvus.replicas /\ floor <= MView.replicas

\* Outside a rollout, as the Milvus object or the copy that is read has it, the
\* last Deployment has no pods, and the current one has none before it is scaled.
EmptyBeside(m) ==
  m.current \in Slots /\ ~m.rolling =>
    /\ Live(pods[Last(m.current)]) = 0
    /\ deploy[m.current].replicas = 0 => Live(pods[m.current]) = 0

\* No pod runs a template that its Deployment no longer has, and there are none
\* without a Deployment.
PodsUpToDate == \A i \in Slots : pods[i].old = 0 /\ (~deploy[i].exists => Live(pods[i]) = 0)

\* The ready pods that a Deployment keeps.
Keeps(i) == Min2(pods[i].ready, deploy[i].replicas)

\* A Deployment has more pods than replicas only when the replicas, with the
\* ready pods that the other one keeps, are enough.
Enough ==
  \A i \in Slots :
    Live(pods[i]) > deploy[i].replicas => deploy[i].replicas + Keeps(Last(i)) + failures >= Guaranteed

ServedInv ==
  Served => FloorKnown /\ EmptyBeside(milvus) /\ EmptyBeside(MView) /\ PodsUpToDate /\ Enough

\* The numbers of a component that is served.
LEMMA ServedFacts ==
  ASSUME TypeOK, Served
  PROVE  /\ floor \in Nat /\ floor >= 1 /\ milvus.replicas \in Nat /\ MView.replicas \in Nat /\ failures \in Nat
         /\ Guaranteed \in Int /\ Guaranteed <= floor
         /\ \A e \in Nat : floor <= e => Guaranteed <= e - RolloutSteps(config.strategy, e).unavailable
<1>1. config \in Configs /\ config.mode = "static" /\ floor # 0
  BY DEF TypeOK, Served
<1>2. config.replicas \subseteq Nat /\ config.strategy \in StrategyType /\ config.maxFailures \in Nat
  BY <1>1, ConfigFacts
<1>3. ValidRollingUpdate(config.strategy)
  BY <1>1, RolloutAssumption DEF IsConfig
<1>4. floor \in Nat /\ milvus.replicas \in Nat /\ MView.replicas \in Nat
  BY <1>2, ViewTypes DEF TypeOK, MilvusType
<1>5. failures \in Nat
  BY SMT, <1>2 DEF TypeOK
<1>6. Guaranteed = floor - RolloutSteps(config.strategy, floor).unavailable
  BY <1>1 DEF Guaranteed
<1>7. RolloutSteps(config.strategy, floor).unavailable \in Nat
  BY <1>2, <1>4, RolloutStepsType
<1>8. Guaranteed \in Int /\ Guaranteed <= floor
  BY SMT, <1>4, <1>6, <1>7
<1>9. floor >= 1
  BY SMT, <1>1, <1>4
<1>10. \A e \in Nat : floor <= e => Guaranteed <= e - RolloutSteps(config.strategy, e).unavailable
  BY <1>1, <1>2, <1>3, <1>4, <1>6, KeptGrows
<1> QED
  BY <1>4, <1>5, <1>8, <1>9, <1>10

\* The numbers of a slot.
LEMMA SlotFacts ==
  ASSUME TypeOK, NEW i \in Slots
  PROVE  /\ pods[i].old \in Nat /\ pods[i].starting \in Nat /\ pods[i].ready \in Nat /\ pods[i].dying \in Nat
         /\ deploy[i].replicas \in Nat /\ Live(pods[i]) \in Nat /\ Keeps(i) \in Nat
<1>1. pods[i] \in PodsType /\ deploy[i] \in DeployType
  BY DEF TypeOK
<1>2. /\ pods[i].old \in Nat /\ pods[i].starting \in Nat /\ pods[i].ready \in Nat /\ pods[i].dying \in Nat
      /\ deploy[i].replicas \in Nat
  BY <1>1 DEF PodsType, DeployType
<1>3. Live(pods[i]) \in Nat
  <2>1. \A x, y, z \in Nat : x + y + z \in Nat
    BY SMT
  <2> QED
    BY <1>2, <2>1 DEF Live
<1> QED
  BY <1>2, <1>3 DEF Keeps, Min2

\* The pods of a Deployment that is scaled: as many as replicas, the ready ones first.
LEMMA ScaledFacts ==
  ASSUME NEW p \in PodsType, NEW n \in Nat
  PROVE  /\ ScaledPods(p, n).old = 0 /\ ScaledPods(p, n).ready = Min2(p.ready, n)
         /\ Live(ScaledPods(p, n)) = n
<1> DEFINE r == Min2(p.ready, n)
           s == Max2(0, n - r)
           q == ScaledPods(p, n)
<1>1. q.old = 0 /\ q.ready = r /\ q.starting = s
  BY DEF ScaledPods
<1>2. p.ready \in Nat
  BY DEF PodsType
<1>3. r \in Int /\ r <= n
  BY SMT, <1>2 DEF Min2
<1> HIDE DEF r, q
<1>4. s = n - r
  BY SMT, <1>3 DEF Max2
<1>5. 0 + (n - r) + r = n
  BY SMT, <1>3
<1>6. Live(q) = n
  BY <1>1, <1>4, <1>5 DEF Live
<1> QED
  BY <1>1, <1>6 DEF r, q

\* A component that is served is one that was before.
LEMMA ServedBefore ==
  ASSUME TypeOK, config' = config, floor' = floor \/ \E r \in config.replicas : floor' = Min2(floor, r), Served'
  PROVE  Served
<1>1. config \in Configs /\ config.mode = "static" /\ floor' # 0
  BY DEF TypeOK, Served
<1>2. floor \in Nat /\ config.replicas \subseteq Nat
  BY <1>1, ConfigFacts DEF TypeOK
<1>3. floor # 0
  BY SMT, <1>1, <1>2 DEF Min2
<1> QED
  BY <1>1, <1>3 DEF Served

\* Steps that leave the replicas, the pods and the Milvus object alone.
LEMMA ServedFrame ==
  ASSUME TypeOK, ServedInv, UNCHANGED <<config, milvus, mseen, pods, failures, floor>>,
         \A i \in Slots : deploy'[i].replicas = deploy[i].replicas /\ (deploy[i].exists => deploy'[i].exists)
  PROVE  ServedInv'
<1> SUFFICES ASSUME Served PROVE FloorKnown' /\ EmptyBeside(milvus)' /\ EmptyBeside(MView)' /\ PodsUpToDate' /\ Enough'
  BY ServedBefore DEF ServedInv
<1>1. FloorKnown /\ EmptyBeside(milvus) /\ EmptyBeside(MView) /\ PodsUpToDate /\ Enough
  BY DEF ServedInv
<1>2. MView' = MView
  BY DEF MView
<1>3. FloorKnown' /\ EmptyBeside(milvus)' /\ EmptyBeside(MView)' /\ PodsUpToDate'
  BY <1>1, <1>2 DEF FloorKnown, EmptyBeside, PodsUpToDate, Slots
<1>4. \A i \in Slots : Keeps(i)' = Keeps(i)
  BY DEF Keeps
<1>5. Guaranteed' = Guaranteed
  BY DEF Guaranteed
<1>6. Enough'
  BY <1>1, <1>4, <1>5, LastSlot DEF Enough, Slots
<1> QED
  BY <1>3, <1>6

\* Writes of the Milvus object and of its copy.
LEMMA ServedWrite ==
  ASSUME TypeOK, ServedInv, UNCHANGED <<config, deploy, pods, failures, floor>>,
         Served => FloorKnown' /\ EmptyBeside(milvus)' /\ EmptyBeside(MView)'
  PROVE  ServedInv'
<1> SUFFICES ASSUME Served PROVE PodsUpToDate' /\ Enough'
  BY ServedBefore DEF ServedInv
<1>1. PodsUpToDate /\ Enough
  BY DEF ServedInv
<1>2. \A i \in Slots : Keeps(i)' = Keeps(i)
  BY DEF Keeps
<1>3. Guaranteed' = Guaranteed
  BY DEF Guaranteed
<1> QED
  BY <1>1, <1>2, <1>3, LastSlot DEF PodsUpToDate, Enough, Slots

\* Steps that write the Milvus object, or bring its copy up to date.
LEMMA WritesServed ==
  ASSUME TypeOK, IdleInv, ServedInv, DeploysSeen, PodsSeen, MarkFirstGroup \/ FinishRollout \/ SetRolling \/ SyncMilvus
  PROVE  ServedInv'
<1>a. DView = deploy /\ PView = pods /\ MView \in MilvusType /\ milvus \in MilvusType
  BY DeploysAreSeen, ViewTypes DEF TypeOK, PodsSeen, PView
<1>b. UNCHANGED <<config, deploy, pods, failures, floor>>
  BY DEF MarkFirstGroup, FinishRollout, SetRolling, SyncMilvus, objects, history
<1> SUFFICES ASSUME Served PROVE FloorKnown' /\ EmptyBeside(milvus)' /\ EmptyBeside(MView)'
  BY <1>b, ServedWrite
<1>c. FloorKnown /\ EmptyBeside(milvus) /\ EmptyBeside(MView) /\ PodsUpToDate
  BY DEF ServedInv
<1>1. CASE MarkFirstGroup
  <2>1. mseen' = mseen /\ milvus' = [milvus EXCEPT !.current = 0] /\ \A i \in Slots : ~deploy[i].exists
    BY <1>1, <1>a DEF MarkFirstGroup, WriteMilvus, views
  <2>2. \A i \in Slots : Live(pods[i]) = 0
    BY <1>c, <2>1 DEF PodsUpToDate
  <2>3. milvus'.replicas = milvus.replicas
    BY <1>a, <2>1 DEF MilvusType
  <2>4. MView' \in {MView, milvus'}
    BY <1>b, <2>1 DEF MView
  <2>5. FloorKnown'
    BY <1>b, <1>c, <2>3, <2>4 DEF FloorKnown
  <2>6. EmptyBeside(milvus)' /\ EmptyBeside(MView)'
    BY <1>b, <2>2, LastSlot DEF EmptyBeside, Slots
  <2> QED
    BY <2>5, <2>6
<1>2. CASE FinishRollout
  <2>1. /\ mseen' = mseen /\ MView = milvus /\ milvus' = [milvus EXCEPT !.rolling = FALSE]
        /\ TwoDeploys /\ LastDown(Last(Current)) /\ CurrentUp(Current)
    BY <1>2, <1>a DEF FinishRollout, WriteMilvus, views, Rolling, DeploymentShowsRolloutFinished
  <2>2. milvus'.replicas = milvus.replicas /\ milvus'.current = milvus.current
    BY <1>a, <2>1 DEF MilvusType
  <2>3. MView' \in {MView, milvus'}
    BY <1>b, <2>1 DEF MView
  <2>4. FloorKnown'
    BY <1>b, <1>c, <2>2, <2>3 DEF FloorKnown
  <2>5. Current \in Slots /\ Last(Current) \in Slots /\ Current = milvus.current
    BY <2>1, CurrentSlot DEF Current
  <2>6. Live(pods[Last(Current)]) = 0
    <3>1. AllPods(pods[Last(Current)]) = 0
      BY <1>a, <2>1 DEF LastDown
    <3>2. Live(pods[Last(Current)]) \in Nat /\ pods[Last(Current)].dying \in Nat
      BY <2>5, SlotFacts
    <3> QED
      BY SMT, <3>1, <3>2 DEF AllPods
  <2>7. deploy[Current].replicas # 0
    <3>1. GetLeastReplicasRegardingHPA(MView) <= deploy[Current].replicas
      BY <1>a, <2>1 DEF CurrentUp
    <3>2. MView.replicas \in Nat /\ floor \in Nat /\ floor >= 1 /\ floor <= MView.replicas
      BY <1>c, ServedFacts DEF FloorKnown
    <3>3. GetLeastReplicasRegardingHPA(MView) = MView.replicas
      BY SMT, <3>2 DEF GetLeastReplicasRegardingHPA
    <3> QED
      BY SMT, <3>1, <3>2, <3>3
  <2>8. EmptyBeside(milvus)'
    BY <1>b, <2>2, <2>5, <2>6, <2>7 DEF EmptyBeside, Slots
  <2>9. EmptyBeside(MView)'
    <3>1. CASE MView' = MView
      BY <1>b, <1>c, <3>1 DEF EmptyBeside, Slots
    <3>2. CASE MView' = milvus'
      BY <2>8, <3>2 DEF EmptyBeside
    <3> QED
      BY <2>3, <3>1, <3>2
  <2> QED
    BY <2>4, <2>8, <2>9
<1>3. CASE SetRolling
  <2>1. mseen' = mseen /\ (milvus' = milvus \/ \E s : milvus' = [milvus EXCEPT !.current = s, !.rolling = TRUE])
    BY <1>3 DEF SetRolling, views
  <2>2. milvus' = milvus \/ (milvus'.replicas = milvus.replicas /\ milvus'.rolling)
    BY <1>a, <2>1 DEF MilvusType
  <2>3. MView' \in {MView, milvus'}
    BY <1>b, <2>1 DEF MView
  <2>4. FloorKnown'
    BY <1>b, <1>c, <2>2, <2>3 DEF FloorKnown
  <2>5. EmptyBeside(milvus)'
    BY <1>b, <1>c, <2>2 DEF EmptyBeside, Slots
  <2>6. EmptyBeside(MView)'
    <3>1. CASE MView' = MView
      BY <1>b, <1>c, <3>1 DEF EmptyBeside, Slots
    <3>2. CASE MView' = milvus'
      BY <2>5, <3>2 DEF EmptyBeside
    <3> QED
      BY <2>3, <3>1, <3>2
  <2> QED
    BY <2>4, <2>5, <2>6
<1>4. CASE SyncMilvus
  <2>1. milvus' = milvus /\ MView' = milvus
    BY <1>4 DEF SyncMilvus, objects, MView
  <2> QED
    BY <1>b, <1>c, <2>1 DEF FloorKnown, EmptyBeside, Slots
<1> QED
  BY <1>1, <1>2, <1>3, <1>4

\* An edit lowers what is promised when it asks for fewer replicas.
LEMMA EditServed ==
  ASSUME TypeOK, ServedInv, NEW t \in Templates, NEW r \in config.replicas, Edit(t, r)
  PROVE  ServedInv'
<1>a. /\ UNCHANGED <<config, deploy, pods, failures, mseen>> /\ floor' = Min2(floor, r)
      /\ milvus' = [milvus EXCEPT !.template = t, !.replicas = r]
  BY DEF Edit, views
<1> SUFFICES ASSUME Served, Served'
             PROVE  FloorKnown' /\ EmptyBeside(milvus)' /\ EmptyBeside(MView)' /\ PodsUpToDate' /\ Enough'
  BY <1>a, ServedBefore DEF ServedInv
<1>b. FloorKnown /\ EmptyBeside(milvus) /\ EmptyBeside(MView) /\ PodsUpToDate /\ Enough
  BY DEF ServedInv
<1>c. /\ floor \in Nat /\ milvus.replicas \in Nat /\ MView.replicas \in Nat /\ failures \in Nat
      /\ Guaranteed \in Int
  BY ServedFacts
<1>d. config \in Configs /\ config.mode = "static" /\ floor' # 0
  BY <1>a DEF TypeOK, Served
<1>e. r \in Nat /\ config.strategy \in StrategyType /\ ValidRollingUpdate(config.strategy)
  BY <1>d, ConfigFacts, RolloutAssumption DEF IsConfig
<1>f. floor' \in Nat /\ floor' <= floor /\ floor' <= r
  BY SMT, <1>a, <1>c, <1>e DEF Min2
<1>1. /\ milvus'.replicas = r /\ milvus'.current = milvus.current /\ milvus'.rolling = milvus.rolling
      /\ MView'.current = MView.current /\ MView'.rolling = MView.rolling /\ MView'.replicas \in {r, MView.replicas}
  <2>1. milvus'.replicas = r /\ milvus'.current = milvus.current /\ milvus'.rolling = milvus.rolling
    BY <1>a DEF TypeOK, MilvusType
  <2> QED
    BY <1>a, <2>1 DEF MView
<1>2. FloorKnown'
  BY SMT, <1>b, <1>c, <1>e, <1>f, <1>1 DEF FloorKnown
<1>3. EmptyBeside(milvus)' /\ EmptyBeside(MView)' /\ PodsUpToDate'
  BY <1>a, <1>b, <1>1 DEF EmptyBeside, PodsUpToDate, Slots
<1>4. Guaranteed' \in Int /\ Guaranteed' <= Guaranteed
  <2>1. /\ Guaranteed = floor - RolloutSteps(config.strategy, floor).unavailable
        /\ Guaranteed' = floor' - RolloutSteps(config.strategy, floor').unavailable
    BY <1>a, <1>d DEF Guaranteed
  <2>2. RolloutSteps(config.strategy, floor').unavailable \in Nat
    BY <1>e, <1>f, RolloutStepsType
  <2>3. Guaranteed' <= Guaranteed
    BY <1>c, <1>d, <1>e, <1>f, <2>1, KeptGrows
  <2> QED
    BY SMT, <1>f, <2>1, <2>2, <2>3
<1>5. Enough'
  <2> SUFFICES ASSUME NEW i \in Slots, Live(pods[i]) > deploy[i].replicas
               PROVE  deploy[i].replicas + Keeps(Last(i)) + failures >= Guaranteed'
    BY <1>a DEF Enough, Keeps, Slots
  <2>1. deploy[i].replicas + Keeps(Last(i)) + failures >= Guaranteed
    BY <1>b DEF Enough
  <2>2. deploy[i].replicas \in Nat /\ Keeps(Last(i)) \in Nat
    BY LastSlot, SlotFacts
  <2> QED
    BY SMT, <1>c, <1>4, <2>1, <2>2
<1> QED
  BY <1>2, <1>3, <1>5

\* Steps that change the pods of a slot, and leave the replicas alone.
LEMMA PodsFrame ==
  ASSUME TypeOK, IdleInv, ServedInv, NEW k \in Slots, UNCHANGED <<config, milvus, mseen, floor, deploy>>,
         \A i \in Slots \ {k} : pods'[i] = pods[i],
         Served => /\ failures' \in Nat /\ pods'[k].old = 0 /\ Keeps(k)' \in Nat
                   /\ Live(pods'[k]) = Live(pods[k]) \/ (Live(pods'[k]) = deploy[k].replicas /\ deploy[k].exists)
                   /\ Keeps(k)' + failures' >= Keeps(k) + failures /\ failures' >= failures
  PROVE  ServedInv'
<1> SUFFICES ASSUME Served PROVE FloorKnown' /\ EmptyBeside(milvus)' /\ EmptyBeside(MView)' /\ PodsUpToDate' /\ Enough'
  BY ServedBefore DEF ServedInv
<1>1. FloorKnown /\ EmptyBeside(milvus) /\ EmptyBeside(MView) /\ PodsUpToDate /\ Enough
  BY DEF ServedInv
<1>2. MView' = MView
  BY DEF MView
<1>3. \A i \in Slots : \/ Live(pods'[i]) = Live(pods[i])
                       \/ Live(pods'[i]) = deploy[i].replicas /\ deploy[i].exists
  OBVIOUS
<1>4. FloorKnown'
  BY <1>1, <1>2 DEF FloorKnown
<1>5. PodsUpToDate'
  BY SMT, <1>1, <1>3 DEF PodsUpToDate, Slots
<1>6. EmptyBeside(milvus)'
  BY <1>1, <1>3, LastSlot DEF EmptyBeside, IdleInv, LastIdle, Slots
<1>7. EmptyBeside(MView)'
  BY <1>1, <1>2, <1>3, LastSlot DEF EmptyBeside, IdleInv, SeenIdle, Slots
<1>8. Enough'
  <2> SUFFICES ASSUME NEW i \in Slots, Live(pods'[i]) > deploy[i].replicas
               PROVE  deploy[i].replicas + Keeps(Last(i))' + failures' >= Guaranteed
    BY DEF Enough, Guaranteed, Slots, Keeps, Last
  <2>1. deploy[i].replicas \in Nat /\ Last(i) \in Slots /\ Keeps(Last(i)) \in Nat /\ Keeps(i) \in Nat
        /\ failures \in Nat /\ Guaranteed \in Int /\ failures' \in Nat
    BY LastSlot, SlotFacts, ServedFacts
  <2>2. Live(pods[i]) > deploy[i].replicas
    BY SMT, <1>3, <2>1
  <2>3. deploy[i].replicas + Keeps(Last(i)) + failures >= Guaranteed
    BY <1>1, <2>2 DEF Enough
  <2>4. CASE i = k
    <3>1. pods'[Last(i)] = pods[Last(i)]
      BY <2>4, LastSlot
    <3>2. Keeps(Last(i))' = Keeps(Last(i))
      BY <3>1 DEF Keeps, Last
    <3> QED
      BY SMT, <2>1, <2>3, <3>2
  <2>5. CASE i # k
    <3>1. Last(i) = k
      BY <2>5, LastSlot
    <3>2. Keeps(Last(i))' = Keeps(k)'
      BY <3>1 DEF Keeps, Last
    <3>3. Keeps(k)' + failures' >= Keeps(Last(i)) + failures /\ Keeps(k)' \in Nat
      BY <3>1
    <3> QED
      BY SMT, <2>1, <2>3, <3>2, <3>3
  <2> QED
    BY <2>4, <2>5
<1> QED
  BY <1>4, <1>5, <1>6, <1>7, <1>8

LEMMA PodsServed ==
  ASSUME TypeOK, IdleInv, ServedInv, NEW k \in Slots, ScalePods(k) \/ PodReady(k) \/ PodGone(k) \/ PodUnready(k)
  PROVE  ServedInv'
<1>a. UNCHANGED <<config, milvus, mseen, floor, deploy>> /\ \A i \in Slots \ {k} : pods'[i] = pods[i]
  BY DEF ScalePods, PodReady, PodGone, PodUnready, views, history, TypeOK
<1>b. pods[k] \in PodsType /\ pods \in [Slots -> PodsType]
  BY DEF TypeOK
<1>c. /\ pods[k].old \in Nat /\ pods[k].starting \in Nat /\ pods[k].ready \in Nat /\ pods[k].dying \in Nat
      /\ deploy[k].replicas \in Nat
  BY SlotFacts
<1> SUFFICES ASSUME Served
             PROVE  /\ failures' \in Nat /\ pods'[k].old = 0 /\ Keeps(k)' \in Nat
                    /\ Live(pods'[k]) = Live(pods[k]) \/ (Live(pods'[k]) = deploy[k].replicas /\ deploy[k].exists)
                    /\ Keeps(k)' + failures' >= Keeps(k) + failures /\ failures' >= failures
  BY <1>a, PodsFrame
<1>d. failures \in Nat /\ pods[k].old = 0
  BY ServedFacts DEF ServedInv, PodsUpToDate
<1>e. Keeps(k)' = Min2(pods'[k].ready, deploy[k].replicas)
  BY <1>a DEF Keeps
<1>1. CASE ScalePods(k)
  <2>1. failures' = failures /\ deploy[k].exists /\ pods'[k] = ScaledPods(pods[k], deploy[k].replicas)
    BY <1>1, <1>b DEF ScalePods, history
  <2> DEFINE q == ScaledPods(pods[k], deploy[k].replicas)
  <2>a. q.old = 0 /\ q.ready = Min2(pods[k].ready, deploy[k].replicas) /\ Live(q) = deploy[k].replicas
    BY <1>b, <1>c, ScaledFacts
  <2> HIDE DEF q
  <2>2. pods'[k].old = 0 /\ pods'[k].ready = Min2(pods[k].ready, deploy[k].replicas)
    BY <2>a, <2>1 DEF q
  <2>3. Live(pods'[k]) = deploy[k].replicas
    BY <2>a, <2>1 DEF q
  <2>4. Keeps(k)' = Keeps(k) /\ Keeps(k) \in Nat
    BY <1>c, <1>e, <2>2 DEF Keeps, Min2
  <2> QED
    BY SMT, <1>d, <2>1, <2>2, <2>3, <2>4
<1>2. CASE PodReady(k)
  <2>1. /\ pods'[k].old = pods[k].old /\ pods'[k].starting = pods[k].starting - 1 /\ pods'[k].ready = pods[k].ready + 1
        /\ failures' = failures
    BY <1>2, <1>b DEF PodReady, PodsType, history
  <2>2. Live(pods'[k]) = Live(pods[k])
    BY SMT, <1>c, <2>1 DEF Live
  <2>3. Keeps(k)' \in Nat /\ Keeps(k)' >= Keeps(k) /\ Keeps(k) \in Nat
    BY SMTT(60), <1>c, <1>e, <2>1 DEF Keeps, Min2
  <2> QED
    BY SMT, <1>d, <2>1, <2>2, <2>3
<1>3. CASE PodGone(k)
  <2>1. /\ pods'[k].old = pods[k].old /\ pods'[k].starting = pods[k].starting /\ pods'[k].ready = pods[k].ready
        /\ failures' = failures
    BY <1>3, <1>b DEF PodGone, PodsType, history
  <2>2. Live(pods'[k]) = Live(pods[k]) /\ Keeps(k)' = Keeps(k) /\ Keeps(k) \in Nat
    BY <1>c, <1>e, <2>1 DEF Live, Keeps, Min2
  <2> QED
    BY SMT, <1>d, <2>1, <2>2
<1>4. CASE PodUnready(k)
  <2>1. /\ pods'[k].old = pods[k].old /\ pods'[k].starting = pods[k].starting + 1 /\ pods'[k].ready = pods[k].ready - 1
        /\ failures' = failures + 1 /\ pods[k].ready > 0
    BY <1>4, <1>b DEF PodUnready, PodsType
  <2>2. Live(pods'[k]) = Live(pods[k])
    BY SMT, <1>c, <2>1 DEF Live
  <2>3. Keeps(k)' \in Nat /\ Keeps(k)' >= Keeps(k) - 1 /\ Keeps(k) \in Nat
    BY SMTT(60), <1>c, <1>e, <2>1 DEF Keeps, Min2
  <2> QED
    BY SMT, <1>d, <2>1, <2>2, <2>3
<1> QED
  BY <1>1, <1>2, <1>3, <1>4

\* A new template is written to a Deployment that has no pods.
LEMMA PrepareServed ==
  ASSUME TypeOK, IdleInv, ServedInv, DeploysSeen, PrepareNewRollout
  PROVE  ServedInv'
<1>a. DView = deploy /\ MView \in MilvusType /\ deploy \in [Slots -> DeployType] /\ pods \in [Slots -> PodsType]
  BY DeploysAreSeen, ViewTypes DEF TypeOK
<1>b. \A i \in Slots : deploy[i].template \in Templates \cup {Dummy} /\ deploy[i].replicas \in Nat
  BY <1>a DEF DeployType
<1> DEFINE k == RolloutSlot
<1>1. Current \in Slots /\ Last(Current) \in Slots /\ k \in {Current, Last(Current)} /\ k \in Slots
  BY CurrentSlot DEF PrepareNewRollout, Rolling, RolloutSlot
<1>2. UpdateDeploy(k, Desired, deploy[k].replicas) /\ UNCHANGED <<config, milvus, mseen, failures, floor>>
  BY <1>a DEF PrepareNewRollout, views, history
<1>3. Desired \in Templates \cup {Dummy}
  BY <1>a DEF Desired, MilvusType
<1>4. /\ deploy'[k].replicas = deploy[k].replicas /\ deploy'[k].exists = deploy[k].exists
      /\ \A j \in Slots \ {k} : deploy'[j] = deploy[j] /\ pods'[j] = pods[j]
      /\ Desired = deploy[k].template => pods' = pods
  BY ZenonT(60), <1>b, <1>1, <1>2, <1>3, UpdateType
<1>5. \A i \in Slots : deploy'[i].replicas = deploy[i].replicas /\ (deploy[i].exists => deploy'[i].exists)
  BY <1>4
<1>6. CASE Desired = deploy[k].template
  BY <1>2, <1>4, <1>5, <1>6, ServedFrame
<1>7. CASE Desired # deploy[k].template
  <2>1. ~ShouldRollback
    BY <1>a, <1>7 DEF ShouldRollback, RolloutSlot, IsPodTemplateChanged
  <2>2. ~MView.rolling
    BY <2>1 DEF PrepareNewRollout, CanStartRollout
  <2>3. k = Last(Current) \/ (k = Current /\ deploy[k].replicas = 0)
    BY SMT, <1>a, <1>b, <1>1, <2>1 DEF RolloutSlot
  <2> HIDE DEF k
  <2> SUFFICES ASSUME Served PROVE FloorKnown' /\ EmptyBeside(milvus)' /\ EmptyBeside(MView)' /\ PodsUpToDate' /\ Enough'
    BY <1>2, ServedBefore DEF ServedInv
  <2>4. FloorKnown /\ EmptyBeside(milvus) /\ EmptyBeside(MView) /\ PodsUpToDate /\ Enough
    BY DEF ServedInv
  <2>5. Live(pods[k]) = 0
    BY <1>1, <2>2, <2>3, <2>4 DEF EmptyBeside, Current
  <2>6. /\ pods[k].old = 0 /\ pods[k].starting = 0 /\ pods[k].ready = 0
    <3>1. pods[k].old \in Nat /\ pods[k].starting \in Nat /\ pods[k].ready \in Nat
      BY <1>1, SlotFacts
    <3>2. \A x, y, z \in Nat : x + y + z = 0 => x = 0 /\ y = 0 /\ z = 0
      BY SMT
    <3> QED
      BY <2>5, <3>1, <3>2 DEF Live
  <2>7. pods'[k] = Outdated(pods[k])
    BY <1>a, <1>1, <1>2, <1>7 DEF UpdateDeploy
  <2>8. pods'[k].old = 0 /\ pods'[k].starting = 0 /\ pods'[k].ready = 0
    <3>1. pods'[k].old = pods[k].old + pods[k].ready /\ pods'[k].starting = 0 /\ pods'[k].ready = 0
      BY <1>a, <1>1, <2>7 DEF Outdated, PodsType
    <3> QED
      BY SMT, <2>6, <3>1
  <2>9. Live(pods'[k]) = 0
    BY SMT, <2>8 DEF Live
  <2>10. MView' = MView /\ Guaranteed' = Guaranteed
    BY <1>2 DEF MView, Guaranteed
  <2>11. \A i \in Slots : /\ Live(pods'[i]) = Live(pods[i]) /\ pods'[i].old = pods[i].old /\ pods'[i].ready = pods[i].ready
                          /\ deploy'[i].replicas = deploy[i].replicas
    BY <1>4, <2>5, <2>6, <2>8, <2>9
  <2>12. \A i \in Slots : Keeps(i)' = Keeps(i)
    BY <2>11 DEF Keeps
  <2>13. FloorKnown'
    BY <1>2, <2>4, <2>10 DEF FloorKnown
  <2>14. EmptyBeside(milvus)' /\ EmptyBeside(MView)'
    BY <1>2, <2>4, <2>10, <2>11, LastSlot DEF EmptyBeside, Slots
  <2>15. PodsUpToDate'
    BY <1>5, <2>4, <2>11 DEF PodsUpToDate, Slots
  <2>16. Enough'
    BY <1>2, <2>4, <2>10, <2>11, <2>12, LastSlot DEF Enough, Slots
  <2> QED
    BY <2>13, <2>14, <2>15, <2>16
<1> QED
  BY <1>6, <1>7

\* A Deployment that is stable has as many ready pods as replicas; one that has
\* settled has as many pods as replicas, and no more available than are ready.
LEMMA StablePods ==
  ASSUME TypeOK, DView = deploy, PView = pods, NEW i \in Slots, pods[i].old = 0
  PROVE  /\ DeploymentIsStable(i) => Live(pods[i]) = deploy[i].replicas /\ Keeps(i) = deploy[i].replicas
         /\ SettledWithPending(i) => /\ Live(pods[i]) = deploy[i].replicas
                                     /\ Min2(deploy[i].available, deploy[i].replicas) <= Keeps(i)
<1>1. /\ pods[i].starting \in Nat /\ pods[i].ready \in Nat /\ pods[i].dying \in Nat /\ deploy[i].replicas \in Nat
  BY SlotFacts
<1>2. deploy[i].available \in Nat
  BY DEF TypeOK, DeployType
<1>3. ASSUME DeploymentIsStable(i) PROVE Live(pods[i]) = deploy[i].replicas /\ Keeps(i) = deploy[i].replicas
  <2>1. pods[i].dying = 0 /\ pods[i].starting = 0 /\ AllPods(pods[i]) = deploy[i].replicas
    BY <1>3 DEF DeploymentIsStable
  <2> QED
    BY SMT, <1>1, <2>1 DEF AllPods, Live, Keeps, Min2
<1>4. ASSUME SettledWithPending(i)
      PROVE  Live(pods[i]) = deploy[i].replicas /\ Min2(deploy[i].available, deploy[i].replicas) <= Keeps(i)
  <2>1. deploy[i].available <= pods[i].old + pods[i].ready
    BY <1>4 DEF SettledWithPending
  <2>2. AllPods(pods[i]) = deploy[i].replicas /\ pods[i].dying = 0
    BY <1>4 DEF SettledWithPending, DeploymentIsStable
  <2> QED
    BY SMT, <1>1, <1>2, <2>1, <2>2 DEF AllPods, Live, Keeps, Min2
<1> QED
  BY <1>3, <1>4

\* A step that changes the replicas of a slot, when they are enough.
LEMMA ScaleFrame ==
  ASSUME TypeOK, IdleInv, ServedInv, UNCHANGED <<config, milvus, mseen, pods, failures, floor>>,
         NEW k \in Slots, NEW n \in Nat, deploy'[k].replicas = n, deploy'[k].exists = deploy[k].exists,
         \A j \in Slots \ {k} : deploy'[j] = deploy[j],
         Served => /\ n = 0 => MView.current # k /\ (milvus.current # k \/ milvus.rolling)
                   /\ Live(pods[k]) > n => n + Keeps(Last(k)) + failures >= Guaranteed
                   /\ Live(pods[Last(k)]) > deploy[Last(k)].replicas =>
                        deploy[Last(k)].replicas + Min2(pods[k].ready, n) + failures >= Guaranteed
  PROVE  ServedInv'
<1> SUFFICES ASSUME Served PROVE FloorKnown' /\ EmptyBeside(milvus)' /\ EmptyBeside(MView)' /\ PodsUpToDate' /\ Enough'
  BY ServedBefore DEF ServedInv
<1>1. FloorKnown /\ EmptyBeside(milvus) /\ EmptyBeside(MView) /\ PodsUpToDate /\ Enough
  BY DEF ServedInv
<1>2. MView' = MView /\ Guaranteed' = Guaranteed
  BY DEF MView, Guaranteed
<1>3. FloorKnown' /\ PodsUpToDate'
  BY <1>1, <1>2 DEF FloorKnown, PodsUpToDate, Slots
<1>4. EmptyBeside(milvus)'
  BY <1>1, <1>2 DEF EmptyBeside
<1>5. EmptyBeside(MView)'
  BY <1>1, <1>2 DEF EmptyBeside
<1>6. Enough'
  <2> SUFFICES ASSUME NEW i \in Slots, Live(pods[i]) > deploy'[i].replicas
               PROVE  deploy'[i].replicas + Keeps(Last(i))' + failures >= Guaranteed
    BY <1>2 DEF Enough, Slots, Keeps, Last
  <2>1. CASE i = k
    <3>1. Keeps(Last(i))' = Keeps(Last(i))
      BY <2>1, LastSlot DEF Keeps, Last
    <3> QED
      BY <2>1, <3>1
  <2>2. CASE i # k
    <3>1. Last(k) = i /\ Last(i) = k
      BY <2>2, LastSlot
    <3>2. deploy'[i] = deploy[i]
      BY <2>2
    <3>3. Keeps(Last(i))' = Min2(pods[k].ready, n)
      BY <3>1 DEF Keeps, Last
    <3> QED
      BY <3>1, <3>2, <3>3
  <2> QED
    BY <2>1, <2>2
<1> QED
  BY <1>3, <1>4, <1>5, <1>6

\* ScaleDeployments leaves enough.
LEMMA ScaleServed ==
  ASSUME TypeOK, IdleInv, ServedInv, DeploysSeen, PodsSeen, ScaleDeployments
  PROVE  ServedInv'
<1> DEFINE c == Current
           l == Last(Current)
           e == MView.replicas
           a == PlanNextScaleAction(c, l)
           k == IF a.deploy = "current" THEN c ELSE l
           n == deploy[k].replicas + a.replicaChange
<1>a. DView = deploy /\ PView = pods /\ deploy \in [Slots -> DeployType]
  BY DeploysAreSeen DEF TypeOK, PodsSeen, PView
<1>b. c \in Slots /\ l \in Slots /\ c # l /\ Last(l) = c
  BY CurrentSlot, LastSlot DEF ScaleDeployments, Rolling
<1>c. \A i \in Slots : /\ deploy[i].template \in Templates \cup {Dummy} /\ deploy[i].replicas \in Nat
                       /\ deploy[i].available \in Nat
  BY <1>a DEF DeployType
<1>d. a.replicaChange # 0 /\ UpdateDeploy(k, deploy[k].template, n) /\ CheckCanScaleNow(c, l)
      /\ UNCHANGED <<config, milvus, mseen, failures, floor>>
  BY <1>a DEF ScaleDeployments, views, history
<1>e. k \in Slots
  BY <1>b
<1>f. Fits(a, Planned(c), Planned(l))
  BY <1>b, NextPlanFits
<1>g. /\ Planned(c).replicas = deploy[c].replicas /\ Planned(c).available = deploy[c].available
      /\ Planned(l).replicas = deploy[l].replicas /\ Planned(l).available = deploy[l].available
  BY <1>a, <1>b, PlannedFacts
<1>h. a.deploy \in {"current", "last"} /\ a.replicaChange \in Int
  BY <1>f DEF Fits
<1> HIDE DEF a
<1>1. n \in Nat /\ (k = l => deploy[l].replicas # 0)
  <2>1. /\ a.deploy = "current" => deploy[c].replicas + a.replicaChange \in Nat
        /\ a.deploy = "last" => deploy[l].replicas + a.replicaChange \in Nat /\ deploy[l].replicas # 0
    <3>1. /\ Planned(c).replicas \in Nat /\ Planned(l).replicas \in Nat
          /\ Planned(c).replicas = deploy[c].replicas /\ Planned(l).replicas = deploy[l].replicas
      BY <1>b, <1>c, <1>g
    <3> HIDE DEF c, l
    <3>2. /\ a.deploy = "current" => Planned(c).replicas + a.replicaChange \in Nat
          /\ a.deploy = "last" => Planned(l).replicas + a.replicaChange \in Nat /\ Planned(l).replicas # 0
      BY <1>d, <1>f, <3>1, FitsNat
    <3> QED
      BY <3>1, <3>2
  <2> QED
    BY <1>b, <1>h, <2>1
<1>2. /\ deploy'[k].replicas = n /\ deploy'[k].exists = deploy[k].exists /\ pods' = pods
      /\ \A j \in Slots \ {k} : deploy'[j] = deploy[j]
  <2> HIDE DEF k, n
  <2> QED
    BY <1>d, <1>e, <1>1, ScaleKeeps
<1> SUFFICES ASSUME Served
             PROVE  /\ n = 0 => MView.current # k /\ (milvus.current # k \/ milvus.rolling)
                    /\ Live(pods[k]) > n => n + Keeps(Last(k)) + failures >= Guaranteed
                    /\ Live(pods[Last(k)]) > deploy[Last(k)].replicas =>
                         deploy[Last(k)].replicas + Min2(pods[k].ready, n) + failures >= Guaranteed
  <2> HIDE DEF k, n
  <2> QED
    BY <1>d, <1>e, <1>1, <1>2, ScaleFrame
<1>3. FloorKnown /\ PodsUpToDate /\ Enough
  BY DEF ServedInv
<1>4. /\ e \in Nat /\ floor <= e /\ floor \in Nat /\ floor >= 1 /\ failures \in Nat
      /\ Guaranteed \in Int /\ Guaranteed <= floor
      /\ Guaranteed <= e - RolloutSteps(config.strategy, e).unavailable
  BY <1>3, ServedFacts DEF FloorKnown
<1>5. config \in Configs /\ config.mode = "static" /\ config.strategy \in StrategyType
  BY ConfigFacts DEF TypeOK, Served
<1>6. /\ RolloutSteps(config.strategy, e).surge \in Nat /\ RolloutSteps(config.strategy, e).unavailable \in Nat
  BY <1>4, <1>5, RolloutStepsType
<1>7. \A i \in Slots : /\ pods[i].ready \in Nat /\ Keeps(i) \in Nat /\ Live(pods[i]) \in Nat /\ pods[i].old = 0
  BY <1>3, SlotFacts DEF PodsUpToDate
<1>8. CheckScaleKind(l) = IF deploy[l].replicas > 0 THEN "rollout" ELSE "normal"
  BY SMT, <1>a, <1>4, <1>5 DEF CheckScaleKind
<1>9. CASE deploy[l].replicas = 0
  <2>1. a = PlanScaleForNormalState(e, Planned(c))
    BY SMT, <1>8, <1>9 DEF PlanNextScaleAction, a
  <2>2. k = c /\ Last(k) = l
    BY <1>b, <1>1, <1>9
  <2>3. a.deploy = "current" /\ n >= e
    <3>1. Planned(c).replicas \in Nat /\ n = Planned(c).replicas + a.replicaChange
      BY <1>b, <1>c, <1>g, <2>2
    <3> HIDE DEF n, c, e
    <3> QED
      BY <1>d, <1>4, <2>1, <3>1, NormalPlanSteps
  <2> HIDE DEF n, k, c, l, e
  <2>4. n # 0
    BY SMT, <1>1, <1>4, <2>3
  <2>5. n + Keeps(Last(k)) + failures >= Guaranteed
    BY SMT, <1>b, <1>1, <1>4, <1>7, <2>2, <2>3
  <2>6. ASSUME Live(pods[l]) > deploy[l].replicas
        PROVE  deploy[l].replicas + Min2(pods[k].ready, n) + failures >= Guaranteed
    <3>1. deploy[l].replicas + Keeps(c) + failures >= Guaranteed
      BY <1>b, <1>3, <2>6 DEF Enough
    <3>2. Keeps(c) <= pods[c].ready
      BY SMT, <1>b, <1>c, <1>7 DEF Keeps, Min2
    <3>3. pods[c].ready \in Nat /\ Keeps(c) \in Nat
      BY <1>b, <1>7
    <3> QED
      BY SMT, <1>1, <1>4, <1>9, <2>2, <2>3, <3>1, <3>2, <3>3 DEF Min2
  <2> QED
    BY <2>2, <2>4, <2>5, <2>6
<1>10. CASE deploy[l].replicas # 0
  <2> DEFINE steps == RolloutSteps(config.strategy, e)
  <2>1. CheckScaleKind(l) = "rollout" /\ deploy[l].replicas > 0
    BY SMT, <1>b, <1>c, <1>8, <1>10
  <2>2. a = PlanScaleForRollout(e, config.strategy, Planned(c), Planned(l))
    BY <2>1 DEF PlanNextScaleAction, a
  <2>3. CheckDeploymentsStable(c, l, steps.surge = 0 /\ steps.unavailable > 0)
    BY <1>d, <2>1 DEF CheckCanScaleNow
  <2>4. DeploymentIsStable(l) /\ (DeploymentIsStable(c) \/ (steps.surge = 0 /\ SettledWithPending(c)))
    BY <2>3 DEF CheckDeploymentsStable
  <2>5. \/ a.deploy = "current" /\ a.replicaChange >= 0
        \/ /\ a.deploy = "last"
           /\ deploy[l].replicas + a.replicaChange
                + (IF steps.surge = 0 THEN Min2(deploy[c].available, deploy[c].replicas) ELSE deploy[c].replicas)
              >= e - steps.unavailable
    <3> HIDE DEF c, l, e
    <3>1. /\ Planned(c).replicas \in Nat /\ Planned(c).available \in Nat
          /\ Planned(l).replicas \in Nat /\ Planned(l).available \in Nat /\ Planned(l).replicas > 0
      BY <1>b, <1>c, <1>g, <2>1
    <3> DEFINE pc == Planned(c)
               pl == Planned(l)
    <3> HIDE DEF pc, pl
    <3>2. a = PlanScaleForRollout(e, config.strategy, pc, pl) /\ config.strategy \in StrategyType /\ e \in Nat
      BY <1>4, <1>5, <2>2 DEF pc, pl
    <3>3. /\ pc.replicas \in Nat /\ pc.available \in Nat
          /\ pl.replicas \in Nat /\ pl.available \in Nat /\ pl.replicas > 0
      BY <3>1 DEF pc, pl
    <3>4. MoveServes(PlanScaleForRollout(e, config.strategy, pc, pl), e, RolloutSteps(config.strategy, e), pc, pl)
      BY <3>2, <3>3, RolloutPlanServes
    <3>5. MoveServes(a, e, steps, pc, pl)
      BY <3>2, <3>4
    <3> HIDE DEF steps
    <3> QED
      BY <1>g, <3>5 DEF MoveServes, pc, pl
  <2>6. Live(pods[l]) = deploy[l].replicas
    BY <1>a, <1>b, <1>7, <2>4, StablePods
  <2>7. /\ Live(pods[c]) = deploy[c].replicas
        /\ (IF steps.surge = 0 THEN Min2(deploy[c].available, deploy[c].replicas) ELSE deploy[c].replicas) <= Keeps(c)
    <3>1. CASE DeploymentIsStable(c)
      <4>1. Live(pods[c]) = deploy[c].replicas /\ Keeps(c) = deploy[c].replicas
        BY <1>a, <1>b, <1>7, <3>1, StablePods
      <4> DEFINE r == deploy[c].replicas
                 v == deploy[c].available
      <4>2. r \in Nat /\ v \in Nat
        BY <1>b, <1>c
      <4> HIDE DEF r, v
      <4>3. Min2(v, r) <= r /\ r <= r
        BY SMT, <4>2 DEF Min2
      <4> QED
        BY <4>1, <4>3 DEF r, v
    <3>2. CASE steps.surge = 0 /\ SettledWithPending(c)
      BY <1>a, <1>b, <1>7, <3>2, StablePods
    <3> QED
      BY <2>4, <3>1, <3>2
  <2>8. CASE a.deploy = "current"
    <3>1. k = c /\ Last(k) = l /\ a.replicaChange >= 0
      BY <2>5, <2>8
    <3>2. n > Live(pods[k]) /\ n # 0
      <4> DEFINE r == deploy[c].replicas
                 x == a.replicaChange
      <4>1. r \in Nat /\ x \in Int /\ x >= 0 /\ x # 0
        BY <1>b, <1>c, <1>d, <1>h, <3>1
      <4>2. n = r + x /\ Live(pods[k]) = r
        BY <2>7, <3>1
      <4> HIDE DEF r, x, n
      <4>3. r + x > r /\ r + x # 0
        BY SMT, <4>1
      <4> QED
        BY <4>2, <4>3
    <3>3. ~(Live(pods[k]) > n)
      <4>1. n \in Nat /\ Live(pods[k]) \in Nat
        BY <1>e, <1>1, <1>7
      <4> HIDE DEF n, k
      <4>2. \A y, z \in Nat : z > y => ~(y > z)
        BY SMT
      <4> QED
        BY <3>2, <4>1, <4>2
    <3>4. ~(Live(pods[Last(k)]) > deploy[Last(k)].replicas)
      <4>1. \A y \in Nat : ~(y > y)
        BY SMT
      <4> QED
        BY <1>b, <1>c, <2>6, <3>1, <4>1
    <3> QED
      BY <3>2, <3>3, <3>4
  <2>9. CASE a.deploy = "last"
    <3>1. k = l /\ Last(k) = c
      BY <1>b, <2>8, <2>9
    <3>2. n + Keeps(c) >= e - steps.unavailable
      <4> DEFINE x == IF steps.surge = 0 THEN Min2(deploy[c].available, deploy[c].replicas) ELSE deploy[c].replicas
      <4>1. n + x >= e - steps.unavailable /\ x <= Keeps(c) /\ x \in Nat /\ Keeps(c) \in Nat
        BY <1>b, <1>c, <1>7, <2>5, <2>7, <2>9, <3>1 DEF Min2
      <4> HIDE DEF x, n, c, e, steps
      <4> QED
        BY SMT, <1>1, <1>4, <1>6, <4>1 DEF steps
    <3>3. n + Keeps(Last(k)) + failures >= Guaranteed
      <4> HIDE DEF n, k, c, l, e
      <4> QED
        BY SMT, <1>b, <1>1, <1>4, <1>6, <1>7, <3>1, <3>2
    <3>4. ~(Live(pods[Last(k)]) > deploy[Last(k)].replicas)
      BY SMT, <1>b, <1>c, <2>7, <3>1
    <3>5. MView.current # k
      BY <1>b, <3>1 DEF Current
    <3>6. milvus.current # k \/ milvus.rolling
      BY SMT, <1>b, <3>1, <3>5 DEF IdleInv, SeenCurrent, Current, Slots, NoSlot
    <3> QED
      BY <3>3, <3>4, <3>5, <3>6
  <2> QED
    BY <1>h, <2>8, <2>9
<1> QED
  BY <1>9, <1>10

\* The other steps.
LEMMA OthersServed ==
  ASSUME TypeOK, IdleInv, ServedInv,
         \/ HandleCreate \/ HandleStop \/ ReconcileHPAs \/ Crash \/ SyncDeploys \/ SyncPods \/ UNCHANGED vars
         \/ \E i \in Slots : SyncStatus(i) \/ \E n \in HpaMin..HpaMax : AutoScale(i, n)
  PROVE  ServedInv'
<1>a. deploy \in [Slots -> DeployType]
  BY DEF TypeOK
<1>1. CASE HandleCreate
  <2>1. PICK i \in Slots : CreateDeploy(i)
    BY <1>1 DEF HandleCreate, Slots
  <2>2. ~deploy[i].exists /\ deploy[i].replicas = 0
    BY <2>1 DEF CreateDeploy, IdleInv, CreatedFirst
  <2>3. deploy'[i].exists /\ deploy'[i].replicas = 0 /\ \A j \in Slots \ {i} : deploy'[j] = deploy[j]
    BY <1>a, <2>1 DEF CreateDeploy, Absent
  <2>4. UNCHANGED <<config, milvus, mseen, pods, failures, floor>>
    BY <2>1 DEF CreateDeploy, views, history
  <2> QED
    BY <2>2, <2>3, <2>4, ServedFrame
<1>2. CASE HandleStop
  <2>1. UNCHANGED <<config, floor>> /\ MView.replicas = 0
    BY <1>2 DEF HandleStop, Stopping, history
  <2>2. ~Served
    <3> SUFFICES ASSUME Served PROVE FALSE
      OBVIOUS
    <3>1. floor \in Nat /\ floor >= 1 /\ floor <= MView.replicas
      BY ServedFacts DEF ServedInv, FloorKnown
    <3> QED
      BY SMT, <2>1, <3>1
  <2> QED
    BY <2>1, <2>2 DEF ServedInv, Served
<1>3. ASSUME NEW i \in Slots, NEW n \in HpaMin..HpaMax, AutoScale(i, n) PROVE ServedInv'
  <2>1. UNCHANGED <<config, floor>> /\ config.mode # "static"
    BY <1>3 DEF AutoScale
  <2> QED
    BY <2>1 DEF ServedInv, Served
<1>4. ASSUME NEW i \in Slots, SyncStatus(i) PROVE ServedInv'
  <2>1. \A j \in Slots : deploy'[j].replicas = deploy[j].replicas /\ deploy'[j].exists = deploy[j].exists
    BY <1>a, <1>4 DEF SyncStatus, DeployType
  <2>2. UNCHANGED <<config, milvus, mseen, pods, failures, floor>>
    BY <1>4 DEF SyncStatus, views, history
  <2> QED
    BY <2>1, <2>2, ServedFrame
<1>5. CASE ReconcileHPAs \/ Crash \/ SyncDeploys \/ SyncPods \/ UNCHANGED vars
  <2>1. UNCHANGED <<config, milvus, mseen, pods, failures, floor, deploy>>
    BY <1>5 DEF ReconcileHPAs, Crash, SyncDeploys, SyncPods, objects, views, history, vars
  <2> QED
    BY <2>1, ServedFrame
<1> QED
  BY <1>1, <1>2, <1>3, <1>4, <1>5

LEMMA ServedStep ==
  ASSUME TypeOK, IdleInv, ServedInv, DeploysSeen, PodsSeen, [Next]_vars
  PROVE  ServedInv'
<1>1. ASSUME NEW t \in Templates, NEW r \in config.replicas, Edit(t, r) PROVE ServedInv'
  BY <1>1, EditServed
<1>2. ASSUME NEW k \in Slots, ScalePods(k) \/ PodReady(k) \/ PodGone(k) \/ PodUnready(k) PROVE ServedInv'
  BY <1>2, PodsServed
<1>3. CASE PrepareNewRollout
  BY <1>3, PrepareServed
<1>4. CASE ScaleDeployments
  BY <1>4, ScaleServed
<1>5. CASE MarkFirstGroup \/ FinishRollout \/ SetRolling \/ SyncMilvus
  BY <1>5, WritesServed
<1>6. CASE \/ HandleCreate \/ HandleStop \/ ReconcileHPAs \/ Crash \/ SyncDeploys \/ SyncPods \/ UNCHANGED vars
           \/ \E i \in Slots : SyncStatus(i) \/ \E n \in HpaMin..HpaMax : AutoScale(i, n)
  BY <1>6, OthersServed
<1> QED
  BY <1>1, <1>2, <1>3, <1>4, <1>5, <1>6 DEF Next

LEMMA ServedInit == Init => ServedInv
<1> SUFFICES ASSUME Init, Served PROVE FloorKnown /\ EmptyBeside(milvus) /\ EmptyBeside(MView) /\ PodsUpToDate /\ Enough
  BY DEF ServedInv
<1>a. TypeOK
  BY TypeInit
<1>1. milvus.current = NoSlot /\ MView = milvus /\ floor = milvus.replicas
  BY SMT DEF Init, MView
<1>2. \A i \in Slots : Live(pods[i]) = 0 /\ pods[i].old = 0 /\ deploy[i].replicas = 0
  <2>1. 0 + 0 + 0 = 0
    BY SMT
  <2>2. NoPods.old = 0 /\ NoPods.starting = 0 /\ NoPods.ready = 0 /\ Absent.replicas = 0
    BY DEF NoPods, Absent
  <2>3. \A i \in Slots : pods[i] = NoPods /\ deploy[i] = Absent
    BY DEF Init
  <2> QED
    BY <2>1, <2>2, <2>3 DEF Live
<1>3. FloorKnown
  BY SMT, <1>a, <1>1, ServedFacts DEF FloorKnown
<1> QED
  BY SMT, <1>1, <1>2, <1>3 DEF EmptyBeside, PodsUpToDate, Enough, Slots, NoSlot

\* The pods that serve when those of one Deployment change.
LEMMA ServingSums ==
  ASSUME NEW i \in Slots, pods'[Last(i)] = pods[Last(i)],
         \A j \in Slots : pods[j].old \in Nat /\ pods[j].ready \in Nat,
         pods'[i].old \in Nat, pods'[i].ready \in Nat
  PROVE  LET j == Last(i)
         IN  /\ Serving = pods[i].old + pods[i].ready + pods[j].old + pods[j].ready /\ Serving \in Nat
             /\ Serving' = pods'[i].old + pods'[i].ready + pods[j].old + pods[j].ready /\ Serving' \in Nat
<1> DEFINE j == Last(i)
           a == pods[i].old
           b == pods[i].ready
           c == pods[j].old
           d == pods[j].ready
           x == pods'[i].old
           y == pods'[i].ready
<1>1. (i = 0 /\ j = 1) \/ (i = 1 /\ j = 0)
  BY LastSlot DEF Slots
<1>2. a \in Nat /\ b \in Nat /\ c \in Nat /\ d \in Nat /\ x \in Nat /\ y \in Nat
  BY LastSlot
<1>3. \/ Serving = a + b + c + d /\ Serving' = x + y + c + d
      \/ Serving = c + d + a + b /\ Serving' = c + d + x + y
  BY <1>1 DEF Serving
<1> HIDE DEF a, b, c, d, x, y
<1>4. Serving = a + b + c + d /\ Serving \in Nat /\ Serving' = x + y + c + d /\ Serving' \in Nat
  BY SMT, <1>2, <1>3
<1> QED
  BY <1>4 DEF a, b, c, d, x, y

\* Pods of a component whose replicas the spec fixes are taken away only while
\* the guaranteed number serves.
LEMMA AvailableStep ==
  ASSUME TypeOK, IdleInv, ServedInv, DeploysSeen, PodsSeen, Next, config.mode = "static",
         Serving' < Serving, failures' = failures
  PROVE  Serving' + failures >= Guaranteed
<1>a. pods \in [Slots -> PodsType] /\ deploy \in [Slots -> DeployType] /\ config \in Configs
  BY DEF TypeOK
<1>b. \A i \in Slots : /\ pods[i].old \in Nat /\ pods[i].starting \in Nat /\ pods[i].ready \in Nat
                       /\ deploy[i].replicas \in Nat
  BY SlotFacts
<1>c. 0 \in Slots /\ 1 \in Slots
  BY DEF Slots
<1>d. ~(Serving = Serving')
  <2>1. Serving \in Nat /\ Serving' < Serving
    BY SMT, <1>b, <1>c DEF Serving
  <2> QED
    BY SMT, <2>1
<1>1. ASSUME NEW i \in Slots, PodReady(i) \/ PodGone(i) PROVE FALSE
  <2> DEFINE j == Last(i)
             b == pods[i].ready
             y == pods'[i].ready
  <2>1. pods'[i].old = pods[i].old /\ (y = b + 1 \/ y = b)
    BY ZenonT(60), <1>a, <1>1 DEF PodReady, PodGone, PodsType
  <2>2. pods'[j] = pods[j]
    BY <1>a, <1>1, LastSlot DEF PodReady, PodGone
  <2>3. b \in Nat /\ j \in Slots
    BY <1>b, LastSlot
  <2>4. y \in Nat /\ y >= b
    <3> HIDE DEF y, b
    <3> QED
      BY SMT, <2>1, <2>3
  <2>5. /\ Serving = pods[i].old + b + pods[j].old + pods[j].ready
        /\ Serving' = pods[i].old + y + pods[j].old + pods[j].ready
    BY <1>b, <2>1, <2>2, <2>4, ServingSums
  <2> HIDE DEF j, b, y
  <2>6. \A k, m, n \in Nat : ~(k + y + m + n < k + b + m + n)
    BY SMT, <2>3, <2>4
  <2> QED
    BY <1>b, <2>3, <2>5, <2>6
<1>2. ASSUME NEW i \in Slots, PodUnready(i) PROVE FALSE
  <2>1. failures' = failures + 1 /\ failures \in Nat
    BY SMT, <1>2, <1>a, ConfigFacts DEF PodUnready, TypeOK
  <2> QED
    BY SMT, <2>1
<1>3. ASSUME NEW i \in Slots, NEW t, NEW n, UpdateDeploy(i, t, n) PROVE FALSE
  <2>1. CASE pods' = pods
    BY <1>d, <2>1 DEF Serving
  <2>2. CASE pods' = [pods EXCEPT ![i] = Outdated(pods[i])]
    <3>1. pods'[i].old = pods[i].old + pods[i].ready /\ pods'[i].ready = 0
      BY <1>a, <2>2 DEF Outdated, PodsType
    <3>2. pods'[Last(i)] = pods[Last(i)]
      BY <1>a, <2>2, LastSlot
    <3>3. /\ pods[i].old \in Nat /\ pods[i].ready \in Nat /\ pods[i].old + pods[i].ready \in Nat /\ 0 \in Nat
          /\ (pods[i].old + pods[i].ready) + 0 = pods[i].old + pods[i].ready
      <4>1. \A x, y \in Nat : x + y \in Nat /\ (x + y) + 0 = x + y /\ 0 \in Nat
        BY SMT
      <4> QED
        BY <1>b, <4>1
    <3>4. pods'[i].old \in Nat /\ pods'[i].ready \in Nat
      BY <3>1, <3>3
    <3>5. /\ Serving = pods[i].old + pods[i].ready + pods[Last(i)].old + pods[Last(i)].ready
          /\ Serving' = pods'[i].old + pods'[i].ready + pods[Last(i)].old + pods[Last(i)].ready
      BY <1>b, <3>2, <3>4, ServingSums
    <3> QED
      BY <1>d, <3>1, <3>3, <3>5
  <2> QED
    BY <1>3, <2>1, <2>2 DEF UpdateDeploy
<1>4. CASE PrepareNewRollout \/ HandleStop \/ ScaleDeployments
  <2>1. TwoDeploys
    BY <1>4 DEF PrepareNewRollout, HandleStop, ScaleDeployments, Rolling
  <2>2. Current \in Slots /\ Last(Current) \in Slots
    BY <2>1, CurrentSlot
  <2>3. (\E i \in {Current, Last(Current)} : \E t, n : UpdateDeploy(i, t, n)) \/ pods' = pods
    <3>1. CASE PrepareNewRollout
      BY <3>1 DEF PrepareNewRollout, RolloutSlot
    <3>2. CASE HandleStop
      BY <3>2 DEF HandleStop
    <3>3. CASE ScaleDeployments
      BY <3>3 DEF ScaleDeployments
    <3> QED
      BY <1>4, <3>1, <3>2, <3>3
  <2>4. pods' = pods
    BY <1>3, <2>2, <2>3
  <2> QED
    BY <1>d, <2>4 DEF Serving
<1>5. ASSUME NEW i \in Slots, ScalePods(i) PROVE Serving' + failures >= Guaranteed
  <2> DEFINE j == Last(i)
  <2>1. pods'[i] = ScaledPods(pods[i], deploy[i].replicas) /\ \A q \in Slots \ {i} : pods'[q] = pods[q]
    BY <1>a, <1>5 DEF ScalePods
  <2>2. pods'[i].old = 0 /\ pods'[i].ready = Min2(pods[i].ready, deploy[i].replicas)
    <3> DEFINE q == ScaledPods(pods[i], deploy[i].replicas)
    <3>1. q.old = 0 /\ q.ready = Min2(pods[i].ready, deploy[i].replicas)
      BY <1>a, <1>b, ScaledFacts
    <3> HIDE DEF q
    <3> QED
      BY <2>1, <3>1 DEF q
  <2>3. j \in Slots /\ j # i /\ pods'[j] = pods[j]
    BY <2>1, LastSlot
  <2>a. pods'[i].old \in Nat /\ pods'[i].ready \in Nat
    <3>1. 0 \in Nat
      BY SMT
    <3> QED
      BY <1>b, <2>2, <3>1 DEF Min2
  <2>4. /\ Serving = pods[i].old + pods[i].ready + pods[j].old + pods[j].ready
        /\ Serving' = pods'[i].old + pods'[i].ready + pods[j].old + pods[j].ready /\ Serving' \in Nat
    BY <1>b, <2>a, <2>3, ServingSums
  <2>5. failures \in Nat /\ floor \in Nat
    BY SMT, <1>a, ConfigFacts DEF TypeOK
  <2> HIDE DEF j
  <2>6. CASE Served
    <3>1. PodsUpToDate /\ Enough /\ Guaranteed \in Int
      BY <2>6, ServedFacts DEF ServedInv
    <3>2. pods[i].old = 0 /\ pods[j].old = 0
      BY <2>3, <3>1 DEF PodsUpToDate
    <3>3. pods[i].ready > deploy[i].replicas /\ pods'[i].ready = deploy[i].replicas
      <4> DEFINE b == pods[i].ready
                 d == deploy[i].replicas
                 o == pods[j].ready
                 q == pods[j].old
      <4>1. b \in Nat /\ d \in Nat /\ o \in Nat /\ q \in Nat
        BY <1>b, <2>3
      <4>2. 0 + Min2(b, d) + q + o < 0 + b + q + o
        BY <2>2, <2>4, <3>2
      <4> HIDE DEF b, d, o, q
      <4>3. b > d /\ Min2(b, d) = d
        BY SMT, <4>1, <4>2 DEF Min2
      <4> QED
        BY <2>2, <4>3 DEF b, d
    <3>4. Live(pods[i]) > deploy[i].replicas
      BY SMT, <1>b, <3>3 DEF Live
    <3>5. deploy[i].replicas + Keeps(j) + failures >= Guaranteed
      BY <3>1, <3>4 DEF Enough, j
    <3>6. Keeps(j) \in Nat /\ Keeps(j) <= pods[j].ready
      BY SMT, <1>b, <2>3 DEF Keeps, Min2
    <3> QED
      <4> DEFINE d == deploy[i].replicas
                 o == pods[j].ready
                 q == Keeps(j)
      <4>1. Serving' = 0 + d + 0 + o
        BY <2>2, <2>4, <3>2, <3>3
      <4>2. d \in Nat /\ o \in Nat /\ q \in Nat /\ q <= o /\ d + q + failures >= Guaranteed
        BY <1>b, <2>3, <3>5, <3>6
      <4> HIDE DEF d, o, q
      <4>3. 0 + d + 0 + o + failures >= Guaranteed
        BY SMT, <2>5, <3>1, <4>2
      <4> QED
        BY <4>1, <4>3
  <2>7. CASE ~Served
    <3>1. floor = 0
      BY <2>7 DEF Served
    <3>2. RolloutSteps(config.strategy, 0).unavailable \in Nat
      BY <1>a, ConfigFacts, RolloutStepsType
    <3>3. Guaranteed \in Int /\ Guaranteed <= 0
      BY SMT, <3>1, <3>2 DEF Guaranteed
    <3>4. Serving' \in Nat
      BY <2>4
    <3>5. \A s, f \in Nat, g \in Int : g <= 0 => s + f >= g
      BY SMT
    <3> QED
      BY <2>5, <3>3, <3>4, <3>5
  <2> QED
    BY <2>6, <2>7
<1>6. CASE \/ MarkFirstGroup \/ HandleCreate \/ FinishRollout \/ SetRolling \/ ReconcileHPAs \/ Crash
           \/ (\E t \in Templates, r \in config.replicas : Edit(t, r)) \/ SyncMilvus \/ SyncDeploys \/ SyncPods
           \/ \E i \in Slots : SyncStatus(i) \/ \E n \in HpaMin..HpaMax : AutoScale(i, n)
  <2>1. pods' = pods
    BY <1>6 DEF MarkFirstGroup, HandleCreate, CreateDeploy, FinishRollout, SetRolling, ReconcileHPAs, Crash, Edit,
       SyncMilvus, SyncDeploys, SyncPods, SyncStatus, AutoScale, objects
  <2> QED
    BY SMT, <1>b, <1>c, <2>1 DEF Serving
<1> QED
  BY <1>1, <1>2, <1>4, <1>5, <1>6 DEF Next

\* Moving replicas between the Deployments (PlanScaleForRollout, guarded by
\* CheckDeploymentsStable) never takes the serving pods below the replicas asked
\* for less maxUnavailable, pods that failed on their own aside: for every
\* strategy, numbers or percentages, and every number of replicas, whatever users
\* edit and crashes interrupt, and with a cache of the Milvus object that lags.
THEOREM AlwaysAvailable ==
  ASSUME DeploysSeen, PodsSeen
  PROVE  Spec => Available
<1>1. TypeOK /\ IdleInv /\ ServedInv /\ [Next]_vars => ServedInv'
  BY ServedStep
<1>2. Spec => [](TypeOK /\ IdleInv)
  BY IdleAlways
<1>3. Spec => [](TypeOK /\ IdleInv /\ ServedInv) /\ [][Next]_vars
  BY <1>1, <1>2, ServedInit, PTL DEF Spec
<1>4. TypeOK /\ IdleInv /\ ServedInv /\ [Next]_vars
        => [(config.mode = "static" /\ Serving' < Serving /\ failures' = failures)
              => Serving' + failures >= Guaranteed]_vars
  BY AvailableStep
<1> QED
  BY <1>3, <1>4, PTL DEF Available

-----------------------------------------------------------------------------
(* Pods beside the replicas asked for.                                      *)

\* The pods of a slot, or those it is going to have.
Cap(i) == Max2(Live(pods[i]), deploy[i].replicas)

\* Nobody has asked for more replicas.
CeilingKnown == milvus.replicas <= ceiling /\ MView.replicas <= ceiling

\* Rollouts keep to maxSurge, or to what a step gives up.
Surging ==
  /\ RolloutSteps(config.strategy, ceiling).surge # 0
  /\ floor # 0 /\ \A t, u \in Templates : config.limits[t] = config.limits[u]

\* No slot has more pods than were asked for, and both together no more than the
\* surge allows; a slot without replicas, which is not waited for when the other
\* one is filled up, has no more than that either.
SurgeInv ==
  config.mode = "static" =>
    /\ CeilingKnown
    /\ \A i \in Slots : Cap(i) <= ceiling
    /\ Cap(0) + Cap(1) <= ceiling + Excess
    /\ Surging => \A i \in Slots : deploy[i].replicas = 0 => Live(pods[i]) <= Excess

LEMMA SurgeFacts ==
  ASSUME TypeOK, config.mode = "static"
  PROVE  LET steps == RolloutSteps(config.strategy, ceiling)
         IN  /\ floor \in Nat /\ ceiling \in Nat /\ milvus.replicas \in Nat /\ MView.replicas \in Nat
             /\ config.strategy \in StrategyType /\ steps.surge \in Nat /\ steps.unavailable \in Nat
             /\ steps.surge = 0 => Excess = 0 /\ ~Surging
             /\ Surging => Excess = Max2(steps.surge, steps.unavailable) /\ floor # 0
             /\ steps.surge # 0 /\ ~Surging => Excess = ceiling
             /\ Excess \in Nat
             /\ \A i \in Slots : /\ Live(pods[i]) \in Nat /\ deploy[i].replicas \in Nat /\ AllPods(pods[i]) \in Nat
                                 /\ Live(pods[i]) <= AllPods(pods[i]) /\ Cap(i) \in Nat
                                 /\ Live(pods[i]) <= Cap(i) /\ deploy[i].replicas <= Cap(i)
                                 /\ Cap(i) \in {Live(pods[i]), deploy[i].replicas}
<1> DEFINE steps == RolloutSteps(config.strategy, ceiling)
<1>1. config \in Configs
  BY DEF TypeOK
<1>2. config.replicas \subseteq Nat /\ config.strategy \in StrategyType
  BY <1>1, ConfigFacts
<1>3. floor \in Nat /\ ceiling \in Nat /\ milvus.replicas \in Nat /\ MView.replicas \in Nat
  BY <1>2, ViewTypes DEF TypeOK, MilvusType
<1>4. steps.surge \in Nat /\ steps.unavailable \in Nat
  BY <1>2, <1>3, RolloutStepsType
<1>5. /\ steps.surge = 0 => Excess = 0 /\ ~Surging
      /\ Surging => Excess = Max2(steps.surge, steps.unavailable) /\ floor # 0
      /\ steps.surge # 0 /\ ~Surging => Excess = ceiling
  BY DEF Excess, Surging
<1>6. Max2(steps.surge, steps.unavailable) \in Nat
  <2> HIDE DEF steps
  <2> QED
    BY <1>4 DEF Max2
<1>7. Excess \in Nat
  BY SMT, <1>3, <1>5, <1>6
<1>8. \A i \in Slots : /\ Live(pods[i]) \in Nat /\ deploy[i].replicas \in Nat /\ AllPods(pods[i]) \in Nat
                       /\ Live(pods[i]) <= AllPods(pods[i]) /\ Cap(i) \in Nat
                       /\ Live(pods[i]) <= Cap(i) /\ deploy[i].replicas <= Cap(i)
                       /\ Cap(i) \in {Live(pods[i]), deploy[i].replicas}
  <2> SUFFICES ASSUME NEW i \in Slots
               PROVE  /\ Live(pods[i]) \in Nat /\ deploy[i].replicas \in Nat /\ AllPods(pods[i]) \in Nat
                      /\ Live(pods[i]) <= AllPods(pods[i]) /\ Cap(i) \in Nat
                      /\ Live(pods[i]) <= Cap(i) /\ deploy[i].replicas <= Cap(i)
                      /\ Cap(i) \in {Live(pods[i]), deploy[i].replicas}
    OBVIOUS
  <2> DEFINE a == Live(pods[i])
             b == deploy[i].replicas
             d == pods[i].dying
  <2>1. a \in Nat /\ b \in Nat /\ d \in Nat /\ AllPods(pods[i]) = a + d /\ Cap(i) = Max2(a, b)
    BY SlotFacts DEF AllPods, Cap
  <2> HIDE DEF a, b, d
  <2>2. a + d \in Nat /\ a <= a + d /\ Max2(a, b) \in Nat /\ a <= Max2(a, b) /\ b <= Max2(a, b) /\ Max2(a, b) \in {a, b}
    BY SMT, <2>1 DEF Max2
  <2> QED
    BY <2>1, <2>2 DEF a, b
<1> QED
  BY <1>2, <1>3, <1>4, <1>5, <1>7, <1>8

\* A slot gets neither replicas nor pods, and gives up its last replicas only when
\* the component is stopped.
Shrinks(i) ==
  /\ deploy'[i].replicas <= deploy[i].replicas /\ Live(pods'[i]) <= Cap(i)
  /\ deploy'[i].replicas = 0 /\ ~Stopping => deploy[i].replicas = 0 /\ Live(pods'[i]) <= Live(pods[i])

LEMMA KeepsShrinking ==
  ASSUME TypeOK, config.mode = "static", NEW i \in Slots, deploy'[i].replicas = deploy[i].replicas,
         \/ Live(pods'[i]) \in Nat /\ Live(pods'[i]) <= Live(pods[i])
         \/ Live(pods'[i]) = deploy[i].replicas
  PROVE  Shrinks(i)
<1>1. /\ Live(pods[i]) \in Nat /\ deploy[i].replicas \in Nat /\ Cap(i) \in Nat
      /\ Live(pods[i]) <= Cap(i) /\ deploy[i].replicas <= Cap(i)
  BY SurgeFacts
<1> QED
  BY SMT, <1>1 DEF Shrinks

\* Only ScaleDeployments gives replicas to a Deployment of a component whose
\* replicas the spec fixes.
LEMMA StaticSteps ==
  ASSUME TypeOK, IdleInv, DeploysSeen, config.mode = "static", [Next]_vars, ~ScaleDeployments
  PROVE  \A i \in Slots : Shrinks(i)
<1>a. DView = deploy /\ deploy \in [Slots -> DeployType] /\ pods \in [Slots -> PodsType] /\ MView \in MilvusType
  BY DeploysAreSeen, ViewTypes DEF TypeOK
<1>b. \A i \in Slots : deploy[i].template \in Templates \cup {Dummy} /\ deploy[i].replicas \in Nat
  BY <1>a DEF DeployType
<1>c. \A i \in Slots : Live(pods[i]) \in Nat /\ Live(pods[i]) <= Live(pods[i])
  <2>1. \A n \in Nat : n <= n
    BY SMT
  <2> QED
    BY <2>1, SlotFacts
<1>1. CASE UNCHANGED <<deploy, pods>>
  BY <1>1, <1>c, KeepsShrinking
<1>2. CASE HandleCreate
  <2>1. PICK i \in Slots : CreateDeploy(i)
    BY <1>2 DEF HandleCreate, Slots
  <2>2. pods' = pods /\ ~deploy[i].exists
    BY <2>1 DEF CreateDeploy
  <2>3. deploy'[i].replicas = 0 /\ \A j \in Slots \ {i} : deploy'[j] = deploy[j]
    BY <1>a, <2>1 DEF CreateDeploy, Absent
  <2>4. \A j \in Slots : deploy'[j].replicas = deploy[j].replicas
    BY <2>2, <2>3 DEF IdleInv, CreatedFirst
  <2> QED
    BY <1>c, <2>2, <2>4, KeepsShrinking
<1>3. CASE HandleStop
  <2>1. TwoDeploys /\ Stopping
    BY <1>3 DEF HandleStop
  <2>2. CASE \E i \in Slots : UpdateDeploy(i, DView[i].template, 0)
    <3>1. PICK i \in Slots : UpdateDeploy(i, deploy[i].template, 0)
      BY <1>a, <2>2
    <3>2. deploy'[i].replicas = 0 /\ pods' = pods /\ \A j \in Slots \ {i} : deploy'[j] = deploy[j]
      BY <3>1, StopWrites
    <3>3. \A j \in Slots \ {i} : Shrinks(j)
      BY <1>c, <3>2, KeepsShrinking
    <3>4. Live(pods[i]) <= Cap(i) /\ 0 <= deploy[i].replicas
      BY SMT, <1>b, SurgeFacts
    <3>5. Shrinks(i)
      BY <2>1, <3>2, <3>4 DEF Shrinks
    <3> QED
      BY <3>3, <3>5
  <2>3. CASE UNCHANGED <<deploy, pods>>
    BY <1>1, <2>3
  <2> QED
    BY <1>3, <2>1, <2>2, <2>3, CurrentSlot DEF HandleStop
<1>4. CASE PrepareNewRollout
  <2> DEFINE k == RolloutSlot
  <2>1. k \in Slots
    BY <1>4, CurrentSlot DEF PrepareNewRollout, Rolling, RolloutSlot
  <2>2. UpdateDeploy(k, Desired, deploy[k].replicas)
    BY <1>4, <1>a DEF PrepareNewRollout
  <2>3. Desired \in Templates \cup {Dummy}
    BY <1>a DEF Desired, MilvusType
  <2> HIDE DEF k
  <2>4. deploy'[k].replicas = deploy[k].replicas /\ \A j \in Slots \ {k} : deploy'[j] = deploy[j] /\ pods'[j] = pods[j]
    BY <1>b, <2>1, <2>2, <2>3, UpdateType
  <2>5. pods' = pods \/ pods' = [pods EXCEPT ![k] = Outdated(pods[k])]
    BY <2>2 DEF UpdateDeploy
  <2>6. Live(pods'[k]) \in Nat /\ Live(pods'[k]) <= Live(pods[k])
    <3>1. CASE pods' = pods
      BY <1>c, <2>1, <3>1
    <3>2. CASE pods' = [pods EXCEPT ![k] = Outdated(pods[k])]
      <4>1. pods'[k].old = pods[k].old + pods[k].ready /\ pods'[k].ready = 0 /\ pods'[k].starting = 0
        BY <1>a, <2>1, <3>2 DEF Outdated, PodsType
      <4>2. pods[k].old \in Nat /\ pods[k].ready \in Nat /\ pods[k].starting \in Nat
        BY <2>1, SlotFacts
      <4> QED
        BY SMT, <4>1, <4>2 DEF Live
    <3> QED
      BY <2>5, <3>1, <3>2
  <2> QED
    BY <1>c, <2>1, <2>4, <2>6, KeepsShrinking
<1>5. ASSUME NEW k \in Slots, ScalePods(k) \/ PodReady(k) \/ PodGone(k) \/ PodUnready(k)
      PROVE  \A i \in Slots : Shrinks(i)
  <2>1. deploy' = deploy /\ \A i \in Slots \ {k} : pods'[i] = pods[i]
    BY <1>a, <1>5 DEF ScalePods, PodReady, PodGone, PodUnready
  <2>2. /\ pods[k].old \in Nat /\ pods[k].starting \in Nat /\ pods[k].ready \in Nat /\ deploy[k].replicas \in Nat
    BY SlotFacts
  <2>3. CASE ScalePods(k)
    <3>1. pods'[k] = ScaledPods(pods[k], deploy[k].replicas)
      BY <1>a, <2>3 DEF ScalePods
    <3>2. pods[k] \in PodsType
      BY <1>a, <2>1
    <3>3. Live(ScaledPods(pods[k], deploy[k].replicas)) = deploy[k].replicas
      BY <2>2, <3>2, ScaledFacts
    <3>4. Live(pods'[k]) = deploy[k].replicas
      BY <3>1, <3>3
    <3> QED
      BY <1>c, <2>1, <3>4, KeepsShrinking
  <2>4. CASE PodReady(k) \/ PodGone(k) \/ PodUnready(k)
    <3>1. /\ pods'[k].old = pods[k].old
          /\ \/ pods'[k].starting = pods[k].starting - 1 /\ pods'[k].ready = pods[k].ready + 1
             \/ pods'[k].starting = pods[k].starting /\ pods'[k].ready = pods[k].ready
             \/ pods'[k].starting = pods[k].starting + 1 /\ pods'[k].ready = pods[k].ready - 1
      BY ZenonT(120), <1>a, <2>4 DEF PodReady, PodGone, PodUnready, PodsType
    <3>2. Live(pods'[k]) = Live(pods[k])
      BY SMT, <2>2, <3>1 DEF Live
    <3> QED
      BY <1>c, <2>1, <3>2, KeepsShrinking
  <2> QED
    BY <1>5, <2>3, <2>4
<1>6. ASSUME NEW k \in Slots, SyncStatus(k) PROVE \A i \in Slots : Shrinks(i)
  <2>1. pods' = pods /\ \A j \in Slots : deploy'[j].replicas = deploy[j].replicas
    BY <1>a, <1>6 DEF SyncStatus, DeployType
  <2> QED
    BY <1>c, <2>1, KeepsShrinking
<1>7. ASSUME NEW k \in Slots, NEW n \in HpaMin..HpaMax, AutoScale(k, n) PROVE FALSE
  BY <1>7 DEF AutoScale
<1>8. CASE \/ MarkFirstGroup \/ FinishRollout \/ SetRolling \/ ReconcileHPAs \/ Crash \/ UNCHANGED vars
           \/ (\E t \in Templates, r \in config.replicas : Edit(t, r)) \/ SyncMilvus \/ SyncDeploys \/ SyncPods
  <2>1. UNCHANGED <<deploy, pods>>
    BY <1>8 DEF MarkFirstGroup, FinishRollout, SetRolling, ReconcileHPAs, Crash, Edit, SyncMilvus, SyncDeploys,
       SyncPods, objects, vars
  <2> QED
    BY <1>1, <2>1
<1> QED
  BY <1>2, <1>3, <1>4, <1>5, <1>6, <1>7, <1>8 DEF Next

\* Only users change the replicas that are asked for.
LEMMA AskedFor ==
  ASSUME TypeOK, [Next]_vars, ~\E t \in Templates, r \in config.replicas : Edit(t, r)
  PROVE  /\ UNCHANGED <<config, floor, ceiling>> /\ milvus'.replicas = milvus.replicas
         /\ MView'.replicas \in {MView.replicas, milvus.replicas}
<1>a. MView \in MilvusType /\ milvus \in MilvusType
  BY ViewTypes DEF TypeOK
<1>1. UNCHANGED <<config, floor, ceiling>>
  BY ZenonT(60) DEF Next, MarkFirstGroup, HandleCreate, CreateDeploy, HandleStop, FinishRollout, PrepareNewRollout, SetRolling,
     ScaleDeployments, ReconcileHPAs, Crash, ScalePods, SyncStatus, PodReady, PodGone, PodUnready, AutoScale,
     SyncMilvus, SyncDeploys, SyncPods, objects, views, history, vars
<1>2. \/ milvus' = milvus \/ milvus' = [milvus EXCEPT !.current = 0] \/ milvus' = [milvus EXCEPT !.rolling = FALSE]
      \/ \E i : milvus' = [milvus EXCEPT !.current = i, !.rolling = TRUE]
  BY DEF Next, MarkFirstGroup, HandleCreate, CreateDeploy, HandleStop, FinishRollout, PrepareNewRollout, SetRolling,
     ScaleDeployments, ReconcileHPAs, Crash, ScalePods, SyncStatus, PodReady, PodGone, PodUnready, AutoScale,
     SyncMilvus, SyncDeploys, SyncPods, WriteMilvus, objects, vars
<1>3. milvus'.replicas = milvus.replicas
  BY <1>a, <1>2 DEF MilvusType
<1>4. mseen' \in {mseen, milvus}
  BY ZenonT(60) DEF Next, MarkFirstGroup, HandleCreate, CreateDeploy, HandleStop, FinishRollout, PrepareNewRollout, SetRolling,
     ScaleDeployments, ReconcileHPAs, Crash, ScalePods, SyncStatus, PodReady, PodGone, PodUnready, AutoScale,
     SyncMilvus, SyncDeploys, SyncPods, objects, views, history, vars
<1>5. MView'.replicas \in {MView.replicas, milvus.replicas}
  BY <1>1, <1>3, <1>4 DEF MView
<1> QED
  BY <1>1, <1>3, <1>5

\* The numbers after a step that is not an edit.
LEMMA SurgeKept ==
  ASSUME UNCHANGED <<config, floor, ceiling>>
  PROVE  Excess' = Excess /\ (Surging' <=> Surging)
BY DEF Excess, Surging

\* The pods of a slot after a step.
LEMMA CapNext ==
  ASSUME TypeOK'
  PROVE  \A i \in Slots : /\ Live(pods'[i]) \in Nat /\ deploy'[i].replicas \in Nat
                          /\ Cap(i)' = Max2(Live(pods'[i]), deploy'[i].replicas)
<1>1. deploy' \in [Slots -> DeployType] /\ pods' \in [Slots -> PodsType]
  BY DEF TypeOK, DeployType, PodsType, Slots
<1>2. \A i \in Slots : /\ deploy'[i].replicas \in Nat
                       /\ pods'[i].old \in Nat /\ pods'[i].starting \in Nat /\ pods'[i].ready \in Nat
  BY <1>1 DEF DeployType, PodsType
<1>3. \A i \in Slots : Live(pods'[i]) \in Nat
  BY SMT, <1>2 DEF Live
<1> QED
  BY <1>2, <1>3 DEF Cap

LEMMA ExcessNext ==
  ASSUME TypeOK, TypeOK', config' = config, config.mode = "static"
  PROVE  ceiling' \in Nat /\ Excess' \in Nat
<1>1. config.replicas \subseteq Nat /\ config.strategy \in StrategyType
  BY ConfigFacts DEF TypeOK
<1>2. ceiling' \in Nat
  BY <1>1 DEF TypeOK
<1>3. /\ RolloutSteps(config.strategy, ceiling').surge \in Nat
      /\ RolloutSteps(config.strategy, ceiling').unavailable \in Nat
  BY <1>1, <1>2, RolloutStepsType
<1> QED
  BY <1>2, <1>3 DEF Excess, Max2

\* Steps that give nothing to a slot.
LEMMA ShrinkSurge ==
  ASSUME TypeOK, TypeOK', ServedInv, SurgeInv, config.mode = "static", UNCHANGED <<config, floor, ceiling>>,
         CeilingKnown', \A i \in Slots : Shrinks(i)
  PROVE  SurgeInv'
<1>1. /\ \A i \in Slots : Cap(i) <= ceiling
      /\ Cap(0) + Cap(1) <= ceiling + Excess
      /\ Surging => \A i \in Slots : deploy[i].replicas = 0 => Live(pods[i]) <= Excess
  BY DEF SurgeInv
<1>2. Excess' = Excess /\ (Surging' <=> Surging) /\ Excess \in Nat /\ ceiling \in Nat
  BY SurgeKept, SurgeFacts
<1>3. \A i \in Slots : /\ Live(pods[i]) \in Nat /\ deploy[i].replicas \in Nat /\ Cap(i) \in Nat
                       /\ deploy[i].replicas <= Cap(i)
  BY SurgeFacts
<1>4. \A i \in Slots : /\ Live(pods'[i]) \in Nat /\ deploy'[i].replicas \in Nat
                       /\ Cap(i)' = Max2(Live(pods'[i]), deploy'[i].replicas)
  BY CapNext
<1>5. \A i \in Slots : Cap(i)' \in Nat /\ Cap(i)' <= Cap(i)
  BY SMT, <1>3, <1>4 DEF Shrinks, Max2
<1>6. 0 \in Slots /\ 1 \in Slots
  BY DEF Slots
<1>7. \A i \in Slots : Cap(i)' <= ceiling
  BY SMT, <1>1, <1>2, <1>3, <1>5
<1>8. Cap(0)' + Cap(1)' <= ceiling + Excess
  BY SMT, <1>1, <1>2, <1>3, <1>5, <1>6
<1>9. ASSUME Surging, NEW i \in Slots, deploy'[i].replicas = 0 PROVE Live(pods'[i]) <= Excess
  <2>1. ~Stopping
    <3>1. Served
      BY <1>9 DEF Surging, Served
    <3>2. floor \in Nat /\ floor >= 1 /\ floor <= MView.replicas
      BY <3>1, ServedFacts DEF ServedInv, FloorKnown
    <3> QED
      BY SMT, <3>2 DEF Stopping
  <2>2. deploy[i].replicas = 0 /\ Live(pods'[i]) <= Live(pods[i])
    BY <1>9, <2>1 DEF Shrinks
  <2>3. Live(pods[i]) <= Excess /\ Live(pods[i]) \in Nat /\ Live(pods'[i]) \in Nat
    BY <1>1, <1>3, <1>4, <1>9, <2>2
  <2> QED
    BY SMT, <1>2, <2>2, <2>3
<1> QED
  BY <1>2, <1>7, <1>8, <1>9 DEF SurgeInv, Slots

\* An edit allows more when it asks for more replicas.
LEMMA EditSurge ==
  ASSUME TypeOK, TypeOK', ServedInv, SurgeInv, config.mode = "static",
         NEW t \in Templates, NEW r \in config.replicas, Edit(t, r)
  PROVE  SurgeInv'
<1> DEFINE steps == RolloutSteps(config.strategy, ceiling)
           more == RolloutSteps(config.strategy, ceiling')
<1>a. /\ UNCHANGED <<config, deploy, pods, mseen>> /\ floor' = Min2(floor, r) /\ ceiling' = Max2(ceiling, r)
      /\ milvus' = [milvus EXCEPT !.template = t, !.replicas = r]
  BY DEF Edit, views
<1>b. /\ CeilingKnown
      /\ \A i \in Slots : Cap(i) <= ceiling
      /\ Cap(0) + Cap(1) <= ceiling + Excess
      /\ Surging => \A i \in Slots : deploy[i].replicas = 0 => Live(pods[i]) <= Excess
  BY DEF SurgeInv
<1>c. /\ floor \in Nat /\ ceiling \in Nat /\ milvus.replicas \in Nat /\ MView.replicas \in Nat /\ Excess \in Nat
      /\ config.strategy \in StrategyType /\ steps.surge \in Nat /\ steps.unavailable \in Nat
      /\ steps.surge = 0 => Excess = 0 /\ ~Surging
      /\ Surging => Excess = Max2(steps.surge, steps.unavailable)
      /\ \A i \in Slots : Live(pods[i]) \in Nat /\ Cap(i) \in Nat
  BY SurgeFacts
<1>d. r \in Nat
  BY ConfigFacts DEF TypeOK
<1>e. floor' \in Nat /\ floor' <= floor /\ ceiling' \in Nat /\ ceiling <= ceiling' /\ r <= ceiling'
  BY SMT, <1>a, <1>c, <1>d DEF Min2, Max2
<1>f. more.surge \in Nat /\ more.unavailable \in Nat
  BY <1>c, <1>e, RolloutStepsType
<1>g. /\ steps.surge <= more.surge
      /\ ceiling >= 1 /\ steps.surge = 0 => more.surge = 0
      /\ steps.surge # 0 => steps.unavailable <= more.unavailable
  BY <1>c, <1>e, StepsGrow
<1>h. /\ more.surge = 0 => Excess' = 0
      /\ Surging' => Excess' = Max2(more.surge, more.unavailable) /\ more.surge # 0 /\ floor' # 0
      /\ more.surge # 0 /\ ~Surging' => Excess' = ceiling'
  BY <1>a DEF Excess, Surging
<1>1. CeilingKnown'
  <2>1. milvus'.replicas = r /\ MView'.replicas \in {r, MView.replicas}
    <3>1. milvus'.replicas = r
      BY <1>a DEF TypeOK, MilvusType
    <3> QED
      BY <1>a, <3>1 DEF MView
  <2> QED
    BY SMT, <1>b, <1>c, <1>d, <1>e, <2>1 DEF CeilingKnown
<1>2. \A i \in Slots : Cap(i)' = Cap(i)
  BY <1>a DEF Cap
<1>3. 0 \in Slots /\ 1 \in Slots
  BY DEF Slots
<1>4. \A i \in Slots : Cap(i) <= ceiling'
  <2> SUFFICES ASSUME NEW i \in Slots PROVE Cap(i) <= ceiling'
    OBVIOUS
  <2>1. Cap(i) \in Nat /\ Cap(i) <= ceiling /\ ceiling \in Nat /\ ceiling' \in Nat /\ ceiling <= ceiling'
    BY <1>b, <1>c, <1>e
  <2>2. \A x, y, z \in Nat : x <= y /\ y <= z => x <= z
    BY SMT
  <2> QED
    BY <2>1, <2>2
<1> HIDE DEF steps, more
<1>5. Surging' => Surging /\ Excess <= Excess' /\ Excess' \in Nat
  <2> SUFFICES ASSUME Surging' PROVE Surging /\ Excess <= Excess' /\ Excess' \in Nat
    OBVIOUS
  <2>1. floor' # 0 /\ more.surge # 0 /\ Excess' = Max2(more.surge, more.unavailable)
    BY <1>h
  <2>2. floor # 0 /\ floor >= 1
    <3>1. \A x, y \in Nat : y <= x /\ y # 0 => x # 0 /\ x >= 1
      BY SMT
    <3> QED
      BY <1>c, <1>e, <2>1, <3>1
  <2>3. ceiling >= 1
    <3>1. FloorKnown
      BY <2>2 DEF ServedInv, Served
    <3> QED
      BY SMT, <1>b, <1>c, <2>2, <3>1 DEF FloorKnown, CeilingKnown
  <2>4. steps.surge # 0
    BY <1>g, <2>1, <2>3
  <2>5. Surging
    BY <1>a, <2>2, <2>4 DEF Surging, steps, more
  <2>6. Excess = Max2(steps.surge, steps.unavailable)
    BY <1>c, <2>5
  <2> QED
    BY SMTT(60), <1>c, <1>f, <1>g, <2>1, <2>4, <2>5, <2>6 DEF Max2
<1>6. Cap(0) + Cap(1) <= ceiling' + Excess'
  <2>1. CASE more.surge = 0
    <3>1. steps.surge = 0 /\ Excess' = 0
      BY SMTT(60), <1>c, <1>f, <1>g, <1>h, <2>1
    <3> QED
      BY SMTT(60), <1>b, <1>c, <1>e, <1>3, <3>1
  <2>2. CASE Surging'
    BY SMT, <1>b, <1>c, <1>e, <1>3, <1>5, <2>2
  <2>3. CASE more.surge # 0 /\ ~Surging'
    BY SMTT(60), <1>c, <1>e, <1>h, <1>3, <1>4, <2>3
  <2> QED
    BY <2>1, <2>2, <2>3
<1>7. ASSUME Surging', NEW i \in Slots, deploy[i].replicas = 0 PROVE Live(pods[i]) <= Excess'
  BY SMTT(60), <1>b, <1>c, <1>5, <1>7
<1> QED
  BY <1>a, <1>1, <1>2, <1>4, <1>6, <1>7 DEF SurgeInv, Slots

\* ScaleDeployments keeps to what is allowed.
LEMMA ScaleSurge ==
  ASSUME TypeOK, ServedInv, TemplateGiven, SurgeInv, DeploysSeen, PodsSeen, config.mode = "static", ScaleDeployments,
         UNCHANGED <<config, floor, ceiling>>, CeilingKnown'
  PROVE  /\ SurgeInv'
         /\ RolloutSteps(config.strategy, ceiling).surge = 0 =>
              \A i \in Slots : deploy'[i].replicas > deploy[i].replicas =>
                                 deploy'[i].replicas + AllPods(pods[Last(i)]) <= ceiling
<1> DEFINE c == Current
           l == Last(Current)
           e == MView.replicas
           now == RolloutSteps(config.strategy, e)
           steps == RolloutSteps(config.strategy, ceiling)
           lc == Live(pods[c])
           ll == Live(pods[l])
           ac == AllPods(pods[c])
           al == AllPods(pods[l])
           rc == deploy[c].replicas
           rl == deploy[l].replicas
           nc == deploy'[c].replicas
           nl == deploy'[l].replicas
           same == config.limits[deploy[c].template] = config.limits[deploy[l].template]
<1>a. /\ c \in Slots /\ l \in Slots /\ c # l /\ Last(c) = l /\ Last(l) = c /\ e \in Nat /\ e # 0 /\ pods' = pods
      /\ nc \in Nat /\ nl \in Nat
  BY ScaleCases
<1>b. \/ /\ rl = 0 /\ deploy'[l] = deploy[l]
         /\ \/ rc < e /\ nc = e /\ (now.surge = 0 => al = 0)
            \/ nc = rc - 1 /\ nc >= e
      \/ /\ ac = rc /\ al = rl /\ rl # 0 /\ deploy'[l] = deploy[l]
         /\ nc > rc /\ nc <= Max2(e, rl)
         /\ now.surge = 0 \/ same => nc + rl <= e + now.surge
      \/ /\ ac = rc /\ al = rl /\ deploy'[c] = deploy[c] /\ nl < rl
         /\ now.surge # 0 => rl - nl <= Max2(1, now.unavailable)
  BY ScaleCases
<1>c. /\ ceiling \in Nat /\ Excess \in Nat /\ config.strategy \in StrategyType
      /\ steps.surge \in Nat /\ steps.unavailable \in Nat
      /\ steps.surge = 0 => Excess = 0 /\ ~Surging
      /\ Surging => Excess = Max2(steps.surge, steps.unavailable)
      /\ steps.surge # 0 /\ ~Surging => Excess = ceiling
  BY SurgeFacts
<1>d. /\ lc \in Nat /\ ll \in Nat /\ ac \in Nat /\ al \in Nat /\ rc \in Nat /\ rl \in Nat
      /\ lc <= ac /\ ll <= al
  BY <1>a, SurgeFacts
<1>e. e <= ceiling
  BY DEF SurgeInv, CeilingKnown
<1>f. /\ now.surge \in Nat /\ now.unavailable \in Nat /\ now.surge <= steps.surge
      /\ now.surge = 0 => steps.surge = 0
      /\ now.surge # 0 => now.unavailable <= steps.unavailable
  <2>1. e >= 1
    BY SMT, <1>a
  <2>2. now.surge \in Nat /\ now.unavailable \in Nat
    BY <1>a, <1>c, RolloutStepsType
  <2> QED
    BY <1>a, <1>c, <1>e, <2>1, <2>2, StepsGrow
<1>g. (c = 0 /\ l = 1) \/ (c = 1 /\ l = 0)
  BY <1>a DEF Slots
<1>h. /\ Max2(lc, rc) <= ceiling /\ Max2(ll, rl) <= ceiling
      /\ Max2(lc, rc) + Max2(ll, rl) <= ceiling + Excess
      /\ Surging => (rc = 0 => lc <= Excess) /\ (rl = 0 => ll <= Excess)
  <2>1. Cap(c) = Max2(lc, rc) /\ Cap(l) = Max2(ll, rl)
    BY DEF Cap
  <2>2. Cap(c) <= ceiling /\ Cap(l) <= ceiling
    BY <1>a DEF SurgeInv
  <2>3. Surging => (rc = 0 => lc <= Excess) /\ (rl = 0 => ll <= Excess)
    BY <1>a DEF SurgeInv
  <2>4. Cap(0) + Cap(1) <= ceiling + Excess
    BY DEF SurgeInv
  <2>5. \A x, y \in Nat : x + y = y + x
    BY SMT
  <2>6. Cap(c) \in Nat /\ Cap(l) \in Nat
    BY <1>d, <2>1 DEF Max2
  <2> HIDE DEF c, l
  <2>7. Cap(c) + Cap(l) <= ceiling + Excess
    BY <1>g, <2>4, <2>5, <2>6
  <2> QED
    BY <2>1, <2>2, <2>3, <2>7
<1>i. Surging /\ rl # 0 => same
  <2> SUFFICES ASSUME Surging, rl # 0 PROVE same
    OBVIOUS
  <2>1. deploy[c].exists /\ deploy[l].exists /\ c = MView.current
    BY <1>a, DeploysAreSeen DEF ScaleDeployments, Rolling, TwoDeploys, Current
  <2>2. Used(c) /\ Used(l)
    BY <2>1 DEF Used
  <2>3. deploy[c].template # Dummy /\ deploy[l].template # Dummy
    BY <1>a, <2>1, <2>2 DEF TemplateGiven
  <2>4. deploy[c].template \in Templates /\ deploy[l].template \in Templates
    BY <1>a, <2>3 DEF TypeOK, DeployType
  <2> QED
    BY <2>4 DEF Surging
<1>j. /\ deploy'[c] = deploy[c] => nc = rc
      /\ deploy'[l] = deploy[l] => nl = rl
  OBVIOUS
<1> HIDE DEF c, l, e, now, steps, lc, ll, ac, al, rc, rl, nc, nl, same
<1>k. /\ e \in Nat /\ e # 0 /\ nc \in Nat /\ nl \in Nat /\ e <= ceiling /\ ceiling \in Nat /\ Excess \in Nat
      /\ steps.surge \in Nat /\ steps.unavailable \in Nat
      /\ steps.surge = 0 => Excess = 0 /\ ~Surging
      /\ Surging => Excess = Max2(steps.surge, steps.unavailable)
      /\ steps.surge # 0 /\ ~Surging => Excess = ceiling
  BY <1>a, <1>c, <1>e
<1>1. /\ Max2(lc, nc) <= ceiling /\ Max2(ll, nl) <= ceiling
      /\ Max2(lc, nc) + Max2(ll, nl) <= ceiling + Excess
      /\ Surging => (nc = 0 => lc <= Excess) /\ (nl = 0 => ll <= Excess)
      /\ steps.surge = 0 => (nc > rc => nc + al <= ceiling) /\ (nl > rl => nl + ac <= ceiling)
  <2>1. CASE rl = 0 /\ nl = rl /\ rc < e /\ nc = e /\ (now.surge = 0 => al = 0)
    BY SMTT(60), <1>d, <1>k, <1>f, <1>h, <2>1 DEF Max2
  <2>2. CASE rl = 0 /\ nl = rl /\ nc = rc - 1 /\ nc >= e
    BY SMTT(60), <1>d, <1>k, <1>h, <2>2 DEF Max2
  <2>3. CASE /\ ac = rc /\ al = rl /\ rl # 0 /\ nl = rl /\ nc > rc /\ nc <= Max2(e, rl)
             /\ now.surge = 0 \/ same => nc + rl <= e + now.surge
    <3>1. steps.surge = 0 \/ Surging => nc + rl <= e + now.surge
      BY SMTT(60), <1>f, <1>i, <1>k, <2>3
    <3> QED
      BY SMTT(60), <1>d, <1>k, <1>f, <1>h, <2>3, <3>1 DEF Max2
  <2>4. CASE /\ ac = rc /\ al = rl /\ nc = rc /\ nl < rl
             /\ now.surge # 0 => rl - nl <= Max2(1, now.unavailable)
    BY SMTT(60), <1>d, <1>k, <1>f, <1>h, <2>4 DEF Max2
  <2> QED
    BY <1>b, <1>j, <2>1, <2>2, <2>3, <2>4
<1>2. Excess' = Excess /\ (Surging' <=> Surging)
  BY SurgeKept
<1>3. /\ Cap(0)' = Max2(Live(pods[0]), deploy'[0].replicas)
      /\ Cap(1)' = Max2(Live(pods[1]), deploy'[1].replicas)
  BY <1>a DEF Cap
<1>4. \A x, y \in Nat : x + y = y + x
  BY SMT
<1>5. Max2(lc, nc) \in Nat /\ Max2(ll, nl) \in Nat
  BY <1>a, <1>d DEF Max2
<1>6. \/ Cap(0)' = Max2(lc, nc) /\ Cap(1)' = Max2(ll, nl)
      \/ Cap(0)' = Max2(ll, nl) /\ Cap(1)' = Max2(lc, nc)
  BY <1>g, <1>3 DEF lc, ll, nc, nl
<1>7. (\A i \in Slots : Cap(i)' <= ceiling) /\ Cap(0)' + Cap(1)' <= ceiling + Excess
  BY <1>1, <1>4, <1>5, <1>6 DEF Slots
<1>8. \A i \in Slots : i = c \/ i = l
  BY <1>g DEF Slots
<1>9. Surging => \A i \in Slots : deploy'[i].replicas = 0 => Live(pods'[i]) <= Excess
  BY <1>a, <1>1, <1>8 DEF lc, ll, nc, nl
<1>10. SurgeInv'
  BY <1>2, <1>7, <1>9 DEF SurgeInv, Slots
<1>11. steps.surge = 0 =>
         \A i \in Slots : deploy'[i].replicas > deploy[i].replicas =>
                            deploy'[i].replicas + AllPods(pods[Last(i)]) <= ceiling
  BY <1>a, <1>1, <1>8 DEF ac, al, rc, rl, nc, nl
<1> QED
  BY <1>10, <1>11 DEF steps

\* A step of the controller, the cluster or a user.
LEMMA SurgeStep ==
  ASSUME TypeOK, IdleInv, ServedInv, TemplateGiven, SurgeInv, DeploysSeen, PodsSeen, [Next]_vars
  PROVE  SurgeInv'
<1>1. TypeOK' /\ config' = config
  <2>1. TypeOK'
    BY TypeStep
  <2>2. config' = config
    BY AskedFor DEF Edit
  <2> QED
    BY <2>1, <2>2
<1>2. CASE config.mode # "static"
  BY <1>1, <1>2 DEF SurgeInv
<1>3. CASE config.mode = "static" /\ \E t \in Templates, r \in config.replicas : Edit(t, r)
  BY <1>1, <1>3, EditSurge
<1>4. CASE config.mode = "static" /\ ~\E t \in Templates, r \in config.replicas : Edit(t, r)
  <2>1. UNCHANGED <<config, floor, ceiling>>
    BY <1>4, AskedFor
  <2>2. CeilingKnown'
    <3>1. CeilingKnown
      BY <1>4 DEF SurgeInv
    <3> QED
      BY <1>4, <3>1, AskedFor DEF CeilingKnown
  <2>3. CASE ScaleDeployments
    BY <1>4, <2>1, <2>2, <2>3, ScaleSurge
  <2>4. CASE ~ScaleDeployments
    BY <1>1, <1>4, <2>1, <2>2, <2>4, StaticSteps, ShrinkSurge
  <2> QED
    BY <2>3, <2>4
<1> QED
  BY <1>2, <1>3, <1>4

LEMMA SurgeInit == Init => SurgeInv
<1> SUFFICES ASSUME Init, config.mode = "static" PROVE SurgeInv
  BY DEF SurgeInv
<1>1. TypeOK
  BY TypeInit
<1>2. ceiling \in Nat /\ Excess \in Nat
  BY <1>1, SurgeFacts
<1>3. milvus.replicas = ceiling /\ MView.replicas = ceiling
  <2>1. PICK t \in Templates, r \in config.replicas :
          milvus = [template |-> t, replicas |-> r, current |-> NoSlot, rolling |-> FALSE] /\ ceiling = r
    BY DEF Init
  <2>2. milvus.replicas = ceiling
    BY <2>1
  <2> QED
    BY <2>2 DEF Init, MView
<1>4. \A i \in Slots : Live(pods[i]) = 0 /\ Cap(i) = 0
  <2>1. 0 + 0 + 0 = 0
    BY SMT
  <2>2. NoPods.old = 0 /\ NoPods.starting = 0 /\ NoPods.ready = 0 /\ Absent.replicas = 0
    BY DEF NoPods, Absent
  <2>3. \A i \in Slots : pods[i] = NoPods /\ deploy[i] = Absent
    BY DEF Init
  <2> QED
    BY <2>1, <2>2, <2>3 DEF Live, Cap, Max2
<1>5. 0 <= Excess /\ 0 <= ceiling /\ 0 + 0 <= ceiling + Excess /\ ceiling <= ceiling
  BY SMT, <1>2
<1>6. 0 \in Slots /\ 1 \in Slots
  BY DEF Slots
<1> QED
  BY <1>3, <1>4, <1>5, <1>6 DEF SurgeInv, CeilingKnown

\* What SurgeRespected says of a step.
LEMMA SurgeAction ==
  ASSUME TypeOK, IdleInv, ServedInv, TemplateGiven, SurgeInv, DeploysSeen, PodsSeen, [Next]_vars,
         config.mode = "static"
  PROVE  /\ (Live(pods[0]) + Live(pods[1]) <= ceiling + Excess)'
         /\ RolloutSteps(config.strategy, ceiling).surge = 0 =>
              \A i \in Slots :
                deploy'[i].replicas > deploy[i].replicas =>
                  deploy'[i].replicas + AllPods(pods[Last(i)]) <= ceiling
<1>1. TypeOK' /\ config' = config
  <2>1. TypeOK'
    BY TypeStep
  <2>2. config' = config
    BY AskedFor DEF Edit
  <2> QED
    BY <2>1, <2>2
<1>2. (Live(pods[0]) + Live(pods[1]) <= ceiling + Excess)'
  <2>1. SurgeInv'
    BY SurgeStep
  <2>2. \A i \in Slots : /\ Live(pods'[i]) \in Nat /\ deploy'[i].replicas \in Nat
                         /\ Cap(i)' = Max2(Live(pods'[i]), deploy'[i].replicas)
    BY <1>1, CapNext
  <2>3. ceiling' \in Nat /\ Excess' \in Nat
    BY <1>1, ExcessNext
  <2>4. Cap(0)' + Cap(1)' <= ceiling' + Excess' /\ 0 \in Slots /\ 1 \in Slots
    BY <1>1, <2>1 DEF SurgeInv, Slots
  <2> QED
    BY SMT, <2>2, <2>3, <2>4 DEF Max2
<1>3. CASE ScaleDeployments
  <2>1. ~\E t \in Templates, r \in config.replicas : Edit(t, r)
    <3>1. milvus' = milvus /\ milvus \in MilvusType
      BY <1>3 DEF ScaleDeployments, TypeOK
    <3>2. ASSUME NEW t, NEW r, Edit(t, r) PROVE milvus'.template = t /\ milvus'.replicas = r
      BY <3>1, <3>2 DEF Edit, MilvusType
    <3> QED
      BY <3>1, <3>2 DEF Edit
  <2>2. UNCHANGED <<config, floor, ceiling>> /\ CeilingKnown'
    <3>1. CeilingKnown
      BY DEF SurgeInv
    <3> QED
      BY <2>1, <3>1, AskedFor DEF CeilingKnown
  <2> QED
    BY <1>2, <1>3, <2>2, ScaleSurge
<1>4. CASE ~ScaleDeployments
  <2>1. \A i \in Slots : deploy'[i].replicas <= deploy[i].replicas
    BY <1>4, StaticSteps DEF Shrinks
  <2>2. \A i \in Slots : deploy[i].replicas \in Nat /\ deploy'[i].replicas \in Nat
    BY <1>1 DEF TypeOK, DeployType
  <2>3. \A i \in Slots : ~(deploy'[i].replicas > deploy[i].replicas)
    BY SMT, <2>1, <2>2
  <2> QED
    BY <1>2, <2>3
<1> QED
  BY <1>3, <1>4

\* A rollout (planScaleForRollout, planScaleForNormalState, CheckDeploymentsStable)
\* keeps to maxSurge: the two Deployments together never run more pods than the
\* replicas asked for and the excess the plan allows, and without a surge no
\* replica is added beside pods of the other Deployment, terminating ones
\* included, that would take them over the replicas asked for.  This holds for every
\* strategy, numbers or percentages, and every number of replicas, whatever users
\* edit and crashes interrupt, and with a cache of the Milvus object that lags.
THEOREM SurgeIsRespected ==
  ASSUME DeploysSeen, PodsSeen
  PROVE  Spec => SurgeRespected
<1> DEFINE Inv == TypeOK /\ IdleInv /\ ServedInv /\ TemplateGiven /\ SurgeInv
<1>1. TypeOK /\ IdleInv /\ ServedInv /\ TemplateGiven /\ SurgeInv /\ [Next]_vars => (ServedInv /\ TemplateGiven /\ SurgeInv)'
  BY ServedStep, GivenStep, SurgeStep
<1>2. Spec => [](TypeOK /\ IdleInv)
  BY IdleAlways
<1>3. Spec => []Inv /\ [][Next]_vars
  BY <1>1, <1>2, ServedInit, GivenInit, SurgeInit, PTL DEF Spec
<1>4. Inv /\ [Next]_vars
        => [config.mode = "static" =>
              /\ (Live(pods[0]) + Live(pods[1]) <= ceiling + Excess)'
              /\ RolloutSteps(config.strategy, ceiling).surge = 0 =>
                   \A i \in Slots :
                     deploy'[i].replicas > deploy[i].replicas =>
                       deploy'[i].replicas + AllPods(pods[Last(i)]) <= ceiling]_vars
  BY SurgeAction
<1> QED
  BY <1>3, <1>4, PTL DEF SurgeRespected
=============================================================================
