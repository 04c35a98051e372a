------------------------- MODULE MilvusUpgradeProofs -------------------------
(***************************************************************************)
(* Proofs about MilvusUpgrade, for any workloads, retries, faults and      *)
(* users: the metadata is changed only with a backup in place, the record  *)
(* of the old instance is taken once, the tasks work in turn, and, where   *)
(* nothing else disturbs the instance, an upgrade and a rollback leave the *)
(* metadata, the image and the replicas they promise.                      *)
(***************************************************************************)
EXTENDS MilvusUpgrade, TLAPS

\* Zenon proves what follows; the steps that need arithmetic cite SMT.
USE Zenon

USE DEF Pending, OldVersionStoppingState, BackupMetaState, UpdatingMetaState,
        NewVersionStartingState, Succeeded, BakupMetaFailed, UpdateMetaFailed,
        RollbackNewVersionStoppingState, RollbackRestoringOldMetaState,
        RollbackOldVersionStartingState, RollbackSucceeded, RollbackFailed,
        Backup, Update, Rollback, NoImage

-----------------------------------------------------------------------------
(* Type correctness.                                                        *)

\* DetermineCurrentState keeps the type of a status.
LEMMA DetermineType ==
  ASSUME NEW s \in MilvusUpgradeStatus, NEW op
  PROVE  DetermineCurrentState(s, op) \in MilvusUpgradeStatus
BY ZenonT(60) DEF DetermineCurrentState, MilvusUpgradeStatus, States, NotRollbackStates

\* A fault is counted within its bound.
LEMMA FaultType ==
  ASSUME faults \in 0..MaxFaults, Fault
  PROVE  faults' \in 0..MaxFaults
BY SMT, UpgradeAssumption DEF Fault

\* Zero replicas are replicas.
LEMMA ZerosType == Zeros \in Replicas
BY DEF Zeros, Replicas

\* Replicas are numbers.
LEMMA ReplicasInt == ASSUME NEW r \in Replicas, NEW w \in Workloads PROVE r[w] \in Int
<1>1. r[w] \in ReplicaChoices \cup {0}
  BY DEF Replicas
<1>2. \A n \in ReplicaChoices : n \in Int
  BY UpgradeAssumption
<1>3. QED
  BY SMT, <1>1, <1>2

\* recordOldInfo keeps the type of a status.
LEMMA RecordType ==
  ASSUME NEW m \in MilvusUpgradeStatus, mread \in MilvusObject
  PROVE  RecordOldInfo(m) \in MilvusUpgradeStatus
BY ZenonT(60) DEF RecordOldInfo, MilvusUpgradeStatus, MilvusObject, Replicas

\* An update of the Milvus object keeps the types.
LEMMA UpdateMilvusType ==
  ASSUME TypeOK,
         NEW m \in [image: Images \cup {NoImage}, replicas: Replicas,
                    orderedImages: BOOLEAN, upgradeStopping: BOOLEAN, stoppedAt: StopTimes],
         UpdateMilvus(m)
  PROVE  milvus' \in MilvusObject /\ mread' \in MilvusObject /\ mseen' \in MilvusObject
BY DEF UpdateMilvus, TypeOK, MilvusObject, Images

\* So does an update that is refused or fails.
LEMMA UpdateMilvusFailsType ==
  ASSUME TypeOK, UpdateMilvusFails
  PROVE  /\ milvus' \in MilvusObject /\ mread' \in MilvusObject /\ mseen' \in MilvusObject
         /\ faults' \in 0..MaxFaults /\ UNCHANGED <<rescales, wanted>>
BY FaultType DEF UpdateMilvusFails, TypeOK

\* Stopping Milvus keeps the types of what it touches.
LEMMA StopMilvusType ==
  ASSUME TypeOK, StopMilvus
  PROVE  /\ milvus' \in MilvusObject /\ mread' \in MilvusObject /\ mseen' \in MilvusObject
         /\ alpha' \in AlphaObject
         /\ faults' \in 0..MaxFaults /\ rescales' \in 0..MaxRescales /\ wanted' \in Replicas
<1>1. CASE UNCHANGED <<milvusVars, budgetVars>>
  BY <1>1 DEF TypeOK, milvusVars, budgetVars
<1>2. CASE HasAlpha /\ Fault /\ UNCHANGED <<milvusVars, rescales, wanted>>
  BY <1>2, FaultType DEF TypeOK, milvusVars
<1>3. ASSUME AnnotateAlphaCR("upgrading") PROVE alpha' \in AlphaObject
  BY <1>3 DEF AnnotateAlphaCR, TypeOK, AlphaObject
<1>4. CASE AnnotateAlphaCR("upgrading") /\ UpdateMilvusFails
  BY <1>3, <1>4, UpdateMilvusFailsType DEF TypeOK
<1>5. CASE AnnotateAlphaCR("upgrading") /\ UpdateMilvus(StoppedMilvus) /\ UNCHANGED budgetVars
  <2>1. StoppedMilvus \in [image: Images \cup {NoImage}, replicas: Replicas,
                           orderedImages: BOOLEAN, upgradeStopping: BOOLEAN, stoppedAt: StopTimes]
    BY ZerosType DEF StoppedMilvus, TypeOK, MilvusObject
  <2>2. QED
    BY <1>3, <1>5, <2>1, UpdateMilvusType DEF TypeOK, budgetVars
<1>6. QED
  BY <1>1, <1>2, <1>4, <1>5 DEF StopMilvus

\* So does waiting for the stop.
LEMMA WaitForStopType ==
  ASSUME TypeOK, WaitForStop
  PROVE  /\ milvus' \in MilvusObject /\ mread' \in MilvusObject /\ mseen' \in MilvusObject
         /\ alpha' \in AlphaObject
         /\ faults' \in 0..MaxFaults /\ rescales' \in 0..MaxRescales /\ wanted' \in Replicas
<1>1. CASE UNCHANGED <<milvusVars, budgetVars>>
  BY <1>1 DEF TypeOK, milvusVars, budgetVars
<1>2. CASE UpdateMilvusFails /\ UNCHANGED alpha
  BY <1>2, UpdateMilvusFailsType DEF TypeOK
<1>3. CASE /\ UpdateMilvus([mread EXCEPT !.stoppedAt = "recent"])
           /\ UNCHANGED budgetVars /\ UNCHANGED alpha
  <2>1. [mread EXCEPT !.stoppedAt = "recent"] \in
          [image: Images \cup {NoImage}, replicas: Replicas,
           orderedImages: BOOLEAN, upgradeStopping: BOOLEAN, stoppedAt: StopTimes]
    BY DEF TypeOK, MilvusObject, StopTimes
  <2>2. QED
    BY <1>3, <2>1, UpdateMilvusType DEF TypeOK, budgetVars
<1>4. QED
  BY <1>1, <1>2, <1>3 DEF WaitForStop

\* So does starting Milvus again, in whatever state it leaves the upgrade.
LEMMA StartMilvusType ==
  ASSUME TypeOK, NEW m \in MilvusUpgradeStatus, m.replicasBeforeUpgrade # NoRecord,
         NEW image \in Images \cup {NoImage}, NEW next \in States,
         StartMilvus(m, image, next)
  PROVE  /\ milvus' \in MilvusObject /\ mread' \in MilvusObject /\ mseen' \in MilvusObject
         /\ alpha' \in AlphaObject
         /\ faults' \in 0..MaxFaults /\ rescales' \in 0..MaxRescales /\ wanted' \in Replicas
         /\ mem' \in MilvusUpgradeStatus /\ pc' \in {"run", "save"}
<1>1. [m EXCEPT !.state = next] \in MilvusUpgradeStatus
  BY DEF MilvusUpgradeStatus
<1>2. CASE Return(m) /\ UNCHANGED <<milvusVars, budgetVars>>
  BY <1>2 DEF Return, TypeOK, milvusVars, budgetVars
<1>3. CASE Return(m) /\ UpdateMilvusFails /\ UNCHANGED alpha
  BY <1>3, UpdateMilvusFailsType DEF Return, TypeOK
<1>4. ASSUME Grouped = {} \/ m.groupReplicasBeforeUpgrade # NoRecord,
             UpdateMilvus(StartedMilvus(m, image))
      PROVE  milvus' \in MilvusObject /\ mread' \in MilvusObject /\ mseen' \in MilvusObject
  <2> DEFINE r == [w \in Workloads |-> IF w \in Grouped THEN m.groupReplicasBeforeUpgrade[w]
                                                        ELSE m.replicasBeforeUpgrade[w]]
  <2>1. r \in Replicas
    BY <1>4 DEF MilvusUpgradeStatus, Replicas
  <2>2. StartedMilvus(m, image) = [mread EXCEPT !.image = image, !.replicas = r,
                                     !.upgradeStopping = FALSE, !.stoppedAt = "none"]
    BY DEF StartedMilvus
  <2> HIDE DEF r
  <2>3. StartedMilvus(m, image) \in [image: Images \cup {NoImage}, replicas: Replicas,
                                    orderedImages: BOOLEAN, upgradeStopping: BOOLEAN, stoppedAt: StopTimes]
    BY <2>1, <2>2 DEF TypeOK, MilvusObject, StopTimes
  <2>4. QED
    BY <1>4, <2>3, UpdateMilvusType
<1>5. CASE /\ Grouped = {} \/ m.groupReplicasBeforeUpgrade # NoRecord
           /\ UpdateMilvus(StartedMilvus(m, image))
           /\ AnnotateAlphaCR("upgraded") /\ Continue(m, next) /\ UNCHANGED budgetVars
  <2>1. alpha' \in AlphaObject
    BY <1>5 DEF AnnotateAlphaCR, TypeOK, AlphaObject
  <2>2. QED
    BY <1>1, <1>4, <1>5, <2>1 DEF Continue, TypeOK, budgetVars
<1>6. CASE /\ Grouped = {} \/ m.groupReplicasBeforeUpgrade # NoRecord
           /\ UpdateMilvus(StartedMilvus(m, image))
           /\ HasAlpha /\ Fault /\ Return(m) /\ UNCHANGED <<alpha, rescales, wanted>>
  BY <1>4, <1>6, FaultType DEF Return, TypeOK
<1>7. QED
  BY <1>2, <1>3, <1>5, <1>6 DEF StartMilvus

\* Every step keeps the types.
LEMMA TypeStep == TypeOK /\ [Next]_vars => TypeOK'
<1> SUFFICES ASSUME TypeOK, [Next]_vars PROVE TypeOK'
  OBVIOUS
<1> DEFINE Rest == /\ milvus' \in MilvusObject /\ mread' \in MilvusObject
                   /\ mseen' \in MilvusObject /\ alpha' \in AlphaObject
                   /\ faults' \in 0..MaxFaults /\ rescales' \in 0..MaxRescales
                   /\ wanted' \in Replicas
<1>1. CASE UNCHANGED vars
  BY <1>1 DEF TypeOK, vars
<1>2. CASE StartReconcile
  BY <1>2, DetermineType DEF StartReconcile, ReadUpgrade, TypeOK, taskVars, budgetVars
<1>3. CASE StartReconcileNoMilvus
  BY <1>3, DetermineType, FaultType
     DEF StartReconcileNoMilvus, ReadUpgrade, TypeOK, milvusVars, taskVars
<1>4. CASE NilStateFunc
  BY <1>4 DEF NilStateFunc, Return, InLoop, TypeOK, milvusVars, taskVars, budgetVars
<1>5. CASE SaveStatus
  BY <1>5 DEF SaveStatus, TypeOK, milvusVars, taskVars, budgetVars
<1>6. CASE LoseStatus
  BY <1>6, FaultType DEF LoseStatus, TypeOK, milvusVars, taskVars
<1>7. ASSUME NEW next \in States PROVE [mem EXCEPT !.state = next] \in MilvusUpgradeStatus
  BY <1>7 DEF TypeOK, MilvusUpgradeStatus
<1>8. CASE OldVersionStopping
  <2>1. RecordOldInfo(mem) \in MilvusUpgradeStatus
    BY RecordType DEF TypeOK
  <2>2. Rest
    BY <1>8, StopMilvusType, WaitForStopType
       DEF OldVersionStopping, TypeOK, milvusVars, budgetVars
  <2>3. mem' \in MilvusUpgradeStatus /\ pc' \in {"run", "save"}
    BY SMTT(60), <1>7, <1>8, <2>1
       DEF OldVersionStopping, Return, Continue, TypeOK, States, NotRollbackStates
  <2>4. QED
    BY <1>8, <2>2, <2>3 DEF OldVersionStopping, InLoop, TypeOK, taskVars
<1>9. CASE RollbackNewVersionStopping
  <2>1. Rest
    BY <1>9, StopMilvusType, WaitForStopType
       DEF RollbackNewVersionStopping, TypeOK, milvusVars, budgetVars
  <2>2. mem' \in MilvusUpgradeStatus /\ pc' \in {"run", "save"}
    BY SMT, <1>7, <1>9
       DEF RollbackNewVersionStopping, Return, Continue, TypeOK, States, NotRollbackStates
  <2>3. QED
    BY <1>9, <2>1, <2>2 DEF RollbackNewVersionStopping, InLoop, TypeOK, taskVars
<1>10. ASSUME NEW kind \in TaskKinds, NEW m, StartTaskPod(kind, m)
      PROVE  task' \in [TaskKinds -> TaskPhases] /\ faults' \in 0..MaxFaults
  BY <1>10, FaultType DEF StartTaskPod, TypeOK, TaskPhases
<1>11. ASSUME NEW kind \in TaskKinds, KeepWaiting(kind)
       PROVE  /\ mem' \in MilvusUpgradeStatus /\ pc' \in {"run", "save"}
              /\ UNCHANGED taskVars /\ faults' \in 0..MaxFaults
  BY <1>11, FaultType DEF KeepWaiting, Return, TypeOK
<1>12. ASSUME TaskFrame, mem' \in MilvusUpgradeStatus, pc' \in {"run", "save"},
              faults' \in 0..MaxFaults, task' \in [TaskKinds -> TaskPhases],
              cache' = cache, meta' = meta, backup' \in MetaVersions \cup {"none"}
       PROVE  TypeOK'
  BY <1>12 DEF TaskFrame, InLoop, milvusVars, TypeOK
<1>13. CASE BackupMeta
  <2>1. [[mem EXCEPT !.metaBackuped = TRUE] EXCEPT !.state = UpdatingMetaState]
          \in MilvusUpgradeStatus
    BY ZenonT(60) DEF TypeOK, MilvusUpgradeStatus, States, NotRollbackStates
  <2>2. mem' \in MilvusUpgradeStatus /\ pc' \in {"run", "save"}
    <3>1. CASE StartBakupMetaPod
      <4>1. [mem EXCEPT !.backupPVC = TRUE] \in MilvusUpgradeStatus
        BY DEF TypeOK, MilvusUpgradeStatus
      <4>2. QED
        BY <3>1, <4>1 DEF StartBakupMetaPod, Return
    <3>2. CASE KeepWaiting(Backup)
      BY <1>11, <3>2 DEF TaskKinds
    <3>3. CASE Continue([mem EXCEPT !.metaBackuped = TRUE], UpdatingMetaState)
      BY <2>1, <3>3 DEF Continue
    <3>4. CASE Continue(mem, BakupMetaFailed)
      BY <1>7, <3>4 DEF Continue, TypeOK, States, NotRollbackStates
    <3>5. QED
      BY <1>13, <3>1, <3>2, <3>3, <3>4 DEF BackupMeta
  <2>3. /\ faults' \in 0..MaxFaults /\ task' \in [TaskKinds -> TaskPhases]
        /\ cache' = cache /\ meta' = meta /\ backup' = backup
    BY <1>10, <1>11, <1>13 DEF BackupMeta, StartBakupMetaPod, TypeOK, taskVars, TaskKinds
  <2>4. QED
    BY <1>12, <1>13, <2>2, <2>3 DEF BackupMeta, TypeOK
<1>14. ASSUME NEW m \in MilvusUpgradeStatus, UpgradeFailed(m)
       PROVE  mem' \in MilvusUpgradeStatus /\ pc' \in {"run", "save"}
  <2>1. [[m EXCEPT !.isRollbacking = TRUE] EXCEPT !.state = RollbackNewVersionStoppingState]
          \in MilvusUpgradeStatus
    BY DEF MilvusUpgradeStatus, States
  <2>2. QED
    BY <1>14, <2>1 DEF UpgradeFailed, Return, Continue
<1>15. CASE HandleBakupMetaFailed
  <2>1. ASSUME ~(mem.retriedTimes + 1 > MaxRetry)
        PROVE  [mem EXCEPT !.state = BackupMetaState, !.retriedTimes = @ + 1]
                  \in MilvusUpgradeStatus
    <3> DEFINE k == mem.retriedTimes + 1
    <3>1. mem.retriedTimes \in 0..MaxRetry
      BY DEF TypeOK, MilvusUpgradeStatus
    <3>2. k \in 0..MaxRetry
      BY SMT, <2>1, <3>1, UpgradeAssumption
    <3> HIDE DEF k
    <3>3. [mem EXCEPT !.state = BackupMetaState, !.retriedTimes = k] \in MilvusUpgradeStatus
      BY ZenonT(60), <3>2 DEF TypeOK, MilvusUpgradeStatus, States, NotRollbackStates
    <3>4. QED
      BY <3>3 DEF k
  <2>2. mem' \in MilvusUpgradeStatus /\ pc' \in {"run", "save"}
    BY <1>14, <1>15, <2>1 DEF HandleBakupMetaFailed, Return, TypeOK
  <2>3. /\ faults' \in 0..MaxFaults /\ task' \in [TaskKinds -> TaskPhases]
        /\ cache' = cache /\ meta' = meta /\ backup' \in MetaVersions \cup {"none"}
    BY <1>15, FaultType DEF HandleBakupMetaFailed, TypeOK, TaskPhases, MetaVersions
  <2>4. QED
    BY <1>12, <1>15, <2>2, <2>3 DEF HandleBakupMetaFailed
<1>16. CASE UpdatingMeta
  <2>1. [mem EXCEPT !.metaStorageChanged = TRUE] \in MilvusUpgradeStatus
    BY DEF TypeOK, MilvusUpgradeStatus
  <2>2. mem' \in MilvusUpgradeStatus /\ pc' \in {"run", "save"}
    <3>1. CASE UpdateTaskStarted
      BY <2>1, <3>1 DEF UpdateTaskStarted, StartUpdateMetaPod, Return
    <3>2. CASE KeepWaiting(Update)
      BY <1>11, <3>2 DEF TaskKinds
    <3>3. CASE UpdateTaskMissing
      BY <3>3 DEF UpdateTaskMissing, Return, TypeOK
    <3>4. ASSUME NEW phases, NEW next \in {NewVersionStartingState, UpdateMetaFailed},
                 UpdateTaskEnded(phases, next)
          PROVE  mem' \in MilvusUpgradeStatus /\ pc' \in {"run", "save"}
      BY <1>7, <3>4 DEF UpdateTaskEnded, Continue, States, NotRollbackStates
    <3>5. QED
      BY <1>16, <3>1, <3>2, <3>3, <3>4 DEF UpdatingMeta
  <2>3. /\ faults' \in 0..MaxFaults /\ task' \in [TaskKinds -> TaskPhases]
        /\ cache' = cache /\ meta' = meta /\ backup' = backup
    BY <1>10, <1>11, <1>16
       DEF UpdatingMeta, UpdateTaskStarted, StartUpdateMetaPod, UpdateTaskMissing,
           UpdateTaskEnded, TypeOK, taskVars, TaskKinds
  <2>4. QED
    BY <1>12, <1>16, <2>2, <2>3 DEF UpdatingMeta, TypeOK
<1>17. CASE HandleUpgradeFailed
  BY <1>12, <1>14, <1>17 DEF HandleUpgradeFailed, TypeOK, taskVars
<1>18. CASE RollbackRestoringOldMeta
  <2>1. mem' \in MilvusUpgradeStatus /\ pc' \in {"run", "save"}
    BY SMTT(60), <1>7, <1>11, <1>18
       DEF RollbackRestoringOldMeta, SkipRestore, RollbackTaskStarted,
           StartRollbackMetaPod, RollbackTaskEnded,
           Return, Continue, TypeOK, States, NotRollbackStates, TaskKinds
  <2>2. /\ faults' \in 0..MaxFaults /\ task' \in [TaskKinds -> TaskPhases]
        /\ cache' = cache /\ meta' = meta /\ backup' = backup
    BY <1>10, <1>11, <1>18
       DEF RollbackRestoringOldMeta, SkipRestore, RollbackTaskStarted,
           StartRollbackMetaPod, RollbackTaskEnded,
           TypeOK, taskVars, TaskKinds
  <2>3. QED
    BY <1>12, <1>18, <2>1, <2>2 DEF RollbackRestoringOldMeta, TypeOK
<1>19. /\ AssumeZero(mem) \in MilvusUpgradeStatus
       /\ AssumeZero(mem).replicasBeforeUpgrade # NoRecord
  <2>1. Zeros # NoRecord
    BY SMT, UpgradeAssumption DEF Zeros
  <2>2. QED
    BY <2>1, ZerosType DEF AssumeZero, TypeOK, MilvusUpgradeStatus
<1>20. CASE StartingMilvusNewVersion
  <2>1. "new" \in Images \cup {NoImage} /\ Succeeded \in States
    BY DEF Images, States, NotRollbackStates
  <2>2. Rest /\ mem' \in MilvusUpgradeStatus /\ pc' \in {"run", "save"}
    BY <1>19, <1>20, <2>1, StartMilvusType DEF StartingMilvusNewVersion
  <2>3. QED
    BY <1>20, <2>2 DEF StartingMilvusNewVersion, InLoop, TypeOK, taskVars
<1>21. CASE RollbackOldVersionStarting
  <2>1. mem.sourceImage \in Images \cup {NoImage} /\ RollbackSucceeded \in States
    BY DEF TypeOK, MilvusUpgradeStatus, States
  <2>2. Rest /\ mem' \in MilvusUpgradeStatus /\ pc' \in {"run", "save"}
    BY <1>19, <1>21, <2>1, StartMilvusType DEF RollbackOldVersionStarting
  <2>3. QED
    BY <1>21, <2>2 DEF RollbackOldVersionStarting, InLoop, TypeOK, taskVars
<1>22. CASE RequestRollback
  BY <1>22 DEF RequestRollback, TypeOK, milvusVars, taskVars, budgetVars
<1>23. ASSUME NEW w \in Workloads, NEW n \in ReplicaChoices, Rescale(w, n) PROVE TypeOK'
  <2>1. [milvus EXCEPT !.replicas[w] = n] \in MilvusObject
    BY <1>23 DEF TypeOK, MilvusObject, Replicas
  <2>2. milvus' \in MilvusObject /\ wanted' \in Replicas /\ rescales' \in 0..MaxRescales
    BY SMT, <1>23, <2>1, UpgradeAssumption DEF Rescale, TypeOK, MilvusObject
  <2>3. QED
    BY <1>23, <2>2 DEF Rescale, TypeOK, upgradeVars, taskVars
<1>24. CASE ConvertAlpha
  <2>1. milvus' \in MilvusObject /\ alpha' \in AlphaObject
    <3>1. /\ milvus.image \in Images /\ milvus.replicas \in Replicas
          /\ alpha.image \in Images /\ alpha.replicas \in Replicas
      BY DEF TypeOK, MilvusObject, AlphaObject
    <3>2. [mark |-> "none", image |-> milvus.image, replicas |-> milvus.replicas] \in AlphaObject
      BY <3>1 DEF AlphaObject
    <3>3. [milvus EXCEPT !.image = alpha.image, !.replicas = alpha.replicas,
                         !.upgradeStopping = FALSE, !.stoppedAt = "none"] \in MilvusObject
      BY <3>1 DEF TypeOK, MilvusObject, StopTimes
    <3>4. QED
      BY <1>24, <3>2, <3>3 DEF ConvertAlpha, TypeOK
  <2>2. QED
    BY <1>24, <2>1 DEF ConvertAlpha, TypeOK, upgradeVars, taskVars, budgetVars
<1>25. CASE Deregister
  <2>1. ASSUME NEW m \in MilvusObject PROVE Aged(m) \in MilvusObject
    BY DEF Aged, MilvusObject, StopTimes
  <2>2. QED
    BY <1>25, <2>1 DEF Deregister, TypeOK, upgradeVars, taskVars, budgetVars
<1>26. CASE SyncUpgrade \/ SyncMilvus
  BY SMT, <1>26 DEF SyncUpgrade, SyncMilvus, Latest, TypeOK, upgradeVars, milvusVars, taskVars,
                    budgetVars
<1>27. ASSUME deploy' \in [Workloads -> DeploymentObject],
              UNCHANGED <<upgradeVars, milvusVars, taskVars, budgetVars>>
       PROVE  TypeOK'
  BY <1>27 DEF TypeOK, upgradeVars, milvusVars, taskVars, budgetVars
<1>28. ASSUME NEW w \in Workloads, ReconcileDeploy(w) PROVE TypeOK'
  <2>1. DeployReplicas(w) \in Int
    BY SMT, ReplicasInt DEF DeployReplicas, TypeOK, DeploymentObject, MilvusObject
  <2>2. deploy' \in [Workloads -> DeploymentObject]
    <3>1. PICK ready \in BOOLEAN :
            deploy' = [deploy EXCEPT ![w].replicas = DeployReplicas(w),
                                     ![w].image = DeployImage(w, ready), ![w].observed = FALSE]
      BY <1>28 DEF ReconcileDeploy
    <3> DEFINE d == deploy[w]
               e == [d EXCEPT !.replicas = DeployReplicas(w), !.image = DeployImage(w, ready),
                              !.observed = FALSE]
    <3>2. d \in DeploymentObject /\ milvus.image \in Images /\ d.image \in Images
      BY DEF TypeOK, MilvusObject, DeploymentObject
    <3>3. deploy' = [deploy EXCEPT ![w] = e]
      BY <3>1 DEF TypeOK
    <3>4. DeployImage(w, ready) \in Images
      BY <3>2 DEF DeployImage
    <3>5. e \in DeploymentObject
      BY <2>1, <3>2, <3>4 DEF DeploymentObject
    <3> HIDE DEF e
    <3>6. QED
      BY <3>3, <3>5 DEF TypeOK
  <2>3. QED
    BY <1>27, <1>28, <2>2 DEF ReconcileDeploy
<1>29. ASSUME NEW w \in Workloads, SyncDeploy(w) PROVE TypeOK'
  <2>1. deploy' \in [Workloads -> DeploymentObject]
    <3> DEFINE d == deploy[w]
               p == IF d.replicas = 0 THEN {} ELSE {d.image}
    <3>1. d \in DeploymentObject
      BY DEF TypeOK
    <3>2. p \in SUBSET Images
      BY <3>1 DEF DeploymentObject
    <3>3. deploy' = [deploy EXCEPT ![w] = [d EXCEPT !.observed = TRUE, !.pods = p]]
      BY <1>29 DEF SyncDeploy, TypeOK
    <3> HIDE DEF d, p
    <3>4. [d EXCEPT !.observed = TRUE, !.pods = p] \in DeploymentObject
      BY <3>1, <3>2 DEF DeploymentObject
    <3>5. QED
      BY <3>3, <3>4 DEF TypeOK
  <2>2. QED
    BY <1>27, <1>29, <2>1 DEF SyncDeploy
<1>31. ASSUME NEW kind \in TaskKinds, TaskSucceeds(kind) \/ TaskFails(kind) PROVE TypeOK'
  <2>1. /\ task' \in [TaskKinds -> TaskPhases] /\ backup' \in MetaVersions \cup {"none"}
        /\ meta' \in MetaVersions
    BY SMT, <1>31 DEF TaskSucceeds, TaskFails, TypeOK, TaskPhases, MetaVersions, TaskKinds
  <2>2. QED
    BY <1>31, <2>1 DEF TaskSucceeds, TaskFails, TypeOK, upgradeVars, milvusVars, budgetVars
<1>32. ASSUME NEW kind \in TaskKinds, SyncCache(kind) PROVE TypeOK'
  BY <1>32 DEF SyncCache, TypeOK, upgradeVars, milvusVars, budgetVars
<1>33. QED
  BY <1>1, <1>2, <1>3, <1>4, <1>5, <1>6, <1>8, <1>9, <1>13, <1>15, <1>16, <1>17, <1>18,
     <1>20, <1>21, <1>22, <1>23, <1>24, <1>25, <1>26, <1>28, <1>29, <1>31, <1>32
     DEF Next, Reconcile, Cluster, User

\* The types hold initially.
LEMMA TypeInit == Init => TypeOK
<1> SUFFICES ASSUME Init PROVE TypeOK
  OBVIOUS
<1>1. 0 \in 0..MaxRetry /\ 0 \in 0..MaxFaults /\ 0 \in 0..MaxRescales
  BY SMT, UpgradeAssumption
<1>2. status \in MilvusUpgradeStatus
  BY <1>1 DEF Init, MilvusUpgradeStatus, States, NotRollbackStates
<1>3. milvus \in MilvusObject /\ alpha \in AlphaObject /\ wanted \in Replicas
  <2>1. PICK ordered \in OrderedImages :
          milvus = [image |-> "old", replicas |-> wanted, orderedImages |-> ordered,
                    upgradeStopping |-> FALSE, stoppedAt |-> "none"]
    BY DEF Init
  <2>2. ordered \in BOOLEAN /\ wanted \in Replicas
    BY UpgradeAssumption DEF Init
  <2>3. QED
    BY <2>1, <2>2 DEF Init, MilvusObject, AlphaObject, Images, StopTimes
<1>4. \A w \in Workloads : wanted[w] \in Int
  BY <1>3, ReplicasInt
<1>5. deploy \in [Workloads -> DeploymentObject]
  <2> DEFINE n(w) == IF w \in HPA \/ wanted[w] < 0 THEN 1 ELSE wanted[w]
             p(w) == IF n(w) = 0 THEN {} ELSE {"old"}
  <2>1. deploy = [w \in Workloads |-> [replicas |-> n(w), image |-> "old", observed |-> TRUE,
                                        pods |-> p(w)]]
    BY DEF Init
  <2>2. \A w \in Workloads : n(w) \in Int /\ p(w) \in SUBSET Images
    BY SMT, <1>4 DEF Images
  <2> HIDE DEF n, p
  <2>3. QED
    BY <2>1, <2>2 DEF DeploymentObject, Images
<1>6. QED
  BY <1>1, <1>2, <1>3, <1>5 DEF Init, TypeOK, TaskPhases, MetaVersions

\* The controller's objects keep their types in every behaviour; in particular
\* the retries of the backup never exceed spec.maxRetry.
THEOREM TypeCorrect == Spec => []TypeOK
BY TypeInit, TypeStep, PTL DEF Spec

-----------------------------------------------------------------------------
(* The metadata is only changed with its backup at hand.                    *)

\* What a copy of the status says about the backup is true of the backup pod.
StatusTrue(s) ==
  /\ s.metaBackuped => task[Backup] = "succeeded"
  /\ s.state \in {UpdatingMetaState, NewVersionStartingState, Succeeded, UpdateMetaFailed}
       => s.metaBackuped
  /\ s.state = BakupMetaFailed => task[Backup] \in {"failed", "absent"}

\* The informer's view of the backup pod is behind, but never of a pod that
\* has been replaced: a new one is only created once the old one is seen gone.
BackupSeen ==
  /\ cache[Backup] = "failed" => task[Backup] \in {"failed", "absent"}
  /\ cache[Backup] = "succeeded" => task[Backup] = "succeeded"

\* Until the backup pod has succeeded the metadata is untouched and no other
\* task exists; from then on the backup is the old metadata.
BackupFirst ==
  IF task[Backup] = "succeeded"
  THEN backup = "old"
  ELSE meta = "old" /\ task[Update] = "absent" /\ task[Rollback] = "absent"

\* A reconcile that may create the backup pod did not start from a failed one.
NoLateBackup ==
  pc = "run" /\ mem.state \in {OldVersionStoppingState, BackupMetaState}
    => status.state # BakupMetaFailed

MetaInv == StatusTrue(status) /\ StatusTrue(mem) /\ BackupSeen /\ BackupFirst /\ NoLateBackup

\* A step that leaves the tasks, the saved status and the end of the reconcile
\* alone keeps the invariant if the status in memory is still true.
LEMMA MetaSameTasks ==
  ASSUME MetaInv, UNCHANGED <<taskVars, status>>, StatusTrue(mem'),
         pc' = "run" /\ mem'.state \in {OldVersionStoppingState, BackupMetaState}
           => status.state # BakupMetaFailed
  PROVE  MetaInv'
BY DEF MetaInv, StatusTrue, BackupSeen, BackupFirst, NoLateBackup, taskVars

\* Recording the old replicas changes nothing that StatusTrue looks at.
LEMMA RecordKeepsTrue ==
  ASSUME NEW m \in MilvusUpgradeStatus, mread \in MilvusObject, StatusTrue(m)
  PROVE  StatusTrue(RecordOldInfo(m)) /\ RecordOldInfo(m).state = m.state
<1>1. /\ RecordOldInfo(m).state = m.state
      /\ RecordOldInfo(m).metaBackuped = m.metaBackuped
  BY DEF RecordOldInfo, MilvusUpgradeStatus
<1>2. QED
  BY <1>1 DEF StatusTrue

\* Starting Milvus ends in the same state or in the one asked for, with the
\* same knowledge of the backup.
LEMMA StartMilvusMem ==
  ASSUME NEW m \in MilvusUpgradeStatus, NEW image, NEW next \in States,
         StartMilvus(m, image, next)
  PROVE  /\ (mem'.state = m.state /\ pc' = "save") \/ mem'.state = next
         /\ mem'.metaBackuped = m.metaBackuped
<1>1. CASE Return(m)
  BY <1>1 DEF Return
<1>2. CASE Continue(m, next)
  BY <1>2 DEF Continue, MilvusUpgradeStatus
<1>3. QED
  BY <1>1, <1>2 DEF StartMilvus

\* Every step keeps the invariant, when a reconcile reads the latest status.
LEMMA MetaStep ==
  ASSUME ~LagUpgrade, TypeOK, MetaInv, [Next]_vars
  PROVE  MetaInv'
<1> DEFINE Same == UNCHANGED <<taskVars, status>>
<1>1. CASE UNCHANGED <<status, pc, mem, taskVars>>
  BY <1>1, MetaSameTasks DEF MetaInv, NoLateBackup
<1>2. ASSUME ReadUpgrade
      PROVE  /\ StatusTrue(mem')
             /\ mem'.state \in {OldVersionStoppingState, BackupMetaState}
                  => status.state # BakupMetaFailed
  <2>1. mem' = DetermineCurrentState(status, operation)
    BY SMT, <1>2 DEF ReadUpgrade, Latest
  <2>2. /\ mem'.metaBackuped = status.metaBackuped
        /\ \/ mem'.state = status.state
           \/ mem'.state = RollbackNewVersionStoppingState
           \/ mem'.state = OldVersionStoppingState /\ status.state = Pending
    BY <2>1 DEF DetermineCurrentState, TypeOK, MilvusUpgradeStatus
  <2>3. QED
    BY <2>2 DEF MetaInv, StatusTrue
<1>3. CASE StartReconcile
  BY <1>2, <1>3, MetaSameTasks DEF StartReconcile
<1>4. CASE StartReconcileNoMilvus
  BY <1>2, <1>4, MetaSameTasks DEF StartReconcileNoMilvus
<1>5. CASE NilStateFunc
  BY <1>5, MetaSameTasks DEF NilStateFunc, Return, InLoop, MetaInv, NoLateBackup
<1>6. CASE SaveStatus
  BY <1>6 DEF SaveStatus, MetaInv, StatusTrue, BackupSeen, BackupFirst, NoLateBackup, taskVars
<1>7. CASE LoseStatus
  BY <1>7, MetaSameTasks DEF LoseStatus, MetaInv
<1>8. CASE OldVersionStopping
  <2>1. CASE Return(RecordOldInfo(mem))
    BY <1>8, <2>1, RecordKeepsTrue, MetaSameTasks
       DEF OldVersionStopping, InLoop, Return, MetaInv, TypeOK
  <2>2. CASE Return(mem)
    BY <1>8, <2>2, MetaSameTasks DEF OldVersionStopping, InLoop, Return, MetaInv
  <2>3. CASE Continue(mem, BackupMetaState)
    <3>1. mem'.state = BackupMetaState /\ mem'.metaBackuped = mem.metaBackuped
      BY <2>3 DEF Continue, TypeOK, MilvusUpgradeStatus
    <3>2. StatusTrue(mem')
      BY <3>1 DEF MetaInv, StatusTrue
    <3>3. status.state # BakupMetaFailed
      BY <1>8 DEF OldVersionStopping, Running, MetaInv, NoLateBackup
    <3>4. QED
      BY <1>8, <3>2, <3>3, MetaSameTasks DEF OldVersionStopping, InLoop
  <2>4. QED
    BY <1>8, <2>1, <2>2, <2>3 DEF OldVersionStopping
<1>9. CASE RollbackNewVersionStopping
  <2>1. CASE Return(mem)
    BY <1>9, <2>1, MetaSameTasks DEF RollbackNewVersionStopping, InLoop, Return, MetaInv
  <2>2. CASE Continue(mem, RollbackRestoringOldMetaState)
    <3>1. mem'.state = RollbackRestoringOldMetaState /\ mem'.metaBackuped = mem.metaBackuped
      BY <2>2 DEF Continue, TypeOK, MilvusUpgradeStatus
    <3>2. StatusTrue(mem')
      BY <3>1 DEF MetaInv, StatusTrue
    <3>3. QED
      BY <1>9, <3>1, <3>2, MetaSameTasks DEF RollbackNewVersionStopping, InLoop
  <2>3. QED
    BY <1>9, <2>1, <2>2 DEF RollbackNewVersionStopping
<1>10. ASSUME NEW kind \in TaskKinds, KeepWaiting(kind), TaskFrame PROVE MetaInv'
  BY <1>10, MetaSameTasks DEF KeepWaiting, Return, TaskFrame, InLoop, MetaInv
<1>11. CASE BackupMeta
  <2>1. CASE cache[Backup] = "absent" /\ StartBakupMetaPod
    <3>1. /\ mem'.state = mem.state /\ mem'.metaBackuped = mem.metaBackuped
          /\ pc' = "save" /\ UNCHANGED <<cache, meta, backup>>
      BY <2>1 DEF StartBakupMetaPod, Return, TypeOK, MilvusUpgradeStatus
    <3>2. StatusTrue(mem')
      BY <3>1 DEF MetaInv, StatusTrue
    <3>3. CASE task' = task
      BY <1>11, <3>3, <3>1, <3>2, MetaSameTasks
         DEF BackupMeta, TaskFrame, InLoop, Running, taskVars
    <3>4. CASE task[Backup] = "absent" /\ task' = [task EXCEPT ![Backup] = "running"]
      <4>1. /\ task'[Backup] = "running"
            /\ task'[Update] = task[Update] /\ task'[Rollback] = task[Rollback]
        BY <3>4 DEF TypeOK, TaskKinds
      <4>2. status.state # BakupMetaFailed /\ mem.state = BackupMetaState
        BY <1>11 DEF BackupMeta, Running, MetaInv, NoLateBackup
      <4>3. status' = status
        BY <1>11 DEF BackupMeta, TaskFrame, InLoop
      <4>4. QED
        BY <2>1, <3>4, <3>1, <4>1, <4>2, <4>3
           DEF MetaInv, StatusTrue, BackupSeen, BackupFirst, NoLateBackup
    <3>5. QED
      BY <2>1, <3>3, <3>4 DEF StartBakupMetaPod, StartTaskPod
  <2>2. CASE /\ cache[Backup] = "succeeded"
             /\ Continue([mem EXCEPT !.metaBackuped = TRUE], UpdatingMetaState)
             /\ UNCHANGED <<taskVars, faults>>
    <3>1. mem'.state = UpdatingMetaState /\ mem'.metaBackuped = TRUE
      BY <2>2 DEF Continue, TypeOK, MilvusUpgradeStatus
    <3>2. StatusTrue(mem')
      BY <2>2, <3>1 DEF MetaInv, StatusTrue, BackupSeen
    <3>3. QED
      BY <1>11, <2>2, <3>1, <3>2, MetaSameTasks DEF BackupMeta, TaskFrame, InLoop
  <2>3. CASE /\ cache[Backup] = "failed" /\ Continue(mem, BakupMetaFailed)
             /\ UNCHANGED <<taskVars, faults>>
    <3>1. mem'.state = BakupMetaFailed /\ mem'.metaBackuped = mem.metaBackuped
      BY <2>3 DEF Continue, TypeOK, MilvusUpgradeStatus
    <3>2. StatusTrue(mem')
      BY <2>3, <3>1 DEF MetaInv, StatusTrue, BackupSeen
    <3>3. QED
      BY <1>11, <2>3, <3>1, <3>2, MetaSameTasks DEF BackupMeta, TaskFrame, InLoop
  <2>4. QED
    BY <1>10, <1>11, <2>1, <2>2, <2>3 DEF BackupMeta, TaskKinds
<1>12. ASSUME UpgradeFailed(mem), UNCHANGED taskVars, TaskFrame PROVE MetaInv'
  <2>1. CASE Return(mem)
    BY <1>12, <2>1, MetaSameTasks DEF Return, TaskFrame, InLoop, MetaInv
  <2>2. CASE Continue([mem EXCEPT !.isRollbacking = TRUE], RollbackNewVersionStoppingState)
    <3>1. mem'.state = RollbackNewVersionStoppingState /\ mem'.metaBackuped = mem.metaBackuped
      BY <2>2 DEF Continue, TypeOK, MilvusUpgradeStatus
    <3>2. StatusTrue(mem')
      BY <3>1 DEF MetaInv, StatusTrue
    <3>3. QED
      BY <1>12, <3>1, <3>2, MetaSameTasks DEF TaskFrame, InLoop
  <2>3. QED
    BY <1>12, <2>1, <2>2 DEF UpgradeFailed
<1>13. CASE HandleBakupMetaFailed
  <2>1. CASE UpgradeFailed(mem) /\ UNCHANGED <<task, backup, faults>>
    BY <1>12, <1>13, <2>1 DEF HandleBakupMetaFailed, taskVars
  <2>2. CASE Return(mem) /\ UNCHANGED <<task, backup>>
    BY <1>13, <2>2, MetaSameTasks
       DEF HandleBakupMetaFailed, Return, TaskFrame, InLoop, MetaInv, taskVars
  <2>3. CASE /\ task' = [task EXCEPT ![Backup] = "absent"]
             /\ backup' = IF task[Backup] = "running" THEN "mixed" ELSE backup
             /\ Return([mem EXCEPT !.state = BackupMetaState, !.retriedTimes = @ + 1])
    <3>1. task[Backup] \in {"failed", "absent"}
      BY <1>13 DEF HandleBakupMetaFailed, Running, MetaInv, StatusTrue
    <3>2. /\ task'[Backup] = "absent"
          /\ task'[Update] = task[Update] /\ task'[Rollback] = task[Rollback]
      BY <2>3 DEF TypeOK, TaskKinds
    <3>3. /\ mem'.state = BackupMetaState /\ mem'.metaBackuped = mem.metaBackuped
          /\ pc' = "save"
      BY <2>3 DEF Return, TypeOK, MilvusUpgradeStatus
    <3>4. status' = status /\ cache' = cache /\ meta' = meta
      BY <1>13 DEF HandleBakupMetaFailed, TaskFrame, InLoop
    <3>5. QED
      BY <3>1, <3>2, <3>3, <3>4
         DEF MetaInv, StatusTrue, BackupSeen, BackupFirst, NoLateBackup
  <2>4. QED
    BY <1>13, <2>1, <2>2, <2>3 DEF HandleBakupMetaFailed
<1>14. ASSUME NEW kind \in {Update, Rollback}, task[Backup] = "succeeded",
              NEW m, StartTaskPod(kind, m), UNCHANGED <<cache, meta, backup, status>>,
              StatusTrue(mem'), pc' = "save"
       PROVE  MetaInv'
  <2>1. task'[Backup] = "succeeded"
    BY <1>14 DEF StartTaskPod, TypeOK, TaskKinds
  <2>2. QED
    BY <1>14, <2>1 DEF MetaInv, StatusTrue, BackupSeen, BackupFirst, NoLateBackup
<1>15. CASE UpdatingMeta
  <2>1. task[Backup] = "succeeded" /\ mem.metaBackuped
    BY <1>15 DEF UpdatingMeta, Running, MetaInv, StatusTrue
  <2>2. CASE UpdateTaskStarted
    <3>1. mem'.state = mem.state /\ mem'.metaBackuped = mem.metaBackuped /\ pc' = "save"
      BY <2>2 DEF UpdateTaskStarted, StartUpdateMetaPod, Return, TypeOK, MilvusUpgradeStatus
    <3>2. StatusTrue(mem')
      BY <3>1 DEF MetaInv, StatusTrue
    <3>3. QED
      BY <1>14, <1>15, <2>1, <2>2, <3>1, <3>2
         DEF UpdatingMeta, UpdateTaskStarted, StartUpdateMetaPod, TaskFrame, InLoop
  <2>3. CASE KeepWaiting(Update)
    BY <1>10, <1>15, <2>3 DEF UpdatingMeta, TaskKinds
  <2>4. CASE UpdateTaskMissing
    BY <1>15, <2>4, MetaSameTasks
       DEF UpdatingMeta, UpdateTaskMissing, Return, TaskFrame, InLoop, MetaInv
  <2>5. ASSUME NEW phases, NEW next \in {NewVersionStartingState, UpdateMetaFailed},
               UpdateTaskEnded(phases, next)
        PROVE  MetaInv'
    <3>1. mem'.state = next /\ mem'.metaBackuped = mem.metaBackuped
      BY <2>5 DEF UpdateTaskEnded, Continue, TypeOK, MilvusUpgradeStatus
    <3>2. StatusTrue(mem')
      BY <2>1, <3>1 DEF StatusTrue
    <3>3. QED
      BY <1>15, <2>5, <3>1, <3>2, MetaSameTasks
         DEF UpdatingMeta, UpdateTaskEnded, TaskFrame, InLoop
  <2>6. QED
    BY <1>15, <2>2, <2>3, <2>4, <2>5 DEF UpdatingMeta
<1>16. CASE HandleUpgradeFailed
  BY <1>12, <1>16 DEF HandleUpgradeFailed
<1>17. CASE RollbackRestoringOldMeta
  <2>1. ASSUME NEW next \in {RollbackOldVersionStartingState, RollbackFailed},
               Continue(mem, next), UNCHANGED taskVars
        PROVE  MetaInv'
    <3>1. mem'.state = next /\ mem'.metaBackuped = mem.metaBackuped
      BY <2>1 DEF Continue, TypeOK, MilvusUpgradeStatus
    <3>2. StatusTrue(mem')
      BY <3>1 DEF MetaInv, StatusTrue
    <3>3. QED
      BY <1>17, <2>1, <3>1, <3>2, MetaSameTasks
         DEF RollbackRestoringOldMeta, TaskFrame, InLoop
  <2>2. CASE mem.metaBackuped /\ RollbackTaskStarted
    <3>1. task[Backup] = "succeeded" /\ StatusTrue(mem)
      BY <2>2 DEF MetaInv, StatusTrue
    <3>2. QED
      BY <1>14, <1>17, <2>2, <3>1
         DEF RollbackTaskStarted, StartRollbackMetaPod, Return,
             RollbackRestoringOldMeta, TaskFrame, InLoop
  <2>3. CASE KeepWaiting(Rollback)
    BY <1>10, <1>17, <2>3 DEF RollbackRestoringOldMeta, TaskKinds
  <2>4. QED
    BY <1>17, <2>1, <2>2, <2>3
       DEF RollbackRestoringOldMeta, SkipRestore, RollbackTaskEnded
<1>18. /\ AssumeZero(mem) \in MilvusUpgradeStatus /\ AssumeZero(mem).state = mem.state
       /\ AssumeZero(mem).metaBackuped = mem.metaBackuped
  BY SMT, ZerosType DEF AssumeZero, TypeOK, MilvusUpgradeStatus
<1>19. CASE StartingMilvusNewVersion
  <2>1. /\ mem'.state \in {NewVersionStartingState, Succeeded}
        /\ mem'.metaBackuped = mem.metaBackuped
    BY <1>18, <1>19, StartMilvusMem
       DEF StartingMilvusNewVersion, Running, States, NotRollbackStates
  <2>2. StatusTrue(mem')
    BY <1>19, <2>1 DEF StartingMilvusNewVersion, Running, MetaInv, StatusTrue
  <2>3. QED
    BY <1>19, <2>1, <2>2, MetaSameTasks DEF StartingMilvusNewVersion, InLoop
<1>20. CASE RollbackOldVersionStarting
  <2>1. /\ mem'.state \in {RollbackOldVersionStartingState, RollbackSucceeded}
        /\ mem'.metaBackuped = mem.metaBackuped
    BY <1>18, <1>20, StartMilvusMem DEF RollbackOldVersionStarting, Running, States
  <2>2. StatusTrue(mem')
    BY <2>1 DEF MetaInv, StatusTrue
  <2>3. QED
    BY <1>20, <2>1, <2>2, MetaSameTasks DEF RollbackOldVersionStarting, InLoop
<1>21. ASSUME NEW kind \in TaskKinds, TaskSucceeds(kind) \/ TaskFails(kind) PROVE MetaInv'
  <2>1. status' = status /\ mem' = mem /\ pc' = pc /\ cache' = cache
    BY <1>21 DEF TaskSucceeds, TaskFails, upgradeVars
  <2>2. CASE kind = Backup
    <3>1. /\ task[Backup] = "running"
          /\ task'[Backup] \in {"succeeded", "failed"}
          /\ task'[Backup] = "succeeded" => backup' = meta
          /\ task'[Update] = task[Update] /\ task'[Rollback] = task[Rollback]
          /\ meta' = meta
      BY <1>21, <2>2 DEF TaskSucceeds, TaskFails, TypeOK, TaskKinds
    <3>2. QED
      BY <2>1, <3>1 DEF MetaInv, StatusTrue, BackupSeen, BackupFirst, NoLateBackup
  <2>3. CASE kind # Backup
    <3>1. /\ task'[Backup] = task[Backup] /\ backup' = backup
          /\ task[Update] # "absent" \/ task[Rollback] # "absent"
      BY <1>21, <2>3 DEF TaskSucceeds, TaskFails, TypeOK, TaskKinds
    <3>2. QED
      BY <2>1, <3>1 DEF MetaInv, StatusTrue, BackupSeen, BackupFirst, NoLateBackup
  <2>4. QED
    BY <2>2, <2>3
<1>22. ASSUME NEW kind \in TaskKinds, SyncCache(kind) PROVE MetaInv'
  <2>1. status' = status /\ mem' = mem /\ pc' = pc /\ UNCHANGED <<task, meta, backup>>
    BY <1>22 DEF SyncCache, upgradeVars
  <2>2. cache'[Backup] \in {cache[Backup], task[Backup]}
    BY <1>22 DEF SyncCache, TypeOK, TaskKinds
  <2>3. QED
    BY <2>1, <2>2 DEF MetaInv, StatusTrue, BackupSeen, BackupFirst, NoLateBackup
<1>23. CASE Cluster \/ User
  BY <1>1, <1>21, <1>22, <1>23
     DEF Cluster, User, RequestRollback, Rescale, ConvertAlpha, Deregister, SyncUpgrade,
         SyncMilvus, ReconcileDeploy, SyncDeploy, upgradeVars
<1>24. CASE UNCHANGED vars
  BY <1>1, <1>24 DEF vars, taskVars
<1>25. QED
  BY <1>3, <1>4, <1>5, <1>6, <1>7, <1>8, <1>9, <1>11, <1>13, <1>15, <1>16, <1>17, <1>19,
     <1>20, <1>23, <1>24 DEF Next, Reconcile

\* It holds initially: nothing has been backed up and nothing started.
LEMMA MetaInit == Init => MetaInv
<1> SUFFICES ASSUME Init PROVE MetaInv
  OBVIOUS
<1>1. /\ status.state = Pending /\ ~status.metaBackuped /\ mem = status /\ pc = "idle"
      /\ task = [k \in TaskKinds |-> "absent"] /\ cache = task /\ meta = "old"
  BY DEF Init
<1>2. QED
  BY <1>1 DEF MetaInv, StatusTrue, BackupSeen, BackupFirst, NoLateBackup, TaskKinds

\* Whatever fails, is retried, rolled back or seen late: as long as a reconcile
\* reads the latest MilvusUpgrade, the metadata is only ever changed, and the
\* migration only ever started (UpdatingMeta), with a complete backup of the old
\* metadata in place (BackupMeta).
THEOREM BackupPrecedesChange ==
  ASSUME ~LagUpgrade
  PROVE  Spec => []BackupBeforeChange
<1>1. Init => MetaInv
  BY MetaInit
<1>2. TypeOK /\ MetaInv /\ [Next]_vars => MetaInv'
  BY MetaStep
<1>3. MetaInv => BackupBeforeChange
  BY DEF MetaInv, BackupFirst, BackupBeforeChange
<1>4. QED
  BY <1>1, <1>2, <1>3, TypeCorrect, PTL DEF Spec

-----------------------------------------------------------------------------
(* The steps of a reconcile, as far as the status goes.                     *)

RollbackStates == States \ NotRollbackStates
RestStates == {Succeeded, BakupMetaFailed, UpdateMetaFailed}

SameFlags == mem'.isRollbacking = mem.isRollbacking /\ mem'.metaBackuped = mem.metaBackuped

KeepsRecord ==
  /\ mem.replicasBeforeUpgrade # NoRecord => mem'.replicasBeforeUpgrade = mem.replicasBeforeUpgrade
  /\ mem.sourceImage # NoImage => mem'.sourceImage = mem.sourceImage

\* The state function ends the loop in the state it had.
Stays == pc' = "save" /\ mem'.state = mem.state /\ SameFlags /\ UNCHANGED taskVars

\* The state function hands over to the next one.
Moves(from, to) == mem.state = from /\ mem'.state = to /\ pc' = "run" /\ SameFlags /\ UNCHANGED taskVars

\* The state function ends the loop and may have created a pod.
Starts(state, kind) ==
  /\ mem.state = state /\ mem'.state = state /\ pc' = "save" /\ SameFlags /\ UNCHANGED <<cache, meta, backup>>
  /\ \/ task' = task
     \/ task[kind] = "absent" /\ task' = [task EXCEPT ![kind] = "running"]

BackupSteps ==
  \/ Moves(OldVersionStoppingState, BackupMetaState)
  \/ Starts(BackupMetaState, Backup)
  \/ /\ mem.state = BackupMetaState /\ cache[Backup] = "succeeded"
     /\ mem'.state = UpdatingMetaState /\ mem'.metaBackuped = TRUE /\ mem'.isRollbacking = mem.isRollbacking
     /\ pc' = "run" /\ UNCHANGED taskVars
  \/ Moves(BackupMetaState, BakupMetaFailed) /\ cache[Backup] = "failed"
  \/ /\ mem.state = BakupMetaFailed /\ mem'.state = BackupMetaState /\ pc' = "save" /\ SameFlags
     /\ task' = [task EXCEPT ![Backup] = "absent"] /\ UNCHANGED <<cache, meta>>

UpdateSteps ==
  \/ Starts(UpdatingMetaState, Update)
  \/ Moves(UpdatingMetaState, NewVersionStartingState) /\ cache[Update] = "succeeded"
  \/ Moves(UpdatingMetaState, UpdateMetaFailed) /\ cache[Update] = "failed"
  \/ Moves(NewVersionStartingState, Succeeded)

RollbackSteps ==
  \/ /\ mem.state \in {BakupMetaFailed, UpdateMetaFailed} /\ mem'.state = RollbackNewVersionStoppingState
     /\ mem'.metaBackuped = mem.metaBackuped /\ mem'.isRollbacking = TRUE
     /\ pc' = "run" /\ UNCHANGED taskVars
  \/ Moves(RollbackNewVersionStoppingState, RollbackRestoringOldMetaState)
  \/ Starts(RollbackRestoringOldMetaState, Rollback) /\ mem.metaBackuped
  \/ /\ Moves(RollbackRestoringOldMetaState, RollbackOldVersionStartingState)
     /\ ~mem.metaBackuped \/ cache[Rollback] = "succeeded"
  \/ Moves(RollbackRestoringOldMetaState, RollbackFailed) /\ cache[Rollback] = "failed"
  \/ Moves(RollbackOldVersionStartingState, RollbackSucceeded)

LoopStep == Stays \/ BackupSteps \/ UpdateSteps \/ RollbackSteps

StateFunction ==
  \/ NilStateFunc \/ OldVersionStopping \/ BackupMeta \/ HandleBakupMetaFailed
  \/ UpdatingMeta \/ HandleUpgradeFailed \/ StartingMilvusNewVersion
  \/ RollbackNewVersionStopping \/ RollbackRestoringOldMeta
  \/ RollbackOldVersionStarting

\* What returning the status as it is, or going on in another state, leaves
\* alone.
LEMMA ReturnStays ==
  ASSUME mem \in MilvusUpgradeStatus, Return(mem), UNCHANGED taskVars
  PROVE  Stays /\ KeepsRecord
  BY DEF Return, Stays, SameFlags, KeepsRecord

LEMMA ContinueMoves ==
  ASSUME mem \in MilvusUpgradeStatus, NEW to \in States, Continue(mem, to), UNCHANGED taskVars
  PROVE  Moves(mem.state, to) /\ KeepsRecord
  BY DEF Continue, Moves, SameFlags, KeepsRecord, MilvusUpgradeStatus

LEMMA StartStarts ==
  ASSUME mem \in MilvusUpgradeStatus, NEW kind \in TaskKinds, NEW m, StartTaskPod(kind, m),
         UNCHANGED <<cache, meta, backup>>, pc' = "save", mem'.state = mem.state, SameFlags
  PROVE  Starts(mem.state, kind)
  BY DEF Starts, StartTaskPod

LEMMA AssumeZeroKeeps ==
  ASSUME mem \in MilvusUpgradeStatus
  PROVE  /\ AssumeZero(mem) \in MilvusUpgradeStatus
         /\ AssumeZero(mem).state = mem.state /\ AssumeZero(mem).isRollbacking = mem.isRollbacking
         /\ AssumeZero(mem).metaBackuped = mem.metaBackuped /\ AssumeZero(mem).sourceImage = mem.sourceImage
         /\ AssumeZero(mem).groupReplicasBeforeUpgrade = mem.groupReplicasBeforeUpgrade
         /\ mem.replicasBeforeUpgrade # NoRecord =>
              AssumeZero(mem).replicasBeforeUpgrade = mem.replicasBeforeUpgrade
  BY ZerosType DEF AssumeZero, MilvusUpgradeStatus

LEMMA StartMoves ==
  ASSUME mem \in MilvusUpgradeStatus, NEW image, NEW next \in States,
         StartMilvus(AssumeZero(mem), image, next), UNCHANGED taskVars
  PROVE  (Stays \/ Moves(mem.state, next)) /\ KeepsRecord
<1> DEFINE m == AssumeZero(mem)
<1>1. /\ m \in MilvusUpgradeStatus
      /\ m.state = mem.state /\ m.isRollbacking = mem.isRollbacking
      /\ m.metaBackuped = mem.metaBackuped /\ m.sourceImage = mem.sourceImage
      /\ mem.replicasBeforeUpgrade # NoRecord => m.replicasBeforeUpgrade = mem.replicasBeforeUpgrade
  BY AssumeZeroKeeps
<1>2. Return(m) \/ Continue(m, next)
  BY DEF StartMilvus
<1> HIDE DEF m
<1>3. CASE Return(m)
  BY <1>1, <1>3 DEF Return, Stays, SameFlags, KeepsRecord
<1>4. CASE Continue(m, next)
  BY <1>1, <1>4 DEF Continue, Moves, SameFlags, KeepsRecord, MilvusUpgradeStatus
<1>5. QED
  BY <1>2, <1>3, <1>4

\* A rollback after a failure.
LEMMA FailedMoves ==
  ASSUME mem \in MilvusUpgradeStatus, mem.state \in {BakupMetaFailed, UpdateMetaFailed},
         UpgradeFailed(mem), UNCHANGED taskVars
  PROVE  (Stays \/ RollbackSteps) /\ KeepsRecord
<1>1. CASE Return(mem)
  BY <1>1, ReturnStays
<1>2. CASE Continue([mem EXCEPT !.isRollbacking = TRUE], RollbackNewVersionStoppingState)
  <2>1. /\ mem'.state = RollbackNewVersionStoppingState /\ mem'.metaBackuped = mem.metaBackuped
        /\ mem'.isRollbacking = TRUE /\ pc' = "run" /\ KeepsRecord
    BY <1>2 DEF Continue, MilvusUpgradeStatus, KeepsRecord
  <2>2. QED
    BY <2>1 DEF RollbackSteps
<1>3. QED
  BY <1>1, <1>2 DEF UpgradeFailed

\* What each state function does to the status and to the tasks.
LEMMA LoopSteps ==
  ASSUME TypeOK, StateFunction
  PROVE  pc = "run" /\ InLoop /\ LoopStep /\ KeepsRecord
<1>1. mem \in MilvusUpgradeStatus
  BY DEF TypeOK
<1>2. pc = "run" /\ InLoop
  BY DEF StateFunction, NilStateFunc, OldVersionStopping, BackupMeta, HandleBakupMetaFailed, UpdatingMeta,
         HandleUpgradeFailed, StartingMilvusNewVersion, RollbackNewVersionStopping, RollbackRestoringOldMeta,
         RollbackOldVersionStarting, Running, TaskFrame
<1> SUFFICES LoopStep /\ KeepsRecord
  BY <1>2
<1>3. CASE NilStateFunc
  BY <1>1, <1>3, ReturnStays DEF NilStateFunc, LoopStep
<1>4. CASE OldVersionStopping
  <2>1. mem.state = OldVersionStoppingState /\ UNCHANGED taskVars
    BY <1>4 DEF OldVersionStopping, Running
  <2>2. CASE Return(RecordOldInfo(mem))
    <3>1. /\ RecordOldInfo(mem).state = mem.state /\ RecordOldInfo(mem).isRollbacking = mem.isRollbacking
          /\ RecordOldInfo(mem).metaBackuped = mem.metaBackuped
          /\ mem.replicasBeforeUpgrade # NoRecord =>
               RecordOldInfo(mem).replicasBeforeUpgrade = mem.replicasBeforeUpgrade
          /\ mem.sourceImage # NoImage => RecordOldInfo(mem).sourceImage = mem.sourceImage
      BY <1>1 DEF RecordOldInfo, MilvusUpgradeStatus
    <3>2. QED
      BY <2>1, <2>2, <3>1 DEF Return, LoopStep, Stays, SameFlags, KeepsRecord
  <2>3. CASE Return(mem)
    BY <1>1, <2>1, <2>3, ReturnStays DEF LoopStep
  <2>4. CASE Continue(mem, BackupMetaState)
    BY <1>1, <2>1, <2>4, ContinueMoves DEF LoopStep, BackupSteps, States, NotRollbackStates
  <2>5. QED
    BY <1>4, <2>2, <2>3, <2>4 DEF OldVersionStopping
<1>5. CASE RollbackNewVersionStopping
  <2>1. mem.state = RollbackNewVersionStoppingState /\ UNCHANGED taskVars
    BY <1>5 DEF RollbackNewVersionStopping, Running
  <2>2. CASE Return(mem)
    BY <1>1, <2>1, <2>2, ReturnStays DEF LoopStep
  <2>3. CASE Continue(mem, RollbackRestoringOldMetaState)
    BY <1>1, <2>1, <2>3, ContinueMoves DEF LoopStep, RollbackSteps, States
  <2>4. QED
    BY <1>5, <2>2, <2>3 DEF RollbackNewVersionStopping
<1>6. ASSUME NEW kind, KeepWaiting(kind)
      PROVE  LoopStep /\ KeepsRecord
  BY <1>1, <1>6, ReturnStays DEF KeepWaiting, LoopStep
<1>7. CASE BackupMeta
  <2>1. mem.state = BackupMetaState
    BY <1>7 DEF BackupMeta, Running
  <2>2. CASE StartBakupMetaPod
    <3>1. mem'.state = mem.state /\ SameFlags /\ KeepsRecord /\ pc' = "save"
      BY <1>1, <2>2 DEF StartBakupMetaPod, Return, SameFlags, KeepsRecord, MilvusUpgradeStatus
    <3>2. Starts(BackupMetaState, Backup)
      BY <1>1, <2>1, <2>2, <3>1, StartStarts DEF StartBakupMetaPod, TaskKinds
    <3>3. QED
      BY <3>1, <3>2 DEF LoopStep, BackupSteps
  <2>3. CASE /\ cache[Backup] = "succeeded"
             /\ Continue([mem EXCEPT !.metaBackuped = TRUE], UpdatingMetaState)
             /\ UNCHANGED taskVars
    <3>1. /\ mem'.state = UpdatingMetaState /\ mem'.metaBackuped = TRUE
          /\ mem'.isRollbacking = mem.isRollbacking /\ pc' = "run" /\ KeepsRecord
      BY <1>1, <2>3 DEF Continue, KeepsRecord, MilvusUpgradeStatus
    <3>2. QED
      BY <2>1, <2>3, <3>1 DEF LoopStep, BackupSteps
  <2>4. CASE cache[Backup] = "failed" /\ Continue(mem, BakupMetaFailed) /\ UNCHANGED taskVars
    BY <1>1, <2>1, <2>4, ContinueMoves DEF LoopStep, BackupSteps, States, NotRollbackStates
  <2>5. QED
    BY <1>6, <1>7, <2>2, <2>3, <2>4 DEF BackupMeta
<1>8. CASE HandleBakupMetaFailed
  <2>1. mem.state = BakupMetaFailed /\ UNCHANGED <<cache, meta>>
    BY <1>8 DEF HandleBakupMetaFailed, Running
  <2>2. CASE UpgradeFailed(mem) /\ UNCHANGED <<task, backup>>
    BY <1>1, <2>1, <2>2, FailedMoves DEF LoopStep, taskVars
  <2>3. CASE /\ task' = [task EXCEPT ![Backup] = "absent"]
             /\ Return([mem EXCEPT !.state = BackupMetaState, !.retriedTimes = @ + 1])
    <3>1. mem'.state = BackupMetaState /\ SameFlags /\ KeepsRecord /\ pc' = "save"
      BY <1>1, <2>3 DEF Return, SameFlags, KeepsRecord, MilvusUpgradeStatus
    <3>2. QED
      BY <2>1, <2>3, <3>1 DEF LoopStep, BackupSteps
  <2>4. CASE Return(mem) /\ UNCHANGED <<task, backup>>
    BY <1>1, <2>1, <2>4, ReturnStays DEF LoopStep, taskVars
  <2>5. QED
    BY <1>8, <2>2, <2>3, <2>4 DEF HandleBakupMetaFailed
<1>9. CASE UpdatingMeta
  <2>1. mem.state = UpdatingMetaState
    BY <1>9 DEF UpdatingMeta, Running
  <2>2. CASE UpdateTaskStarted
    <3>1. mem'.state = mem.state /\ SameFlags /\ KeepsRecord /\ pc' = "save"
      BY <1>1, <2>2 DEF UpdateTaskStarted, StartUpdateMetaPod, Return, SameFlags, KeepsRecord, MilvusUpgradeStatus
    <3>2. Starts(UpdatingMetaState, Update)
      BY <1>1, <2>1, <2>2, <3>1, StartStarts DEF UpdateTaskStarted, StartUpdateMetaPod, TaskKinds
    <3>3. QED
      BY <3>1, <3>2 DEF LoopStep, UpdateSteps
  <2>3. CASE UpdateTaskMissing
    BY <1>1, <2>3, ReturnStays DEF UpdateTaskMissing, LoopStep
  <2>4. CASE UpdateTaskEnded({"succeeded"}, NewVersionStartingState)
    BY <1>1, <2>1, <2>4, ContinueMoves DEF UpdateTaskEnded, LoopStep, UpdateSteps, States, NotRollbackStates
  <2>5. CASE UpdateTaskEnded({"failed"}, UpdateMetaFailed)
    BY <1>1, <2>1, <2>5, ContinueMoves DEF UpdateTaskEnded, LoopStep, UpdateSteps, States, NotRollbackStates
  <2>6. QED
    BY <1>6, <1>9, <2>2, <2>3, <2>4, <2>5 DEF UpdatingMeta
<1>10. CASE HandleUpgradeFailed
  BY <1>1, <1>10, FailedMoves DEF HandleUpgradeFailed, Running, LoopStep
<1>11. CASE RollbackRestoringOldMeta
  <2>1. mem.state = RollbackRestoringOldMetaState
    BY <1>11 DEF RollbackRestoringOldMeta, Running
  <2>2. CASE SkipRestore
    BY <1>1, <2>1, <2>2, ContinueMoves DEF SkipRestore, LoopStep, RollbackSteps, States
  <2>3. CASE mem.metaBackuped /\ RollbackTaskStarted
    <3>1. mem' = mem /\ pc' = "save"
      BY <2>3 DEF RollbackTaskStarted, StartRollbackMetaPod, Return
    <3>2. Starts(RollbackRestoringOldMetaState, Rollback)
      BY <1>1, <2>1, <2>3, <3>1, StartStarts DEF RollbackTaskStarted, StartRollbackMetaPod, TaskKinds, SameFlags
    <3>3. QED
      BY <2>3, <3>1, <3>2 DEF LoopStep, RollbackSteps, KeepsRecord
  <2>4. CASE RollbackTaskEnded({"succeeded"}, RollbackOldVersionStartingState)
    BY <1>1, <2>1, <2>4, ContinueMoves DEF RollbackTaskEnded, LoopStep, RollbackSteps, States
  <2>5. CASE RollbackTaskEnded({"failed"}, RollbackFailed)
    BY <1>1, <2>1, <2>5, ContinueMoves DEF RollbackTaskEnded, LoopStep, RollbackSteps, States
  <2>6. QED
    BY <1>6, <1>11, <2>2, <2>3, <2>4, <2>5 DEF RollbackRestoringOldMeta
<1>12. CASE StartingMilvusNewVersion
  BY <1>1, <1>12, StartMoves
     DEF StartingMilvusNewVersion, Running, LoopStep, UpdateSteps, States, NotRollbackStates
<1>13. CASE RollbackOldVersionStarting
  BY <1>1, <1>13, StartMoves DEF RollbackOldVersionStarting, Running, LoopStep, RollbackSteps, States
<1>14. QED
  BY <1>2, <1>3, <1>4, <1>5, <1>7, <1>8, <1>9, <1>10, <1>11, <1>12, <1>13 DEF StateFunction

\* The steps of the system, by what they do to the status.
LEMMA UpgradeStepKinds ==
  ASSUME [Next]_vars
  PROVE  \/ /\ ReadUpgrade /\ pc' \in {"run", "save"} /\ UNCHANGED <<operation, status, taskVars>>
         \/ SaveStatus
         \/ LoseStatus
         \/ StateFunction
         \/ (\E kind \in TaskKinds : TaskSucceeds(kind) \/ TaskFails(kind) \/ SyncCache(kind))
         \/ /\ UNCHANGED <<status, pc, mem, taskVars>>
            /\ UNCHANGED <<operation, fresh>> \/ RequestRollback
<1>1. CASE Cluster \/ User
  BY <1>1 DEF Cluster, User, RequestRollback, Rescale, ConvertAlpha, Deregister, SyncUpgrade, SyncMilvus,
              ReconcileDeploy, SyncDeploy, upgradeVars
<1>2. CASE UNCHANGED vars
  BY <1>2 DEF vars, taskVars
<1>3. CASE StartReconcile \/ StartReconcileNoMilvus
  BY <1>3 DEF StartReconcile, StartReconcileNoMilvus
<1>4. QED
  BY <1>1, <1>2, <1>3 DEF Next, Reconcile, StateFunction

-----------------------------------------------------------------------------
(* The record of the old replicas and the old image is taken once.          *)

\* A reconcile that may still save its status has what is saved.
RecordInv ==
  fresh /\ pc # "idle" =>
    /\ status.replicasBeforeUpgrade # NoRecord => mem.replicasBeforeUpgrade = status.replicasBeforeUpgrade
    /\ status.sourceImage # NoImage => mem.sourceImage = status.sourceImage

\* Reading the status redirects its state and leaves the rest alone.
LEMMA DetermineKeeps ==
  ASSUME NEW s \in MilvusUpgradeStatus, NEW op
  PROVE  LET d == DetermineCurrentState(s, op)
         IN  /\ d.replicasBeforeUpgrade = s.replicasBeforeUpgrade /\ d.sourceImage = s.sourceImage
             /\ d.groupReplicasBeforeUpgrade = s.groupReplicasBeforeUpgrade
             /\ d.metaBackuped = s.metaBackuped
             /\ IF (s.isRollbacking \/ op = "rollback") /\ s.state \in NotRollbackStates
                THEN d.state = RollbackNewVersionStoppingState /\ d.isRollbacking
                ELSE /\ d.isRollbacking = s.isRollbacking
                     /\ \/ d.state = s.state
                        \/ s.state = Pending /\ d.state = OldVersionStoppingState
  BY DEF DetermineCurrentState, MilvusUpgradeStatus

LEMMA RecordStep ==
  ASSUME TypeOK, RecordInv, [Next]_vars
  PROVE  RecordInv'
<1>1. CASE ReadUpgrade /\ UNCHANGED status
  <2>1. seen.status \in MilvusUpgradeStatus /\ mem' = DetermineCurrentState(seen.status, seen.operation)
    BY <1>1 DEF ReadUpgrade, TypeOK
  <2>2. /\ mem'.replicasBeforeUpgrade = seen.status.replicasBeforeUpgrade
        /\ mem'.sourceImage = seen.status.sourceImage
    BY <2>1, DetermineKeeps
  <2>3. fresh' => seen.status = status
    <3>1. fresh' => seen = Latest
      BY <1>1 DEF ReadUpgrade
    <3>2. QED
      BY SMT, <3>1 DEF Latest
  <2>4. QED
    BY <1>1, <2>2, <2>3 DEF RecordInv
<1>2. CASE SaveStatus \/ LoseStatus
  BY <1>2 DEF SaveStatus, LoseStatus, RecordInv
<1>3. CASE StateFunction
  BY <1>3, LoopSteps DEF InLoop, KeepsRecord, RecordInv
<1>4. CASE UNCHANGED <<status, pc, mem>> /\ (fresh' = fresh \/ ~fresh')
  BY <1>4 DEF RecordInv
<1>5. QED
  BY <1>1, <1>2, <1>3, <1>4, UpgradeStepKinds
     DEF TaskSucceeds, TaskFails, SyncCache, upgradeVars, RequestRollback

\* Whatever fails, is lost or read late, the replicas and the image that
\* recordOldInfo saved are not taken again from a Milvus that is already
\* stopped or changed.
THEOREM RecordIsTakenOnce == Spec => RecordTakenOnce
<1> DEFINE Once == /\ status.replicasBeforeUpgrade # NoRecord =>
                        status'.replicasBeforeUpgrade = status.replicasBeforeUpgrade
                   /\ status.sourceImage # NoImage => status'.sourceImage = status.sourceImage
<1>1. Init => RecordInv
  BY DEF Init, RecordInv
<1>2. TypeOK /\ RecordInv /\ [Next]_vars => RecordInv'
  BY RecordStep
<1>3. TypeOK /\ RecordInv /\ [Next]_vars => [Once]_vars
  <2> SUFFICES ASSUME TypeOK, RecordInv, [Next]_vars PROVE Once
    OBVIOUS
  <2>1. status' = status \/ (status' = mem /\ fresh /\ pc # "idle")
    BY UpgradeStepKinds, LoopSteps
       DEF SaveStatus, LoseStatus, InLoop, TaskSucceeds, TaskFails, SyncCache, upgradeVars
  <2>2. QED
    BY <2>1 DEF RecordInv
<1>4. QED
  BY <1>1, <1>2, <1>3, TypeCorrect, PTL DEF Spec, RecordTakenOnce

-----------------------------------------------------------------------------
(* One task at a time.                                                      *)

\* Users ask for a rollback when the upgrade rests.
RollbackAtRest == RollbackFrom \subseteq RestStates

\* What a copy of the status says about the migration is true of its pod, and
\* a rollback begins after the migration has ended.
TurnTrue(s) ==
  /\ s.state \in {Pending, OldVersionStoppingState, BackupMetaState, BakupMetaFailed} => ~s.metaBackuped
  /\ s.state \in {NewVersionStartingState, Succeeded} => task[Update] = "succeeded"
  /\ s.state = UpdateMetaFailed => task[Update] = "failed"
  /\ s.state \in RollbackStates /\ s.metaBackuped => task[Update] \in {"succeeded", "failed"}
  /\ s.isRollbacking => s.state \in RollbackStates

\* Pods of the migration and of the restoration are not deleted.
TurnSeen ==
  \A k \in {Update, Rollback} : cache[k] \in {"succeeded", "failed"} => task[k] = cache[k]

\* A rollback is asked for at rest, and taken up by the next reconcile.
AskedAtRest ==
  /\ operation = "rollback" => status.state \in RestStates \cup RollbackStates
  /\ operation = "rollback" /\ fresh /\ pc # "idle" => mem.state \in RollbackStates
  /\ pc = "idle" => mem = status

TurnInv ==
  /\ TurnTrue(status) /\ TurnTrue(mem) /\ TurnSeen /\ AskedAtRest
  /\ task[Rollback] # "absent" => task[Update] \in {"succeeded", "failed"}

LEMMA StateKinds ==
  /\ RollbackStates = {RollbackNewVersionStoppingState, RollbackRestoringOldMetaState,
                       RollbackOldVersionStartingState, RollbackSucceeded, RollbackFailed}
  /\ \A s \in States : s \in NotRollbackStates <=> s \notin RollbackStates
  /\ RestStates \subseteq NotRollbackStates
  BY DEF RollbackStates, States, NotRollbackStates, RestStates

\* A rollback is taken up from rest only, and a status at rest is true.
LEMMA TurnRead ==
  ASSUME ~LagUpgrade, TypeOK, TurnInv, ReadUpgrade
  PROVE  /\ TurnTrue(mem') /\ fresh'
         /\ operation = "rollback" => mem'.state \in RollbackStates
<1>1. fresh' /\ status \in MilvusUpgradeStatus /\ mem' = DetermineCurrentState(status, operation)
  <2>1. seen = Latest
    BY DEF ReadUpgrade
  <2>2. fresh'
    BY <2>1 DEF ReadUpgrade
  <2>3. QED
    BY <2>1, <2>2 DEF ReadUpgrade, Latest, TypeOK
<1>2. /\ mem'.metaBackuped = status.metaBackuped
      /\ IF (status.isRollbacking \/ operation = "rollback") /\ status.state \in NotRollbackStates
         THEN mem'.state = RollbackNewVersionStoppingState /\ mem'.isRollbacking
         ELSE /\ mem'.isRollbacking = status.isRollbacking
              /\ \/ mem'.state = status.state
                 \/ status.state = Pending /\ mem'.state = OldVersionStoppingState
  BY <1>1, DetermineKeeps
<1>3. CASE (status.isRollbacking \/ operation = "rollback") /\ status.state \in NotRollbackStates
  <2>1. status.state \in RestStates
    BY <1>3 DEF TurnInv, AskedAtRest, TurnTrue, RollbackStates
  <2>2. mem'.metaBackuped => task[Update] \in {"succeeded", "failed"}
    BY <1>2, <2>1 DEF TurnInv, TurnTrue, RestStates
  <2>3. mem'.state = RollbackNewVersionStoppingState /\ mem'.state \in RollbackStates
    BY <1>2, <1>3 DEF RollbackStates, States, NotRollbackStates
  <2>4. QED
    BY <1>1, <2>2, <2>3 DEF TurnTrue
<1>4. CASE ~((status.isRollbacking \/ operation = "rollback") /\ status.state \in NotRollbackStates)
  <2>1. status.state \in States
    BY <1>1 DEF MilvusUpgradeStatus
  <2>2. operation = "rollback" => status.state \in RollbackStates
    BY <1>4, <2>1 DEF RollbackStates
  <2>3. Pending \notin RollbackStates /\ OldVersionStoppingState \notin RollbackStates
    BY DEF RollbackStates, NotRollbackStates
  <2>4. TurnTrue(mem')
    BY <1>2, <1>4, <2>3 DEF TurnInv, TurnTrue
  <2>5. operation = "rollback" => mem'.state \in RollbackStates
    BY <1>2, <1>4, <2>2, <2>3
  <2>6. QED
    BY <1>1, <2>4, <2>5
<1>5. QED
  BY <1>3, <1>4

\* The state functions keep the status in memory true.
LEMMA TurnLoop ==
  ASSUME TypeOK, TurnInv, LoopStep
  PROVE  /\ TurnTrue(mem)'
         /\ mem.state \in RollbackStates => mem'.state \in RollbackStates
<1> USE DEF TurnInv, TurnTrue
<1>1. mem.isRollbacking => mem.state \in RollbackStates
  OBVIOUS
<1>2. CASE UNCHANGED taskVars
  <2>1. task' = task
    BY <1>2 DEF taskVars
  <2>2. CASE Stays
    BY <2>1, <2>2 DEF Stays, SameFlags
  <2>3. CASE BackupSteps
    BY <2>1, <2>3, StateKinds DEF BackupSteps, Moves, Starts, SameFlags
  <2>4. CASE UpdateSteps
    BY <2>1, <2>4, StateKinds DEF UpdateSteps, Moves, Starts, SameFlags, TurnSeen
  <2>5. CASE RollbackSteps
    BY <2>1, <2>5, StateKinds DEF RollbackSteps, Moves, Starts, SameFlags
  <2>6. QED
    BY <2>2, <2>3, <2>4, <2>5 DEF LoopStep
<1>3. CASE Starts(BackupMetaState, Backup) \/ Starts(RollbackRestoringOldMetaState, Rollback)
  <2>1. task'[Update] = task[Update] /\ mem'.state = mem.state /\ SameFlags
    BY <1>3 DEF Starts, TypeOK, TaskKinds
  <2>2. QED
    BY <2>1 DEF SameFlags
<1>4. CASE Starts(UpdatingMetaState, Update)
  BY <1>4, StateKinds DEF Starts, SameFlags
<1>5. CASE /\ mem.state = BakupMetaFailed /\ mem'.state = BackupMetaState /\ SameFlags
           /\ task' = [task EXCEPT ![Backup] = "absent"]
  BY <1>5, StateKinds DEF SameFlags
<1>6. QED
  BY <1>2, <1>3, <1>4, <1>5 DEF LoopStep, Stays, BackupSteps, UpdateSteps, RollbackSteps, Moves

\* What it says of the pods stays true when pods are created.
LEMMA TurnTasks ==
  ASSUME TypeOK, TurnInv, LoopStep
  PROVE  /\ \A k \in {Update, Rollback} : task'[k] = task[k] \/ task[k] = "absent"
         /\ task'[Rollback] # "absent" => task'[Update] \in {"succeeded", "failed"}
         /\ cache' = cache
<1> USE DEF TurnInv, TurnTrue
<1>1. CASE UNCHANGED taskVars
  BY <1>1 DEF taskVars
<1>2. CASE Starts(BackupMetaState, Backup)
  BY <1>2 DEF Starts, TypeOK, TaskKinds
<1>3. CASE Starts(UpdatingMetaState, Update)
  BY <1>3 DEF Starts, TypeOK, TaskKinds
<1>4. CASE Starts(RollbackRestoringOldMetaState, Rollback) /\ mem.metaBackuped
  BY <1>4, StateKinds DEF Starts, TypeOK, TaskKinds
<1>5. CASE task' = [task EXCEPT ![Backup] = "absent"] /\ UNCHANGED cache
  BY <1>5 DEF TypeOK, TaskKinds
<1>6. QED
  BY <1>1, <1>2, <1>3, <1>4, <1>5 DEF LoopStep, Stays, BackupSteps, UpdateSteps, RollbackSteps, Moves

LEMMA TurnStep ==
  ASSUME ~LagUpgrade, RollbackAtRest, TypeOK, TurnInv, [Next]_vars
  PROVE  TurnInv'
<1>1. CASE ReadUpgrade /\ pc' \in {"run", "save"} /\ UNCHANGED <<operation, status, taskVars>>
  <2>1. TurnTrue(mem') /\ (operation = "rollback" => mem'.state \in RollbackStates)
    BY <1>1, TurnRead
  <2>2. task' = task /\ cache' = cache
    BY <1>1 DEF taskVars
  <2>3. QED
    BY <1>1, <2>1, <2>2 DEF TurnInv, TurnTrue, TurnSeen, AskedAtRest
<1>2. CASE SaveStatus
  <2>1. status' \in {status, mem} /\ mem' = status' /\ pc' = "idle" /\ task' = task /\ cache' = cache
    BY <1>2 DEF SaveStatus, taskVars
  <2>2. operation' = operation /\ (operation = "rollback" => status'.state \in RestStates \cup RollbackStates)
    BY <1>2 DEF SaveStatus, TurnInv, AskedAtRest
  <2>3. TurnTrue(status)' /\ TurnTrue(mem)'
    BY <2>1 DEF TurnInv, TurnTrue
  <2>4. QED
    BY <2>1, <2>2, <2>3 DEF TurnInv, TurnSeen, AskedAtRest
<1>3. CASE LoseStatus
  BY <1>3 DEF LoseStatus, TurnInv, TurnTrue, TurnSeen, AskedAtRest, taskVars
<1>4. CASE StateFunction
  <2>1. pc = "run" /\ InLoop /\ LoopStep
    BY <1>4, LoopSteps
  <2>2. TurnTrue(status)'
    BY <2>1, TurnTasks DEF InLoop, TurnInv, TurnTrue
  <2>3. TurnSeen'
    BY <2>1, TurnTasks DEF TurnInv, TurnSeen
  <2>4. pc' # "idle"
    BY <2>1 DEF LoopStep, Stays, BackupSteps, UpdateSteps, RollbackSteps, Moves, Starts
  <2>5. AskedAtRest'
    BY <2>1, <2>4, TurnLoop DEF InLoop, TurnInv, AskedAtRest
  <2>6. QED
    BY <2>1, <2>2, <2>3, <2>5, TurnLoop, TurnTasks DEF TurnInv
<1>5. ASSUME NEW kind \in TaskKinds, TaskSucceeds(kind) \/ TaskFails(kind)
      PROVE  TurnInv'
  <2>1. /\ UNCHANGED <<operation, status, pc, mem, fresh, cache>> /\ task[kind] = "running"
        /\ \A k \in TaskKinds \ {kind} : task'[k] = task[k]
        /\ task'[kind] \in {"succeeded", "failed"}
    BY <1>5 DEF TaskSucceeds, TaskFails, upgradeVars, TypeOK
  <2>2. /\ task'[Update] = task[Update] \/ (task[Update] = "running" /\ task'[Update] \in {"succeeded", "failed"})
        /\ task'[Rollback] = task[Rollback] \/ task[Rollback] = "running"
    BY <2>1 DEF TaskKinds
  <2>3. TurnTrue(status)' /\ TurnTrue(mem)'
    BY <2>1, <2>2 DEF TurnInv, TurnTrue
  <2>4. TurnSeen'
    BY <2>1, <2>2 DEF TurnInv, TurnSeen
  <2>5. QED
    BY <2>1, <2>2, <2>3, <2>4 DEF TurnInv, AskedAtRest
<1>6. ASSUME NEW kind \in TaskKinds, SyncCache(kind)
      PROVE  TurnInv'
  <2>1. /\ UNCHANGED <<operation, status, pc, mem, fresh, task>>
        /\ \A k \in TaskKinds : cache'[k] \in {cache[k], task[k]}
    BY <1>6 DEF SyncCache, upgradeVars, TypeOK
  <2>2. TurnSeen'
    BY <2>1 DEF TurnInv, TurnSeen, TaskKinds
  <2>3. QED
    BY <2>1, <2>2 DEF TurnInv, TurnTrue, AskedAtRest
<1>7. CASE UNCHANGED <<status, pc, mem, taskVars>> /\ (UNCHANGED <<operation, fresh>> \/ RequestRollback)
  <2>1. AskedAtRest'
    BY SMT, <1>7 DEF TurnInv, AskedAtRest, RequestRollback, RollbackAtRest
  <2>2. QED
    BY <1>7, <2>1 DEF TurnInv, TurnTrue, TurnSeen, taskVars
<1>8. QED
  BY <1>1, <1>2, <1>3, <1>4, <1>5, <1>6, <1>7, UpgradeStepKinds

LEMMA TurnInit == Init => TurnInv
<1> SUFFICES ASSUME Init PROVE TurnInv
  OBVIOUS
<1>1. /\ status.state = Pending /\ ~status.metaBackuped /\ ~status.isRollbacking /\ mem = status
      /\ operation = "upgrade" /\ task = [k \in TaskKinds |-> "absent"] /\ cache = task
  BY DEF Init
<1>2. QED
  BY <1>1, StateKinds DEF TurnInv, TurnTrue, TurnSeen, AskedAtRest, TaskKinds

\* Whatever fails, is retried or seen late: where a reconcile reads the latest
\* MilvusUpgrade and rollbacks are asked for at rest, no two of the backup, the
\* migration and the restoration work on the metadata at the same time.
THEOREM TasksInTurn ==
  ASSUME ~LagUpgrade, RollbackAtRest
  PROVE  Spec => []OneTaskAtATime
<1>1. Init => MetaInv /\ TurnInv
  BY MetaInit, TurnInit
<1>2. TypeOK /\ MetaInv /\ TurnInv /\ [Next]_vars => MetaInv' /\ TurnInv'
  BY MetaStep, TurnStep
<1>3. MetaInv /\ TurnInv => OneTaskAtATime
  BY DEF MetaInv, BackupFirst, TurnInv, OneTaskAtATime, TaskKinds
<1>4. QED
  BY <1>1, <1>2, <1>3, TypeCorrect, PTL DEF Spec

-----------------------------------------------------------------------------
(* The outcome of an upgrade or a rollback.                                 *)

\* No fault, no rescaling, no lagging cache, rollbacks asked for at rest, and
\* an instance that runs when the upgrade is created.
Undisturbed ==
  /\ MaxFaults = 0 /\ MaxRescales = 0 /\ ~LagUpgrade /\ ~LagMilvus
  /\ RollbackAtRest /\ Zeros \notin InitialReplicas

Recorded(s) ==
  /\ s.replicasBeforeUpgrade = [w \in Workloads |-> IF w \in Grouped THEN 0 ELSE wanted[w]]
  /\ Grouped # {} =>
       s.groupReplicasBeforeUpgrade = [w \in Workloads |-> IF w \in Grouped THEN wanted[w] ELSE 0]
  /\ s.sourceImage = "old"

Unrecorded(s) ==
  /\ s.replicasBeforeUpgrade = NoRecord /\ s.groupReplicasBeforeUpgrade = NoRecord
  /\ s.sourceImage = NoImage

Started(image) ==
  /\ milvus.image = image /\ milvus.replicas = wanted
  /\ ~milvus.upgradeStopping /\ milvus.stoppedAt = "none"

\* What the user asked for is recorded before Milvus is stopped.
RecordFirst ==
  /\ wanted # Zeros
  /\ \A s \in {status, mem} : s.state \notin {Pending, OldVersionStoppingState} => Recorded(s)
  /\ Recorded(mem) \/ (Unrecorded(mem) /\ Started("old"))
  /\ ~fresh => operation = "rollback" /\ (pc # "idle" => status.state \in RestStates)

\* Only the upgrade writes the Milvus: it is as it was asked for or scaled
\* down, and the alpha object has the same contents unless it is marked.
OwnMilvus ==
  /\ pc = "run" => mread = milvus
  /\ IF milvus.upgradeStopping THEN milvus.replicas = Zeros ELSE Started(milvus.image)
  /\ HasAlpha /\ alpha.mark = "none" => alpha.replicas = wanted /\ Started(alpha.image)
  /\ HasAlpha /\ alpha.mark = "upgraded" => ~milvus.upgradeStopping

\* A Milvus that is marked as stopped has no pods.
Down == milvus.stoppedAt = "past"

StopSeen ==
  milvus.stoppedAt # "none" =>
    \A w \in Workloads : deploy[w].replicas = 0 /\ deploy[w].pods = {}

\* A reconcile that began at rest starts no task before its status is saved,
\* and none at all when the upgrade has succeeded.
RestKept ==
  pc # "idle" /\ status.state \in RestStates =>
    /\ task[Backup] # "running" /\ task[Update] # "running"
    /\ pc = "run" => mem.state \in RestStates \cup RollbackStates
    /\ status.state = Succeeded /\ (operation = "upgrade" \/ ~fresh) => mem.state = Succeeded

\* The states in which Milvus is down, and the tasks that run in them.
DownStates ==
  {BackupMetaState, UpdatingMetaState, NewVersionStartingState, RollbackRestoringOldMetaState,
   RollbackOldVersionStartingState}

DownWhile ==
  /\ mem.state \in DownStates => Down
  /\ mem.state \in {BakupMetaFailed, UpdateMetaFailed} => Down \/ (pc = "idle" /\ operation = "rollback")
  /\ task[Backup] = "running" => mem.state = BackupMetaState
  /\ task[Update] = "running" => mem.state = UpdatingMetaState
  /\ task[Rollback] = "running" =>
       /\ Down /\ mem.metaBackuped
       /\ mem.state \in {RollbackRestoringOldMetaState, RollbackNewVersionStoppingState, UpdateMetaFailed}

\* A restoration belongs to a rollback; without a backup there was no migration.
RestoreLast ==
  /\ mem.state \in {Pending, OldVersionStoppingState, BackupMetaState, UpdatingMetaState, NewVersionStartingState}
       => task[Rollback] = "absent"
  /\ mem.state \in RollbackStates /\ ~mem.metaBackuped => task[Update] = "absent"

\* Which version the metadata has.
MetaKnown ==
  /\ task[Update] = "absent" => meta = "old"
  /\ task[Update] = "succeeded" /\ task[Rollback] = "absent" => meta = "new"
  /\ task[Rollback] = "succeeded" => meta = "old"
  /\ mem.state \in {RollbackOldVersionStartingState, RollbackSucceeded} => meta = "old"

\* What is asked for is of that version, and what runs where the image is not
\* held back.
ImagesMatch ==
  /\ ~Down => milvus.image = meta
  /\ ~milvus.orderedImages =>
       \A w \in Workloads : /\ deploy[w].pods \subseteq {meta}
                            /\ deploy[w].replicas # 0 => deploy[w].image = meta

\* Milvus is up in the end.
Ends ==
  /\ mem.state = RollbackSucceeded \/ (mem.state = Succeeded /\ operation = "upgrade")
       => ~milvus.upgradeStopping
  /\ status.state = RollbackSucceeded => mem.state = RollbackSucceeded

OutcomeInv ==
  /\ RecordFirst /\ OwnMilvus /\ StopSeen /\ RestKept /\ DownWhile /\ RestoreLast
  /\ MetaKnown /\ ImagesMatch /\ Ends

\* What a reconcile writes to the Milvus object.
Stops ==
  /\ ~milvus.upgradeStopping /\ milvus.stoppedAt = "none"
  /\ milvus' = [milvus EXCEPT !.replicas = Zeros, !.upgradeStopping = TRUE]
  /\ mread' = milvus' /\ AnnotateAlphaCR("upgrading")

Marks ==
  /\ milvus.upgradeStopping /\ milvus.stoppedAt = "none" /\ DeploymentsStopped
  /\ milvus' = [milvus EXCEPT !.stoppedAt = "recent"]
  /\ mread' = milvus' /\ alpha' = alpha

Runs(image) == Started(image)' /\ mread' = milvus' /\ AnnotateAlphaCR("upgraded")

WriteStep ==
  \/ /\ UNCHANGED <<milvus, mread, alpha>>
     /\ mem.state \in {OldVersionStoppingState, RollbackNewVersionStoppingState} =>
          mem'.state = mem.state \/ Down
     /\ mem.state \in {NewVersionStartingState, RollbackOldVersionStartingState} => mem'.state = mem.state
  \/ /\ mem.state \in {OldVersionStoppingState, RollbackNewVersionStoppingState} /\ mem'.state = mem.state
     /\ Stops \/ Marks
  \/ mem.state = NewVersionStartingState /\ mem'.state = Succeeded /\ Runs("new")
  \/ mem.state = RollbackOldVersionStartingState /\ mem'.state = RollbackSucceeded /\ Runs("old")

LEMMA NoFault ==
  ASSUME MaxFaults = 0, TypeOK
  PROVE  ~Fault
  BY SMT DEF Fault, TypeOK

LEMMA StopWrites ==
  ASSUME MaxFaults = 0, TypeOK, RecordFirst, OwnMilvus, OldVersionStopping \/ RollbackNewVersionStopping
  PROVE  WriteStep /\ UNCHANGED <<deploy, wanted>>
<1>1. /\ mread = milvus /\ UNCHANGED deploy
      /\ mem.state \in {OldVersionStoppingState, RollbackNewVersionStoppingState}
  BY DEF OldVersionStopping, RollbackNewVersionStopping, Running, OwnMilvus
<1>2. RecordOldInfo(mem).state = mem.state
  BY DEF RecordOldInfo, TypeOK, MilvusUpgradeStatus
<1>3. milvus \in MilvusObject /\ ~Fault
  BY NoFault DEF TypeOK
<1>4. CASE ~IsMilvusStopping /\ StopMilvus /\ mem'.state = mem.state
  <2>1. ~milvus.upgradeStopping /\ milvus.stoppedAt = "none"
    BY <1>1, <1>4 DEF IsMilvusStopping, OwnMilvus, Started
  <2>2. CASE UNCHANGED <<milvusVars, budgetVars>>
    BY <1>1, <1>4, <2>2 DEF WriteStep, milvusVars, budgetVars
  <2>3. CASE AnnotateAlphaCR("upgrading") /\ UpdateMilvus(StoppedMilvus) /\ UNCHANGED budgetVars
    <3>1. StoppedMilvus = [milvus EXCEPT !.replicas = Zeros, !.upgradeStopping = TRUE]
      BY <1>1 DEF StoppedMilvus
    <3>2. StoppedMilvus.image \in Images
      BY <1>3, <3>1 DEF MilvusObject
    <3>3. milvus' = StoppedMilvus /\ mread' = milvus'
      BY <2>3, <3>2 DEF UpdateMilvus, Images, NoImage
    <3>4. QED
      BY <1>1, <1>4, <2>1, <2>3, <3>1, <3>3 DEF WriteStep, Stops, budgetVars
  <2>4. QED
    BY <1>1, <1>3, <1>4, <2>2, <2>3 DEF StopMilvus, UpdateMilvusFails
<1>5. CASE IsMilvusStopping /\ WaitForStop /\ mem'.state = mem.state
  <2>1. milvus.upgradeStopping
    BY <1>1, <1>5 DEF IsMilvusStopping, OwnMilvus, Started, RecordFirst
  <2>2. CASE UNCHANGED <<milvusVars, budgetVars>>
    BY <1>1, <1>5, <2>2 DEF WriteStep, milvusVars, budgetVars
  <2>3. CASE /\ mread.stoppedAt = "none" /\ DeploymentsStopped /\ UNCHANGED <<alpha, budgetVars>>
             /\ UpdateMilvus([mread EXCEPT !.stoppedAt = "recent"])
    <3>1. [mread EXCEPT !.stoppedAt = "recent"].image \in Images
      BY <1>1, <1>3 DEF MilvusObject
    <3>2. milvus' = [milvus EXCEPT !.stoppedAt = "recent"] /\ mread' = milvus'
      BY <1>1, <2>3, <3>1 DEF UpdateMilvus, Images, NoImage
    <3>3. QED
      BY <1>1, <1>5, <2>1, <2>3, <3>2 DEF WriteStep, Marks, budgetVars
  <2>4. QED
    BY <1>1, <1>3, <1>5, <2>2, <2>3 DEF WaitForStop, UpdateMilvusFails
<1>6. CASE IsMilvusStopped /\ UNCHANGED <<milvusVars, budgetVars>>
  BY <1>1, <1>6 DEF WriteStep, IsMilvusStopped, Down, milvusVars, budgetVars
<1>7. QED
  BY <1>2, <1>4, <1>5, <1>6 DEF OldVersionStopping, RollbackNewVersionStopping, Return

LEMMA RecordedIsTaken ==
  ASSUME TypeOK, NEW s, Recorded(s)
  PROVE  /\ s.replicasBeforeUpgrade # NoRecord /\ s.sourceImage # NoImage
         /\ Grouped # {} => s.groupReplicasBeforeUpgrade # NoRecord
<1>1. \A w \in Workloads : wanted[w] \in Int
  BY ReplicasInt DEF TypeOK
<1>2. [w \in Workloads |-> IF w \in Grouped THEN 0 ELSE wanted[w]] \in [Workloads -> Int]
  BY SMT, <1>1
<1>3. [w \in Workloads |-> IF w \in Grouped THEN wanted[w] ELSE 0] \in [Workloads -> Int]
  BY SMT, <1>1
<1>4. QED
  BY <1>2, <1>3, UpgradeAssumption DEF Recorded

\* The replicas that are restored are the recorded ones.
LEMMA StartWrites ==
  ASSUME MaxFaults = 0, TypeOK, RecordFirst, OwnMilvus, NEW image \in Images, NEW next \in States,
         pc = "run", mem.state \notin {Pending, OldVersionStoppingState},
         StartMilvus(AssumeZero(mem), image, next)
  PROVE  /\ \/ UNCHANGED <<milvus, mread, alpha>> /\ mem'.state = mem.state
            \/ mem'.state = next /\ Runs(image)
         /\ wanted' = wanted
<1> DEFINE m == AssumeZero(mem)
<1>1. /\ m.state = mem.state /\ m \in MilvusUpgradeStatus
      /\ m.groupReplicasBeforeUpgrade = mem.groupReplicasBeforeUpgrade
      /\ mem.replicasBeforeUpgrade # NoRecord => m.replicasBeforeUpgrade = mem.replicasBeforeUpgrade
  BY AssumeZeroKeeps DEF TypeOK
<1>2. mread = milvus /\ ~Fault /\ milvus \in MilvusObject /\ Recorded(mem)
  BY NoFault DEF OwnMilvus, TypeOK, RecordFirst
<1>3. mem.replicasBeforeUpgrade # NoRecord
  BY <1>2, RecordedIsTaken
<1> DEFINE restored == [w \in Workloads |->
                     IF w \in Grouped THEN m.groupReplicasBeforeUpgrade[w]
                                      ELSE m.replicasBeforeUpgrade[w]]
<1>4. restored = wanted
  <2>1. \A w \in Workloads : restored[w] = wanted[w]
    BY <1>1, <1>2, <1>3 DEF Recorded
  <2>2. QED
    BY <2>1 DEF TypeOK, Replicas
<1>5. StartMilvus(m, image, next)
  OBVIOUS
<1>6. StartedMilvus(m, image) = [milvus EXCEPT !.image = image, !.replicas = wanted,
                                                !.upgradeStopping = FALSE, !.stoppedAt = "none"]
  BY <1>2, <1>4 DEF StartedMilvus
<1> HIDE DEF m, restored
<1>7. CASE Return(m) /\ UNCHANGED <<milvus, mread, alpha, wanted>>
  BY <1>1, <1>7 DEF Return
<1>8. CASE /\ UpdateMilvus(StartedMilvus(m, image)) /\ AnnotateAlphaCR("upgraded")
           /\ Continue(m, next) /\ UNCHANGED budgetVars
  <2>1. StartedMilvus(m, image).image = image /\ image # NoImage
    BY <1>2, <1>6 DEF MilvusObject, Images, NoImage
  <2>2. milvus' = StartedMilvus(m, image) /\ mread' = milvus'
    BY <1>8, <2>1 DEF UpdateMilvus
  <2>3. wanted' = wanted
    BY <1>8 DEF budgetVars
  <2>4. Started(image)'
    BY <1>2, <1>6, <2>2, <2>3 DEF MilvusObject, Started
  <2>5. mem'.state = next
    BY <1>1, <1>8 DEF Continue, MilvusUpgradeStatus
  <2>6. QED
    BY <1>8, <2>2, <2>3, <2>4, <2>5 DEF Runs
<1>9. QED
  BY <1>2, <1>5, <1>7, <1>8 DEF StartMilvus, UpdateMilvusFails, milvusVars, budgetVars

LEMMA WriteSteps ==
  ASSUME MaxFaults = 0, TypeOK, RecordFirst, OwnMilvus, StateFunction
  PROVE  WriteStep /\ UNCHANGED <<deploy, wanted>>
<1>1. CASE OldVersionStopping \/ RollbackNewVersionStopping
  BY <1>1, StopWrites
<1>2. CASE StartingMilvusNewVersion
  <2>1. /\ pc = "run" /\ mem.state = NewVersionStartingState /\ UNCHANGED deploy
        /\ StartMilvus(AssumeZero(mem), "new", Succeeded)
    BY <1>2 DEF StartingMilvusNewVersion, Running
  <2>2. /\ \/ UNCHANGED <<milvus, mread, alpha>> /\ mem'.state = mem.state
           \/ mem'.state = Succeeded /\ Runs("new")
        /\ wanted' = wanted
    BY <2>1, StartWrites DEF Images, States, NotRollbackStates
  <2>3. QED
    BY <2>1, <2>2 DEF WriteStep
<1>3. CASE RollbackOldVersionStarting
  <2>1. /\ pc = "run" /\ mem.state = RollbackOldVersionStartingState /\ UNCHANGED deploy
        /\ StartMilvus(AssumeZero(mem), mem.sourceImage, RollbackSucceeded)
    BY <1>3 DEF RollbackOldVersionStarting, Running
  <2>2. mem.sourceImage = "old"
    BY <2>1 DEF RecordFirst, Recorded
  <2>3. /\ \/ UNCHANGED <<milvus, mread, alpha>> /\ mem'.state = mem.state
           \/ mem'.state = RollbackSucceeded /\ Runs("old")
        /\ wanted' = wanted
    BY <2>1, <2>2, StartWrites DEF Images, States
  <2>4. QED
    BY <2>1, <2>3 DEF WriteStep
<1>4. CASE NilStateFunc
  BY <1>4 DEF NilStateFunc, Return, FinalStates, WriteStep, milvusVars, budgetVars
<1>5. CASE BackupMeta \/ HandleBakupMetaFailed \/ UpdatingMeta \/ HandleUpgradeFailed
  BY <1>5 DEF BackupMeta, HandleBakupMetaFailed, UpdatingMeta, HandleUpgradeFailed, Running, TaskFrame,
              WriteStep, milvusVars
<1>6. CASE RollbackRestoringOldMeta
  BY <1>6 DEF RollbackRestoringOldMeta, Running, TaskFrame, WriteStep, milvusVars
<1>7. QED
  BY <1>1, <1>2, <1>3, <1>4, <1>5, <1>6 DEF StateFunction

\* The record is complete after the first stop, and kept from then on.
LEMMA RecordLoop ==
  ASSUME MaxFaults = 0, TypeOK, RecordFirst, OwnMilvus, StateFunction
  PROVE  Recorded(mem)'
<1>1. wanted' = wanted /\ mem \in MilvusUpgradeStatus
  BY WriteSteps DEF TypeOK
<1>2. CASE Recorded(mem)
  <2>1. /\ mem.replicasBeforeUpgrade # NoRecord /\ mem.sourceImage # NoImage
        /\ Grouped # {} => mem.groupReplicasBeforeUpgrade # NoRecord
    BY <1>2, RecordedIsTaken
  <2>2. /\ mem'.replicasBeforeUpgrade = mem.replicasBeforeUpgrade
        /\ mem'.sourceImage = mem.sourceImage
    BY <2>1, LoopSteps DEF KeepsRecord
  <2>3. mem'.groupReplicasBeforeUpgrade = mem.groupReplicasBeforeUpgrade
    <3>1. ASSUME NEW m \in MilvusUpgradeStatus, Return(m) \/ (\E next : Continue(m, next)),
                 m.groupReplicasBeforeUpgrade = mem.groupReplicasBeforeUpgrade
          PROVE  mem'.groupReplicasBeforeUpgrade = mem.groupReplicasBeforeUpgrade
      BY <3>1 DEF Return, Continue, MilvusUpgradeStatus
    <3>2. CASE \/ Return(mem) \/ (\E next : Continue(mem, next))
      BY <1>1, <3>1, <3>2
    <3>3. CASE OldVersionStopping
      <4>1. CASE Return(RecordOldInfo(mem))
        BY <1>1, <2>1, <4>1 DEF Return, RecordOldInfo, MilvusUpgradeStatus
      <4>2. QED
        BY <3>2, <3>3, <4>1 DEF OldVersionStopping
    <3>4. CASE BackupMeta
      <4>1. CASE Return([mem EXCEPT !.backupPVC = TRUE])
        BY <1>1, <4>1 DEF Return, MilvusUpgradeStatus
      <4>2. CASE Continue([mem EXCEPT !.metaBackuped = TRUE], UpdatingMetaState)
        BY <1>1, <4>2 DEF Continue, MilvusUpgradeStatus
      <4>3. QED
        BY <3>2, <3>4, <4>1, <4>2 DEF BackupMeta, KeepWaiting, StartBakupMetaPod
    <3>5. CASE UpgradeFailed(mem)
      <4>1. CASE Continue([mem EXCEPT !.isRollbacking = TRUE], RollbackNewVersionStoppingState)
        BY <1>1, <4>1 DEF Continue, MilvusUpgradeStatus
      <4>2. QED
        BY <3>2, <3>5, <4>1 DEF UpgradeFailed
    <3>6. CASE HandleBakupMetaFailed
      <4>1. CASE Return([mem EXCEPT !.state = BackupMetaState, !.retriedTimes = @ + 1])
        BY <1>1, <4>1 DEF Return, MilvusUpgradeStatus
      <4>2. QED
        BY <3>2, <3>5, <3>6, <4>1 DEF HandleBakupMetaFailed
    <3>7. CASE UpdatingMeta
      <4>1. CASE Return([mem EXCEPT !.metaStorageChanged = TRUE])
        BY <1>1, <4>1 DEF Return, MilvusUpgradeStatus
      <4>2. QED
        BY <3>2, <3>7, <4>1 DEF UpdatingMeta, UpdateTaskStarted, StartUpdateMetaPod, KeepWaiting,
                                UpdateTaskMissing, UpdateTaskEnded
    <3>8. ASSUME NEW image, NEW next, StartMilvus(AssumeZero(mem), image, next)
          PROVE  mem'.groupReplicasBeforeUpgrade = mem.groupReplicasBeforeUpgrade
      <4>1. Return(AssumeZero(mem)) \/ Continue(AssumeZero(mem), next)
        BY <3>8 DEF StartMilvus
      <4>2. QED
        BY <1>1, <3>1, <4>1, AssumeZeroKeeps
    <3>9. CASE NilStateFunc \/ RollbackNewVersionStopping \/ RollbackRestoringOldMeta
      BY <3>2, <3>9 DEF NilStateFunc, RollbackNewVersionStopping, RollbackRestoringOldMeta, SkipRestore,
                        KeepWaiting, RollbackTaskStarted, StartRollbackMetaPod, RollbackTaskEnded
    <3>10. QED
      BY <3>3, <3>4, <3>5, <3>6, <3>7, <3>8, <3>9
         DEF StateFunction, HandleUpgradeFailed, StartingMilvusNewVersion, RollbackOldVersionStarting
  <2>4. QED
    BY <1>1, <1>2, <2>2, <2>3 DEF Recorded
<1>3. CASE Unrecorded(mem) /\ Started("old") /\ ~Recorded(mem)
  <2>1. mem.state \in {Pending, OldVersionStoppingState}
    BY <1>3 DEF RecordFirst
  <2>2. OldVersionStopping /\ mread = milvus
    BY <2>1 DEF StateFunction, NilStateFunc, FinalStates, BackupMeta, HandleBakupMetaFailed, UpdatingMeta,
                HandleUpgradeFailed, StartingMilvusNewVersion, RollbackNewVersionStopping,
                RollbackRestoringOldMeta, RollbackOldVersionStarting, OldVersionStopping, Running, OwnMilvus
  <2>3. ~IsMilvusStopping
    BY <1>3, <2>2 DEF IsMilvusStopping, Started, RecordFirst
  <2>4. mem' = RecordOldInfo(mem)
    BY <2>2, <2>3 DEF OldVersionStopping, Return
  <2>5. /\ mem'.replicasBeforeUpgrade = [w \in Workloads |-> IF w \in Grouped THEN 0 ELSE wanted[w]]
        /\ mem'.sourceImage = "old"
    BY <1>1, <1>3, <2>2, <2>4 DEF RecordOldInfo, Unrecorded, Started, MilvusUpgradeStatus
  <2>6. Grouped # {} =>
          mem'.groupReplicasBeforeUpgrade = [w \in Workloads |-> IF w \in Grouped THEN wanted[w] ELSE 0]
    BY <1>1, <1>3, <2>2, <2>4 DEF RecordOldInfo, Unrecorded, Started, MilvusUpgradeStatus
  <2>7. QED
    BY <1>1, <2>5, <2>6 DEF Recorded
<1>4. QED
  BY <1>2, <1>3 DEF RecordFirst

\* What each write to the Milvus leaves of its fields.
LEMMA MilvusFields ==
  ASSUME TypeOK, RecordFirst, OwnMilvus, WriteStep, UNCHANGED <<deploy, wanted>>, pc = "run"
  PROVE  /\ OwnMilvus'
         /\ Stops => milvus'.stoppedAt = "none" /\ milvus'.image = milvus.image /\ milvus'.upgradeStopping
         /\ Marks => milvus'.stoppedAt = "recent" /\ milvus'.image = milvus.image /\ milvus'.upgradeStopping
<1> USE DEF OwnMilvus, Started
<1>1. milvus \in MilvusObject /\ alpha \in AlphaObject
  BY DEF TypeOK
<1>2. ASSUME Stops
      PROVE  OwnMilvus' /\ milvus'.stoppedAt = "none" /\ milvus'.image = milvus.image /\ milvus'.upgradeStopping
  <2>1. /\ milvus'.stoppedAt = "none" /\ milvus'.image = milvus.image
        /\ milvus'.upgradeStopping /\ milvus'.replicas = Zeros
    BY <1>1, <1>2 DEF Stops, MilvusObject
  <2>2. HasAlpha => alpha'.mark = "upgrading"
    BY <1>1, <1>2 DEF Stops, AnnotateAlphaCR, AlphaObject
  <2>3. mread' = milvus'
    BY <1>2 DEF Stops
  <2>4. Zeros' = Zeros
    BY DEF Zeros
  <2>5. QED
    BY <2>1, <2>2, <2>3, <2>4
<1>3. ASSUME Marks
      PROVE  OwnMilvus' /\ milvus'.stoppedAt = "recent" /\ milvus'.image = milvus.image /\ milvus'.upgradeStopping
  <2>1. /\ milvus'.stoppedAt = "recent" /\ milvus'.image = milvus.image
        /\ milvus'.upgradeStopping /\ milvus'.replicas = milvus.replicas
    BY <1>1, <1>3 DEF Marks, MilvusObject
  <2>2. mread' = milvus' /\ alpha' = alpha /\ milvus.upgradeStopping
    BY <1>3 DEF Marks
  <2>3. Zeros' = Zeros
    BY DEF Zeros
  <2>4. QED
    BY <2>1, <2>2, <2>3
<1>4. ASSUME NEW image, Runs(image)
      PROVE  OwnMilvus'
  <2>1. HasAlpha => alpha'.mark = "upgraded"
    BY <1>1, <1>4 DEF Runs, AnnotateAlphaCR, AlphaObject
  <2>2. QED
    BY <1>4, <2>1 DEF Runs
<1>5. ASSUME UNCHANGED <<milvus, mread, alpha>>
      PROVE  OwnMilvus'
  <2>1. Zeros' = Zeros
    BY DEF Zeros
  <2>2. QED
    BY <1>5, <2>1
<1>6. QED
  BY <1>2, <1>3, <1>4, <1>5 DEF WriteStep

\* How the state functions change the state.
StateMoves ==
  {<<OldVersionStoppingState, BackupMetaState>>, <<BackupMetaState, UpdatingMetaState>>,
   <<BackupMetaState, BakupMetaFailed>>, <<BakupMetaFailed, BackupMetaState>>,
   <<UpdatingMetaState, NewVersionStartingState>>, <<UpdatingMetaState, UpdateMetaFailed>>,
   <<NewVersionStartingState, Succeeded>>, <<BakupMetaFailed, RollbackNewVersionStoppingState>>,
   <<UpdateMetaFailed, RollbackNewVersionStoppingState>>,
   <<RollbackNewVersionStoppingState, RollbackRestoringOldMetaState>>,
   <<RollbackRestoringOldMetaState, RollbackOldVersionStartingState>>,
   <<RollbackRestoringOldMetaState, RollbackFailed>>,
   <<RollbackOldVersionStartingState, RollbackSucceeded>>}

\* The state functions keep the invariant of the outcome.
LEMMA OutcomeLoop ==
  ASSUME Undisturbed, TypeOK, MetaInv, TurnInv, OutcomeInv, StateFunction
  PROVE  OutcomeInv'
<1>1. MaxFaults = 0 /\ RecordFirst /\ OwnMilvus
  BY DEF Undisturbed, OutcomeInv
<1>2. /\ pc = "run" /\ pc' # "idle" /\ LoopStep
      /\ UNCHANGED <<operation, status, fresh>>
  BY LoopSteps DEF LoopStep, Stays, BackupSteps, UpdateSteps, RollbackSteps, Moves, Starts, InLoop
<1>3. WriteStep /\ UNCHANGED <<deploy, wanted>> /\ Recorded(mem)'
  BY <1>1, WriteSteps, RecordLoop
<1>4. /\ OwnMilvus'
      /\ Stops => milvus'.stoppedAt = "none" /\ milvus'.image = milvus.image /\ milvus'.upgradeStopping
      /\ Marks => milvus'.stoppedAt = "recent" /\ milvus'.image = milvus.image /\ milvus'.upgradeStopping
  BY <1>1, <1>2, <1>3, MilvusFields
<1>5. RecordFirst'
  <2>1. Zeros' = Zeros
    BY DEF Zeros
  <2>2. status'.state \notin {Pending, OldVersionStoppingState} => Recorded(status)'
    BY <1>1, <1>2, <1>3 DEF RecordFirst, Recorded
  <2>3. QED
    BY <1>1, <1>2, <1>3, <2>1, <2>2 DEF RecordFirst
<1>6. StopSeen'
  <2>1. CASE milvus'.stoppedAt = milvus.stoppedAt
    BY <1>3, <2>1 DEF OutcomeInv, StopSeen, Down
  <2>2. CASE Marks
    BY <1>3, <1>4, <2>2 DEF Marks, DeploymentsStopped, StopSeen, Down
  <2>3. CASE milvus'.stoppedAt = "none"
    BY <2>3 DEF StopSeen
  <2>4. QED
    BY <1>3, <1>4, <2>1, <2>2, <2>3 DEF WriteStep, Runs, Started
<1>7. /\ meta' = meta
      /\ \/ task'[Backup] = task[Backup]
         \/ task'[Backup] = "running" /\ mem.state = BackupMetaState /\ mem'.state = mem.state
         \/ task'[Backup] = "absent" /\ mem.state = BakupMetaFailed
      /\ \/ task'[Update] = task[Update]
         \/ /\ task[Update] = "absent" /\ task'[Update] = "running"
            /\ mem.state = UpdatingMetaState /\ mem'.state = mem.state
      /\ \/ task'[Rollback] = task[Rollback]
         \/ /\ task[Rollback] = "absent" /\ task'[Rollback] = "running" /\ mem.metaBackuped
            /\ mem.state = RollbackRestoringOldMetaState /\ mem'.state = mem.state
  <2>1. task \in [TaskKinds -> TaskPhases]
    BY DEF TypeOK
  <2>2. CASE Stays \/ (LoopStep /\ UNCHANGED taskVars)
    BY <2>2 DEF Stays, taskVars
  <2>3. CASE Starts(BackupMetaState, Backup)
    BY <2>1, <2>3 DEF Starts, TaskKinds
  <2>4. CASE Starts(UpdatingMetaState, Update)
    BY <2>1, <2>4 DEF Starts, TaskKinds
  <2>5. CASE Starts(RollbackRestoringOldMetaState, Rollback) /\ mem.metaBackuped
    BY <2>1, <2>5 DEF Starts, TaskKinds
  <2>6. CASE mem.state = BakupMetaFailed /\ task' = [task EXCEPT ![Backup] = "absent"] /\ UNCHANGED <<cache, meta>>
    BY <2>1, <2>6 DEF TaskKinds
  <2>7. QED
    BY <1>2, <2>2, <2>3, <2>4, <2>5, <2>6 DEF LoopStep, BackupSteps, UpdateSteps, RollbackSteps, Moves
<1>8. /\ mem'.state = mem.state \/ <<mem.state, mem'.state>> \in StateMoves
      /\ mem'.metaBackuped = mem.metaBackuped \/ (mem.state = BackupMetaState /\ mem'.state = UpdatingMetaState)
      /\ mem.state = BakupMetaFailed /\ mem'.state = BackupMetaState => pc' = "save"
  BY <1>2 DEF LoopStep, Stays, BackupSteps, UpdateSteps, RollbackSteps, Moves, Starts, SameFlags, StateMoves
<1>9. /\ mem.state = BackupMetaState /\ mem'.state # mem.state => cache[Backup] \in {"succeeded", "failed"}
      /\ mem.state = UpdatingMetaState /\ mem'.state # mem.state => cache[Update] \in {"succeeded", "failed"}
      /\ mem.state = RollbackRestoringOldMetaState /\ mem'.state # mem.state =>
           \/ cache[Rollback] = "succeeded"
           \/ ~mem.metaBackuped
           \/ cache[Rollback] = "failed" /\ mem'.state = RollbackFailed
  BY <1>2 DEF LoopStep, Stays, BackupSteps, UpdateSteps, RollbackSteps, Moves, Starts
<1>10. /\ task[Backup] = "running" => cache[Backup] \notin {"succeeded", "failed"}
       /\ \A k \in {Update, Rollback} : cache[k] \in {"succeeded", "failed"} => task[k] = cache[k]
  BY DEF MetaInv, BackupSeen, TurnInv, TurnSeen
<1>11. RestKept'
  <2> SUFFICES ASSUME status.state \in RestStates
               PROVE  RestKept'
    BY <1>2 DEF RestKept
  <2>1. /\ task[Backup] # "running" /\ task[Update] # "running" /\ mem.state \in RestStates \cup RollbackStates
        /\ status.state = Succeeded /\ (operation = "upgrade" \/ ~fresh) => mem.state = Succeeded
    BY <1>2 DEF OutcomeInv, RestKept
  <2>2. task'[Backup] # "running" /\ task'[Update] # "running"
    BY <1>7, <2>1, StateKinds DEF RestStates
  <2>3. mem'.state \in RestStates \cup RollbackStates \/ (mem.state = BakupMetaFailed /\ mem'.state = BackupMetaState)
    BY <1>8, <2>1, StateKinds DEF StateMoves, RestStates
  <2>4. mem.state = Succeeded => mem'.state = Succeeded
    BY <1>8 DEF StateMoves
  <2>5. QED
    BY <1>2, <1>8, <2>1, <2>2, <2>3, <2>4 DEF RestKept
<1>12. DownWhile'
  <2>1. mem'.state \in DownStates \cup {BakupMetaFailed, UpdateMetaFailed} => Down /\ milvus' = milvus
    <3>1. mem.state \in DownStates \cup {BakupMetaFailed, UpdateMetaFailed} => Down
      BY <1>2 DEF OutcomeInv, DownWhile
    <3>2. mem'.state \in DownStates \cup {BakupMetaFailed, UpdateMetaFailed} =>
            \/ mem.state \in DownStates \cup {BakupMetaFailed, UpdateMetaFailed}
            \/ mem.state \in {OldVersionStoppingState, RollbackNewVersionStoppingState} /\ mem'.state # mem.state
      BY <1>8 DEF StateMoves, DownStates
    <3>3. QED
      BY <1>3, <3>1, <3>2 DEF WriteStep, DownStates
  <2>2. task'[Backup] = "running" => mem'.state = BackupMetaState
    BY <1>7, <1>9, <1>10 DEF OutcomeInv, DownWhile
  <2>3. task'[Update] = "running" => mem'.state = UpdatingMetaState
    BY <1>7, <1>9, <1>10 DEF OutcomeInv, DownWhile
  <2>4. CASE task'[Rollback] = "running"
    <3>1. CASE task[Rollback] = "running"
      <4>1. /\ Down /\ mem.metaBackuped
            /\ mem.state \in {RollbackRestoringOldMetaState, RollbackNewVersionStoppingState, UpdateMetaFailed}
        BY <3>1 DEF OutcomeInv, DownWhile
      <4>2. /\ mem'.state \in {RollbackRestoringOldMetaState, RollbackNewVersionStoppingState, UpdateMetaFailed}
            /\ mem'.metaBackuped
        BY <1>8, <1>9, <1>10, <3>1, <4>1 DEF StateMoves
      <4>3. milvus' = milvus
        BY <1>3, <4>1 DEF WriteStep, Stops, Marks, Down
      <4>4. QED
        BY <2>1, <2>2, <2>3, <4>1, <4>2, <4>3 DEF DownWhile, Down
    <3>2. CASE task[Rollback] # "running"
      <4>1. mem'.state = RollbackRestoringOldMetaState /\ mem'.metaBackuped
        BY <1>7, <1>8, <2>4, <3>2
      <4>2. QED
        BY <2>1, <2>2, <2>3, <4>1 DEF DownWhile, Down, DownStates
    <3>3. QED
      BY <3>1, <3>2
  <2>5. QED
    BY <2>1, <2>2, <2>3, <2>4 DEF DownWhile, Down
<1>13. RestoreLast'
  <2>1. mem.state = BakupMetaFailed => task[Update] = "absent" /\ task[Rollback] = "absent"
    BY DEF MetaInv, StatusTrue, BackupFirst
  <2>2. mem'.state \in {Pending, OldVersionStoppingState, BackupMetaState, UpdatingMetaState, NewVersionStartingState}
          => task'[Rollback] = "absent"
    <3>1. mem'.state \in {Pending, OldVersionStoppingState, BackupMetaState, UpdatingMetaState, NewVersionStartingState}
            => mem.state \in {Pending, OldVersionStoppingState, BackupMetaState, UpdatingMetaState,
                              NewVersionStartingState, BakupMetaFailed}
      BY <1>8 DEF StateMoves
    <3>2. QED
      BY <1>7, <2>1, <3>1 DEF OutcomeInv, RestoreLast
  <2>3. mem'.state \in RollbackStates /\ ~mem'.metaBackuped => task'[Update] = "absent"
    <3>1. mem'.state \in RollbackStates => mem.state \in RollbackStates \cup {BakupMetaFailed, UpdateMetaFailed}
      BY <1>8, StateKinds DEF StateMoves
    <3>2. mem'.state \in RollbackStates => mem'.metaBackuped = mem.metaBackuped
      BY <1>8, StateKinds
    <3>3. mem.state = UpdateMetaFailed => mem.metaBackuped
      BY DEF MetaInv, StatusTrue
    <3>4. mem'.state \in RollbackStates => task'[Update] = task[Update]
      BY <1>7, <3>1, StateKinds
    <3>5. QED
      BY <2>1, <3>1, <3>2, <3>3, <3>4 DEF OutcomeInv, RestoreLast
  <2>4. QED
    BY <2>2, <2>3 DEF RestoreLast
<1>14. MetaKnown'
  <2>1. task'[Update] = "absent" => task[Update] = "absent"
    BY <1>7
  <2>2. task'[Update] = "succeeded" /\ task'[Rollback] = "absent" => task[Update] = "succeeded" /\ task[Rollback] = "absent"
    BY <1>7
  <2>3. task'[Rollback] = "succeeded" => task[Rollback] = "succeeded"
    BY <1>7
  <2>4. mem'.state \in {RollbackOldVersionStartingState, RollbackSucceeded} => meta = "old"
    <3>1. mem'.state \in {RollbackOldVersionStartingState, RollbackSucceeded} =>
            \/ mem.state \in {RollbackOldVersionStartingState, RollbackSucceeded}
            \/ mem.state = RollbackRestoringOldMetaState /\ mem'.state = RollbackOldVersionStartingState
      BY <1>8 DEF StateMoves
    <3>2. mem.state = RollbackRestoringOldMetaState /\ mem'.state = RollbackOldVersionStartingState =>
            task[Rollback] = "succeeded" \/ task[Update] = "absent"
      BY <1>9, <1>10, StateKinds DEF OutcomeInv, RestoreLast
    <3>3. QED
      BY <3>1, <3>2 DEF OutcomeInv, MetaKnown
  <2>5. QED
    BY <1>7, <2>1, <2>2, <2>3, <2>4 DEF OutcomeInv, MetaKnown
<1>15. ImagesMatch'
  <2>1. meta' = meta /\ deploy' = deploy
    BY <1>3, <1>7
  <2>2. CASE UNCHANGED milvus
    BY <2>1, <2>2 DEF OutcomeInv, ImagesMatch, Down
  <2>3. CASE Stops \/ Marks
    <3>1. milvus'.orderedImages = milvus.orderedImages
      BY <2>3 DEF Stops, Marks, TypeOK, MilvusObject
    <3>2. QED
      BY <1>4, <2>1, <2>3, <3>1 DEF Stops, Marks, OutcomeInv, ImagesMatch, Down
  <2>4. CASE mem.state = NewVersionStartingState /\ Runs("new")
    <3>1. meta = "new"
      BY <2>4 DEF TurnInv, TurnTrue, OutcomeInv, RestoreLast, MetaKnown
    <3>2. QED
      BY <2>1, <2>4, <3>1 DEF Runs, Started, OutcomeInv, ImagesMatch, DownWhile, DownStates, StopSeen, Down
  <2>5. CASE mem.state = RollbackOldVersionStartingState /\ Runs("old")
    <3>1. meta = "old"
      BY <2>5 DEF OutcomeInv, MetaKnown
    <3>2. QED
      BY <2>1, <2>5, <3>1 DEF Runs, Started, OutcomeInv, ImagesMatch, DownWhile, DownStates, StopSeen, Down
  <2>6. QED
    BY <1>3, <2>2, <2>3, <2>4, <2>5 DEF WriteStep
<1>16. Ends'
  <2>1. mem.state \in {Succeeded, RollbackSucceeded} => mem'.state = mem.state /\ milvus' = milvus
    BY <1>3, <1>8 DEF StateMoves, WriteStep
  <2>2. mem'.state \in {Succeeded, RollbackSucceeded} /\ mem'.state # mem.state => ~milvus'.upgradeStopping
    <3>1. mem'.state \in {Succeeded, RollbackSucceeded} /\ mem'.state # mem.state =>
            mem.state \in {NewVersionStartingState, RollbackOldVersionStartingState}
      BY <1>8 DEF StateMoves
    <3>2. QED
      BY <1>3, <3>1 DEF WriteStep, Runs, Started
  <2>3. QED
    BY <1>2, <2>1, <2>2 DEF OutcomeInv, Ends
<1>17. QED
  BY <1>4, <1>5, <1>6, <1>11, <1>12, <1>13, <1>14, <1>15, <1>16 DEF OutcomeInv

\* A reconcile begins with what was saved, or with a rollback from rest.
LEMMA OutcomeRead ==
  ASSUME Undisturbed, TypeOK, MetaInv, TurnInv, OutcomeInv, StartReconcile
  PROVE  OutcomeInv'
<1> USE DEF OutcomeInv
<1>1. /\ pc = "idle" /\ pc' = "run" /\ mem = status /\ ReadUpgrade
      /\ UNCHANGED <<operation, status, milvus, alpha, deploy, task, cache, meta, backup, wanted>>
      /\ mread' = milvus'
  BY DEF StartReconcile, ReadUpgrade, Undisturbed, TurnInv, AskedAtRest, taskVars, budgetVars
<1>2. fresh' /\ status \in MilvusUpgradeStatus /\ mem' = DetermineCurrentState(status, operation)
  <2>1. seen = Latest
    BY <1>1 DEF ReadUpgrade, Undisturbed
  <2>2. fresh'
    BY <1>1, <2>1 DEF ReadUpgrade
  <2>3. QED
    BY <1>1, <2>1, <2>2 DEF ReadUpgrade, Latest, TypeOK
<1>3. /\ mem'.replicasBeforeUpgrade = mem.replicasBeforeUpgrade /\ mem'.sourceImage = mem.sourceImage
      /\ mem'.groupReplicasBeforeUpgrade = mem.groupReplicasBeforeUpgrade
      /\ mem'.metaBackuped = mem.metaBackuped
      /\ IF (status.isRollbacking \/ operation = "rollback") /\ status.state \in NotRollbackStates
         THEN mem'.state = RollbackNewVersionStoppingState /\ mem'.isRollbacking
         ELSE /\ mem'.isRollbacking = status.isRollbacking
              /\ \/ mem'.state = status.state
                 \/ status.state = Pending /\ mem'.state = OldVersionStoppingState
  BY <1>1, <1>2, DetermineKeeps
<1>4. \/ mem'.state = RollbackNewVersionStoppingState /\ mem.state \in RestStates /\ operation = "rollback"
      \/ mem'.state = mem.state /\ ~(operation = "rollback" /\ mem.state \in NotRollbackStates)
      \/ mem.state = Pending /\ mem'.state = OldVersionStoppingState
  <2>1. mem.state \in States
    BY <1>1, <1>2 DEF MilvusUpgradeStatus
  <2>2. status.isRollbacking => status.state \notin NotRollbackStates
    BY <1>1, <2>1, StateKinds DEF TurnInv, TurnTrue
  <2>3. operation = "rollback" /\ status.state \in NotRollbackStates => status.state \in RestStates
    BY <1>1, <2>1, StateKinds DEF TurnInv, AskedAtRest
  <2>4. QED
    BY <1>1, <1>3, <2>2, <2>3
<1>5. RecordFirst'
  <2>1. Zeros' = Zeros /\ (Recorded(mem) => Recorded(mem)') /\ (Unrecorded(mem) => Unrecorded(mem)')
    BY <1>1, <1>3 DEF Zeros, Recorded, Unrecorded
  <2>2. (Recorded(status) => Recorded(status)') /\ (Started("old") => Started("old")')
    BY <1>1 DEF Recorded, Started
  <2>3. mem'.state \notin {Pending, OldVersionStoppingState} => Recorded(mem)'
    BY <1>1, <1>4, <2>1 DEF RecordFirst, RestStates
  <2>4. QED
    BY <1>1, <1>2, <2>1, <2>2, <2>3 DEF RecordFirst
<1>6. OwnMilvus' /\ StopSeen' /\ ImagesMatch'
  BY <1>1 DEF OwnMilvus, StopSeen, ImagesMatch, Started, Zeros, Down
<1>7. RestKept'
  <2>1. status.state \in RestStates => task[Backup] # "running" /\ task[Update] # "running"
    BY <1>1 DEF DownWhile, RestStates
  <2>2. status.state \in RestStates => mem'.state \in RestStates \cup RollbackStates
    BY <1>1, <1>4, StateKinds DEF RestStates
  <2>3. status.state = Succeeded /\ operation = "upgrade" => mem'.state = Succeeded
    BY <1>1, <1>4
  <2>4. QED
    BY <1>1, <1>2, <2>1, <2>2, <2>3 DEF RestKept
<1>8. DownWhile'
  <2>1. Down' = Down
    BY <1>1 DEF Down
  <2>2. mem'.state \in DownStates => Down
    BY <1>4 DEF DownWhile, DownStates
  <2>3. mem'.state \in {BakupMetaFailed, UpdateMetaFailed} => Down
    BY <1>4 DEF DownWhile, NotRollbackStates
  <2>4. /\ task[Backup] = "running" => mem'.state = BackupMetaState
        /\ task[Update] = "running" => mem'.state = UpdatingMetaState
    BY <1>4 DEF DownWhile, RestStates
  <2>5. task[Rollback] = "running" =>
          /\ Down /\ mem'.metaBackuped
          /\ mem'.state \in {RollbackRestoringOldMetaState, RollbackNewVersionStoppingState, UpdateMetaFailed}
    BY <1>3, <1>4 DEF DownWhile
  <2>6. QED
    BY <1>1, <2>1, <2>2, <2>3, <2>4, <2>5 DEF DownWhile
<1>9. RestoreLast'
  <2>1. mem'.state \in {Pending, OldVersionStoppingState, BackupMetaState, UpdatingMetaState, NewVersionStartingState}
          => task[Rollback] = "absent"
    BY <1>4 DEF RestoreLast
  <2>2. mem.state \in RestStates /\ ~mem.metaBackuped => task[Update] = "absent"
    BY DEF MetaInv, StatusTrue, BackupFirst, RestStates
  <2>3. mem'.state \in RollbackStates /\ ~mem'.metaBackuped => task[Update] = "absent"
    BY <1>3, <1>4, <2>2, StateKinds DEF RestoreLast
  <2>4. QED
    BY <1>1, <2>1, <2>3 DEF RestoreLast
<1>10. MetaKnown'
  BY <1>1, <1>4 DEF MetaKnown
<1>11. Ends'
  BY <1>1, <1>4, StateKinds DEF Ends, RestStates
<1>12. QED
  BY <1>5, <1>6, <1>7, <1>8, <1>9, <1>10, <1>11

\* A reconcile whose status is refused was at rest when it began.
LEMMA OutcomeSave ==
  ASSUME TypeOK, MetaInv, TurnInv, OutcomeInv, SaveStatus
  PROVE  OutcomeInv'
<1> USE DEF OutcomeInv
<1>1. /\ pc = "save" /\ pc' = "idle" /\ mem' = status' /\ status' = IF fresh THEN mem ELSE status
      /\ UNCHANGED <<operation, fresh, milvus, mread, alpha, deploy, task, cache, meta, backup, wanted>>
  BY DEF SaveStatus, milvusVars, taskVars, budgetVars
<1>2. \/ status' = mem
      \/ status' = status /\ status.state \in RestStates /\ operation = "rollback" /\ ~fresh
  BY <1>1 DEF RecordFirst
<1>3. OwnMilvus' /\ StopSeen' /\ ImagesMatch' /\ RestKept'
  BY <1>1 DEF OwnMilvus, StopSeen, ImagesMatch, Started, Zeros, Down, RestKept
<1>4. RecordFirst'
  <2>1. /\ Zeros' = Zeros /\ Started("old")' = Started("old")
    BY <1>1 DEF Zeros, Started
  <2>2. CASE status' = mem
    <3>1. mem' = mem
      BY <1>1, <2>2
    <3>2. (Recorded(mem) => Recorded(mem)' /\ Recorded(status)') /\ (Unrecorded(mem) => Unrecorded(mem)')
      BY <1>1, <2>2, <3>1 DEF Recorded, Unrecorded
    <3>3. QED
      BY <1>1, <2>1, <2>2, <3>1, <3>2 DEF RecordFirst, Started
  <2>3. CASE status' = status /\ status.state \in RestStates
    <3>1. Recorded(mem)' /\ Recorded(status)'
      BY <1>1, <2>3 DEF RecordFirst, Recorded, RestStates
    <3>2. QED
      BY <1>1, <2>1, <3>1 DEF RecordFirst
  <2>4. QED
    BY <1>2, <2>2, <2>3
<1>5. CASE status' = mem
  <2>1. mem' = mem
    BY <1>1, <1>5
  <2>2. DownWhile' /\ RestoreLast' /\ MetaKnown' /\ Ends'
    BY <1>1, <1>5, <2>1 DEF DownWhile, Down, RestoreLast, MetaKnown, Ends
  <2>3. QED
    BY <1>3, <1>4, <2>2
<1>6. CASE status' = status /\ status.state \in RestStates /\ operation = "rollback" /\ ~fresh
  <2>1. mem' = status /\ task[Backup] # "running" /\ task[Update] # "running"
    BY <1>1, <1>6 DEF RestKept
  <2>2. task[Rollback] = "running" => Down /\ status.metaBackuped /\ status.state = UpdateMetaFailed
    <3>1. task[Rollback] = "running" => status.state # Succeeded
      BY <1>1, <1>6 DEF RestKept, DownWhile
    <3>2. task[Rollback] = "running" => status.state # BakupMetaFailed
      BY DEF MetaInv, StatusTrue, BackupFirst
    <3>3. status.state = UpdateMetaFailed => status.metaBackuped
      BY DEF MetaInv, StatusTrue
    <3>4. QED
      BY <1>6, <3>1, <3>2, <3>3 DEF DownWhile, RestStates
  <2>3. DownWhile'
    BY <1>1, <1>6, <2>1, <2>2 DEF DownWhile, Down, DownStates, RestStates
  <2>4. RestoreLast' /\ MetaKnown' /\ Ends'
    BY <1>1, <1>6, <2>1, StateKinds DEF RestoreLast, MetaKnown, Ends, RestStates
  <2>5. QED
    BY <1>3, <1>4, <2>3, <2>4
<1>7. QED
  BY <1>2, <1>5, <1>6

\* The tasks change the metadata while Milvus is down.
LEMMA OutcomeTask ==
  ASSUME TypeOK, MetaInv, TurnInv, OutcomeInv, NEW kind \in TaskKinds, TaskSucceeds(kind) \/ TaskFails(kind)
  PROVE  OutcomeInv'
<1> USE DEF OutcomeInv
<1>1. /\ UNCHANGED <<operation, status, pc, mem, fresh, milvus, mread, alpha, deploy, wanted>>
      /\ task[kind] = "running" /\ task'[kind] \in {"succeeded", "failed"}
      /\ \A k \in TaskKinds \ {kind} : task'[k] = task[k]
      /\ kind = Backup => meta' = meta
  BY DEF TaskSucceeds, TaskFails, TypeOK, upgradeVars, milvusVars, budgetVars
<1>2. Down
  BY <1>1 DEF DownWhile, DownStates, TaskKinds
<1>3. RecordFirst' /\ OwnMilvus' /\ StopSeen' /\ Ends'
  BY SMTT(60), <1>1 DEF RecordFirst, OwnMilvus, StopSeen, Ends, Started, Zeros, Down, Recorded, Unrecorded
<1>4. RestKept' /\ DownWhile' /\ RestoreLast'
  BY <1>1 DEF RestKept, DownWhile, RestoreLast, Down, TaskKinds
<1>5. MetaKnown'
  <2>1. CASE kind = Backup
    BY <1>1, <2>1 DEF MetaKnown, TaskKinds
  <2>2. CASE kind = Update
    <3>1. task'[Update] = "succeeded" => meta' = "new"
      BY <1>1, <2>2 DEF TaskSucceeds, TaskFails, TypeOK
    <3>2. mem.state = UpdatingMetaState /\ task[Rollback] = "absent"
      BY <1>1, <2>2 DEF DownWhile, RestoreLast
    <3>3. QED
      BY <1>1, <2>2, <3>1, <3>2 DEF MetaKnown, TaskKinds
  <2>3. CASE kind = Rollback
    <3>1. backup = "old" /\ task[Update] \in {"succeeded", "failed"}
      BY <1>1, <2>3 DEF MetaInv, BackupFirst, TurnInv
    <3>2. task'[Rollback] = "succeeded" => meta' = "old"
      BY <1>1, <2>3, <3>1 DEF TaskSucceeds, TaskFails, TypeOK
    <3>3. mem.state \notin {RollbackOldVersionStartingState, RollbackSucceeded}
      BY <1>1, <2>3 DEF DownWhile
    <3>4. QED
      BY <1>1, <2>3, <3>1, <3>2, <3>3 DEF MetaKnown, TaskKinds
  <2>4. QED
    BY <2>1, <2>2, <2>3 DEF TaskKinds
<1>6. ImagesMatch'
  BY <1>1, <1>2 DEF ImagesMatch, StopSeen, Down
<1>7. QED
  BY <1>3, <1>4, <1>5, <1>6

\* The Deployments follow the Milvus object.
LEMMA OutcomeDeploy ==
  ASSUME TypeOK, OutcomeInv, NEW w \in Workloads, ReconcileDeploy(w) \/ SyncDeploy(w)
  PROVE  OutcomeInv'
<1> USE DEF OutcomeInv
<1>1. /\ UNCHANGED <<operation, status, pc, mem, fresh, milvus, mread, alpha, task, cache, meta, backup, wanted>>
      /\ deploy \in [Workloads -> DeploymentObject] /\ milvus \in MilvusObject
  BY DEF ReconcileDeploy, SyncDeploy, TypeOK, upgradeVars, milvusVars, taskVars, budgetVars
<1>2. /\ RecordFirst' /\ OwnMilvus' /\ Ends' /\ RestKept' /\ DownWhile' /\ RestoreLast' /\ MetaKnown'
  <2>1. RecordFirst' /\ OwnMilvus'
    BY SMT, <1>1 DEF RecordFirst, OwnMilvus, Started, Zeros, Down, Recorded, Unrecorded
  <2>2. Ends' /\ RestKept' /\ DownWhile'
    BY SMT, <1>1 DEF Ends, RestKept, DownWhile, Down
  <2>3. RestoreLast' /\ MetaKnown'
    BY SMT, <1>1 DEF RestoreLast, MetaKnown
  <2>4. QED
    BY <2>1, <2>2, <2>3
<1>3. \A v \in Workloads \ {w} : deploy'[v] = deploy[v]
  BY <1>1 DEF ReconcileDeploy, SyncDeploy
<1>4. /\ deploy[w].replicas \in Int /\ deploy[w].image \in Images
      /\ ~milvus.orderedImages =>
           deploy[w].pods \subseteq {meta} /\ (deploy[w].replicas # 0 => deploy[w].image = meta)
  BY <1>1 DEF DeploymentObject, ImagesMatch
<1>5. /\ milvus.stoppedAt # "none" => deploy'[w].replicas = 0 /\ deploy'[w].pods = {}
      /\ ~milvus.orderedImages =>
           deploy'[w].pods \subseteq {meta} /\ (deploy'[w].replicas # 0 => deploy'[w].image = meta)
  <2>1. CASE ReconcileDeploy(w)
    <3>1. PICK ready \in BOOLEAN :
            deploy' = [deploy EXCEPT ![w].replicas = DeployReplicas(w),
                                     ![w].image = DeployImage(w, ready), ![w].observed = FALSE]
      BY <2>1 DEF ReconcileDeploy
    <3>2. /\ deploy'[w].replicas = DeployReplicas(w) /\ deploy'[w].image = DeployImage(w, ready)
          /\ deploy'[w].pods = deploy[w].pods
      BY <1>1, <3>1 DEF DeploymentObject
    <3>3. milvus.stoppedAt # "none" => DeployReplicas(w) = 0
      BY DEF OwnMilvus, Started, DeployReplicas, Zeros
    <3>4. milvus.stoppedAt = "none" => milvus.image = meta
      BY DEF ImagesMatch, Down
    <3>5. ~milvus.orderedImages => DeployImage(w, ready) = milvus.image
      BY DEF DeployImage
    <3>6. QED
      BY <1>4, <3>2, <3>3, <3>4, <3>5 DEF StopSeen
  <2>2. CASE SyncDeploy(w)
    <3> DEFINE pods == IF deploy[w].replicas = 0 THEN {} ELSE {deploy[w].image}
    <3>1. /\ deploy'[w].replicas = deploy[w].replicas /\ deploy'[w].image = deploy[w].image
          /\ deploy'[w].pods = pods
      BY <1>1, <2>2 DEF SyncDeploy, DeploymentObject
    <3>2. ~milvus.orderedImages => pods \subseteq {meta}
      BY <1>4
    <3>3. milvus.stoppedAt # "none" => pods = {}
      BY DEF StopSeen
    <3> HIDE DEF pods
    <3>4. QED
      BY <1>4, <3>1, <3>2, <3>3 DEF StopSeen
  <2>3. QED
    BY <2>1, <2>2
<1>6. StopSeen'
  BY <1>1, <1>3, <1>5 DEF StopSeen
<1>7. ImagesMatch'
  BY <1>1, <1>3, <1>5 DEF ImagesMatch, Down
<1>8. QED
  BY <1>2, <1>6, <1>7

\* The alpha controller writes nothing, and the marked stop grows old.
LEMMA OutcomeOther ==
  ASSUME Undisturbed, TypeOK, OutcomeInv, ConvertAlpha \/ Deregister \/ RequestRollback
  PROVE  OutcomeInv'
<1> USE DEF OutcomeInv
<1>1. milvus \in MilvusObject /\ alpha \in AlphaObject
  BY DEF TypeOK
<1>2. CASE ConvertAlpha
  <2>1. /\ UNCHANGED <<operation, status, pc, mem, fresh, mread, deploy, task, cache, meta, backup, wanted>>
        /\ HasAlpha
    BY <1>2 DEF ConvertAlpha, upgradeVars, taskVars, budgetVars
  <2>2. CASE alpha.mark = "none"
    <3>1. milvus' = [milvus EXCEPT !.image = alpha.image, !.replicas = alpha.replicas,
                                   !.upgradeStopping = FALSE, !.stoppedAt = "none"] /\ milvus' # milvus
      BY <1>2, <2>2 DEF ConvertAlpha
    <3>2. /\ milvus.image = alpha.image /\ milvus.replicas = alpha.replicas
          /\ milvus.upgradeStopping = FALSE /\ milvus.stoppedAt = "none"
      BY <1>1, <2>1, <2>2 DEF OwnMilvus, Started, MilvusObject
    <3>3. milvus = [milvus EXCEPT !.image = alpha.image, !.replicas = alpha.replicas,
                                  !.upgradeStopping = FALSE, !.stoppedAt = "none"]
      BY <1>1, <3>2 DEF MilvusObject
    <3>4. QED
      BY <3>1, <3>3
  <2>3. CASE /\ alpha.mark = "upgraded" /\ UNCHANGED milvus
             /\ alpha' = [mark |-> "none", image |-> milvus.image, replicas |-> milvus.replicas]
    <3>1. OwnMilvus'
      BY <2>1, <2>3 DEF OwnMilvus, Started, Zeros
    <3>2. QED
      <4>1. RecordFirst' /\ Ends'
        BY SMT, <2>1, <2>3 DEF RecordFirst, Ends, Started, Zeros, Down, Recorded, Unrecorded
      <4>2. RestKept' /\ DownWhile' /\ RestoreLast' /\ MetaKnown'
        BY SMT, <2>1, <2>3 DEF RestKept, DownWhile, RestoreLast, MetaKnown, Down
      <4>3. StopSeen' /\ ImagesMatch'
        BY SMT, <2>1, <2>3 DEF StopSeen, ImagesMatch, Started, Zeros, Down
      <4>4. QED
        BY <3>1, <4>1, <4>2, <4>3
  <2>4. QED
    BY <1>2, <2>2, <2>3 DEF ConvertAlpha
<1>3. CASE Deregister
  <2>1. /\ UNCHANGED <<operation, status, pc, mem, fresh, alpha, deploy, task, cache, meta, backup, wanted>>
        /\ milvus.stoppedAt = "recent" /\ milvus' = Aged(milvus) /\ mread' = Aged(mread)
    BY <1>3 DEF Deregister, upgradeVars, taskVars, budgetVars
  <2>2. /\ milvus'.stoppedAt = "past" /\ milvus'.replicas = milvus.replicas /\ milvus'.image = milvus.image
        /\ milvus'.upgradeStopping = milvus.upgradeStopping
        /\ milvus'.orderedImages = milvus.orderedImages
    BY <1>1, <2>1 DEF Aged, MilvusObject
  <2>3. milvus.upgradeStopping /\ ~Down /\ Down' /\ ~Started("old")
    BY <2>1, <2>2 DEF OwnMilvus, Started, Down
  <2>4. OwnMilvus'
    BY <2>1, <2>2, <2>3 DEF OwnMilvus, Started, Zeros
  <2>5. RecordFirst'
    BY SMTT(60), <2>1, <2>3 DEF RecordFirst, Zeros, Recorded
  <2>6. StopSeen' /\ ImagesMatch'
    BY <2>1, <2>2, <2>3 DEF StopSeen, ImagesMatch
  <2>7. RestKept' /\ DownWhile' /\ RestoreLast' /\ MetaKnown'
    BY <2>1, <2>3 DEF RestKept, DownWhile, RestoreLast, MetaKnown
  <2>8. Ends'
    BY <2>1, <2>2 DEF Ends
  <2>9. QED
    BY <2>4, <2>5, <2>6, <2>7, <2>8
<1>4. CASE RequestRollback
  <2>1. /\ UNCHANGED <<status, pc, mem, milvus, mread, alpha, deploy, task, cache, meta, backup, wanted>>
        /\ operation = "upgrade" /\ operation' = "rollback" /\ ~fresh' /\ status.state \in RestStates
    BY <1>4 DEF RequestRollback, milvusVars, taskVars, budgetVars, Undisturbed, RollbackAtRest
  <2>2. OwnMilvus' /\ StopSeen' /\ ImagesMatch'
    BY <2>1 DEF OwnMilvus, StopSeen, ImagesMatch, Started, Zeros, Down
  <2>3. RecordFirst'
    BY ZenonT(60), <2>1 DEF RecordFirst, Started, Zeros, Recorded, Unrecorded
  <2>4. RestKept' /\ DownWhile' /\ RestoreLast' /\ MetaKnown' /\ Ends'
    BY SMT, <2>1 DEF RestKept, DownWhile, RestoreLast, MetaKnown, Ends, Down
  <2>5. QED
    BY <2>2, <2>3, <2>4
<1>5. QED
  BY <1>2, <1>3, <1>4

LEMMA OutcomeStep ==
  ASSUME Undisturbed, TypeOK, MetaInv, TurnInv, OutcomeInv, [Next]_vars
  PROVE  OutcomeInv'
<1>1. ~Fault
  BY NoFault DEF Undisturbed
<1>2. \A w \in Workloads, n \in ReplicaChoices : ~Rescale(w, n)
  BY SMT DEF Rescale, Undisturbed, TypeOK
<1>3. CASE UNCHANGED <<operation, status, pc, mem, fresh, milvus, mread, alpha, deploy, task, meta, backup, wanted>>
  <2>1. RecordFirst' /\ OwnMilvus' /\ StopSeen' /\ RestKept' /\ DownWhile'
    <3>1. RecordFirst' /\ OwnMilvus'
      BY SMT, <1>3 DEF OutcomeInv, RecordFirst, OwnMilvus, Recorded, Unrecorded, Started, Zeros, Down
    <3>2. StopSeen' /\ RestKept' /\ DownWhile'
      BY SMT, <1>3 DEF OutcomeInv, StopSeen, RestKept, DownWhile, Started, Zeros, Down
    <3>3. QED
      BY <3>1, <3>2
  <2>2. RestoreLast' /\ MetaKnown' /\ ImagesMatch' /\ Ends'
    BY <1>3 DEF OutcomeInv, RestoreLast, MetaKnown, ImagesMatch, Ends, Down
  <2>3. QED
    BY <2>1, <2>2 DEF OutcomeInv
<1>4. CASE SyncUpgrade \/ SyncMilvus \/ UNCHANGED vars
  BY <1>3, <1>4 DEF SyncUpgrade, SyncMilvus, upgradeVars, milvusVars, taskVars, budgetVars, vars
<1>5. ASSUME NEW kind \in TaskKinds, SyncCache(kind) PROVE OutcomeInv'
  BY <1>3, <1>5 DEF SyncCache, upgradeVars, milvusVars, budgetVars
<1>6. CASE Cluster
  BY <1>4, <1>5, <1>6, OutcomeTask, OutcomeDeploy, OutcomeOther DEF Cluster
<1>7. CASE User
  BY <1>2, <1>7, OutcomeOther DEF User
<1>8. CASE Reconcile
  BY <1>8, OutcomeRead, OutcomeSave, OutcomeLoop DEF Reconcile, StateFunction
<1>9. QED
  BY <1>1, <1>4, <1>6, <1>7, <1>8 DEF Next, StartReconcileNoMilvus, LoseStatus

LEMMA OutcomeInit ==
  ASSUME Undisturbed, Init
  PROVE  OutcomeInv
<1>1. /\ status.state = Pending /\ ~status.metaBackuped /\ ~status.isRollbacking /\ mem = status
      /\ status.replicasBeforeUpgrade = NoRecord /\ status.groupReplicasBeforeUpgrade = NoRecord
      /\ status.sourceImage = NoImage /\ operation = "upgrade" /\ pc = "idle" /\ fresh
      /\ task = [k \in TaskKinds |-> "absent"] /\ cache = task /\ meta = "old"
  BY DEF Init
<1>2. /\ wanted \in Replicas /\ wanted # Zeros /\ mread = milvus
      /\ milvus.image = "old" /\ milvus.replicas = wanted /\ ~milvus.upgradeStopping /\ milvus.stoppedAt = "none"
      /\ alpha.mark = "none" /\ alpha.image = "old" /\ alpha.replicas = wanted
  <2>1. PICK ordered \in OrderedImages :
          milvus = [image |-> "old", replicas |-> wanted, orderedImages |-> ordered,
                    upgradeStopping |-> FALSE, stoppedAt |-> "none"]
    BY DEF Init
  <2>2. QED
    BY <2>1, UpgradeAssumption DEF Init, Undisturbed
<1>3. \A w \in Workloads : deploy[w].pods \subseteq {"old"} /\ deploy[w].image = "old"
  BY DEF Init
<1>4. RecordFirst /\ OwnMilvus /\ StopSeen
  BY <1>1, <1>2 DEF RecordFirst, OwnMilvus, StopSeen, Started, Unrecorded
<1>5. RestKept /\ DownWhile /\ RestoreLast /\ MetaKnown /\ ImagesMatch /\ Ends
  BY <1>1, <1>2, <1>3, StateKinds
     DEF RestKept, DownWhile, RestoreLast, MetaKnown, ImagesMatch, Ends, DownStates, TaskKinds
<1>6. QED
  BY <1>4, <1>5 DEF OutcomeInv

\* The invariant of an undisturbed upgrade.
LEMMA OutcomeAlways ==
  ASSUME Undisturbed
  PROVE  Spec => [](TypeOK /\ TurnInv /\ OutcomeInv)
<1>1. ~LagUpgrade /\ RollbackAtRest
  BY DEF Undisturbed
<1>2. Init => MetaInv /\ TurnInv /\ OutcomeInv
  BY MetaInit, TurnInit, OutcomeInit
<1>3. TypeOK /\ MetaInv /\ TurnInv /\ OutcomeInv /\ [Next]_vars => MetaInv' /\ TurnInv' /\ OutcomeInv'
  BY <1>1, MetaStep, TurnStep, OutcomeStep
<1>4. QED
  BY <1>2, <1>3, TypeCorrect, PTL DEF Spec

\* A task works on the metadata only while no Deployment has a pod, and a minute
\* after all were found without one: it is only started after isMilvusStopped,
\* and Milvus only after it has ended.
THEOREM MetaIsQuiet ==
  ASSUME Undisturbed
  PROVE  Spec => []QuietMeta
<1>1. OutcomeInv => QuietMeta
  BY DEF OutcomeInv, DownWhile, DownStates, StopSeen, Down, QuietMeta, TaskKinds
<1>2. QED
  BY <1>1, OutcomeAlways, PTL

\* While pods run, the metadata is of the version that is asked for: the new one
\* after the migration (StartingMilvusNewVersion), the old one before it and after
\* the restoration (RollbackOldVersionStarting).
THEOREM VersionAlwaysMatches ==
  ASSUME Undisturbed
  PROVE  Spec => []VersionMatchesMeta
<1>1. TypeOK /\ OutcomeInv => VersionMatchesMeta
  <2> SUFFICES ASSUME TypeOK, OutcomeInv, NEW w \in Workloads, deploy[w].pods # {}
               PROVE  milvus.image = meta /\ (~milvus.orderedImages => deploy[w].pods = {meta})
    BY DEF VersionMatchesMeta
  <2>1. milvus.image = meta
    BY DEF OutcomeInv, StopSeen, ImagesMatch, Down
  <2>2. ~milvus.orderedImages => deploy[w].pods \subseteq {meta}
    BY DEF OutcomeInv, ImagesMatch
  <2>3. QED
    BY <2>1, <2>2
<1>2. QED
  BY <1>1, OutcomeAlways, PTL

\* A finished upgrade and a finished rollback leave the replicas the user asked
\* for, in and outside of deployment groups (startMilvus).
THEOREM ReplicasAreRestored ==
  ASSUME Undisturbed
  PROVE  Spec => []ReplicasRestored
<1>1. TypeOK /\ TurnInv /\ OutcomeInv => ReplicasRestored
  <2> SUFFICES ASSUME TypeOK, TurnInv, OutcomeInv,
                      (status.state = Succeeded /\ operation = "upgrade") \/ status.state = RollbackSucceeded
               PROVE  milvus.replicas = wanted
    BY DEF ReplicasRestored
  <2>1. ~milvus.upgradeStopping
    BY DEF OutcomeInv, Ends, RestKept, RestStates, TurnInv, AskedAtRest
  <2>2. QED
    BY <2>1 DEF OutcomeInv, OwnMilvus, Started
<1>2. QED
  BY <1>1, OutcomeAlways, PTL

\* A successful rollback leaves the old metadata and the old image.
THEOREM RollbackAlwaysRestores ==
  ASSUME Undisturbed
  PROVE  Spec => []RollbackRestores
<1>1. OutcomeInv => RollbackRestores
  <2> SUFFICES ASSUME OutcomeInv, status.state = RollbackSucceeded
               PROVE  meta = "old" /\ milvus.image = "old"
    BY DEF RollbackRestores
  <2>1. meta = "old" /\ ~milvus.upgradeStopping
    BY DEF OutcomeInv, Ends, MetaKnown
  <2>2. QED
    BY <2>1 DEF OutcomeInv, OwnMilvus, Started, ImagesMatch, Down
<1>2. QED
  BY <1>1, OutcomeAlways, PTL
=============================================================================
