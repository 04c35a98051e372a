---------------------------- MODULE MilvusUpgrade ----------------------------
(***************************************************************************)
(* The MilvusUpgrade controller: the state machine that stops a Milvus     *)
(* instance, backs up its metadata, migrates it, starts the new version    *)
(* and, on failure or on request, rolls all of it back                     *)
(* (pkg/controllers/milvusupgrade_fsm.go, milvusupgrade_controller.go).    *)
(*                                                                         *)
(* A reconcile reads the MilvusUpgrade and the Milvus objects, runs state  *)
(* functions on these in-memory copies until one of them returns, and then *)
(* writes the status back.  Every API write of a state function is visible *)
(* at once; what the reconcile learnt is only visible once the status is   *)
(* saved.  Around it run the user, the Milvus controller that scales the   *)
(* Deployments, the cluster that starts and stops pods, the task pods that *)
(* work on the metadata, and the controller that converts an alpha         *)
(* MilvusCluster object into the Milvus object.                            *)
(***************************************************************************)
EXTENDS Integers, FiniteSets

CONSTANTS
  Workloads,        \* component workloads of the Milvus instance
  Grouped,          \* the workloads that belong to a deployment group
  HPA,              \* the workloads with an HPA in the spec
  ReplicaChoices,   \* replica numbers a user may ask for; -1: external HPA
  InitialReplicas,  \* the replicas of the Milvus instance before the upgrade
  OrderedImages,    \* whether images are updated in order: rolling update is on
                    \* with the mode rollingUpgrade or rollingDowngrade
  MaxRetry,         \* spec.maxRetry
  RollbackIfFailed, \* values spec.rollbackIfFailed may have; users may edit it
  RollbackFrom,     \* persisted states in which the user may ask for a rollback
  HasAlpha,         \* the Milvus object is owned by an alpha MilvusCluster
  LagUpgrade,       \* a reconcile may read an outdated MilvusUpgrade
  LagMilvus,        \* a reconcile may read an outdated Milvus
  MaxFaults,        \* bound on failed API calls and operator crashes
  MaxRescales,      \* bound on replica changes made by the user
  NoRecord          \* a snapshot of the replicas that was never taken

Pending                    == "Pending"
OldVersionStoppingState    == "OldVersionStopping"
BackupMetaState            == "BackupMeta"
UpdatingMetaState          == "UpdatingMeta"
NewVersionStartingState    == "NewVersionStarting"
Succeeded                  == "Succeeded"
BakupMetaFailed            == "BakupMetaFailed"
UpdateMetaFailed           == "UpdateMetaFailed"
RollbackNewVersionStoppingState == "RollbackNewVersionStopping"
RollbackRestoringOldMetaState   == "RollbackRestoringOldMeta"
RollbackOldVersionStartingState == "RollbackOldVersionStarting"
RollbackSucceeded          == "RollbackedSucceeded"
RollbackFailed             == "RollbackFailed"

\* The states from which a rollback request is taken up.
NotRollbackStates ==
  {Pending, OldVersionStoppingState, BackupMetaState, UpdatingMetaState,
   NewVersionStartingState, Succeeded, BakupMetaFailed, UpdateMetaFailed}

States == NotRollbackStates \cup
  {RollbackNewVersionStoppingState, RollbackRestoringOldMetaState,
   RollbackOldVersionStartingState, RollbackSucceeded, RollbackFailed}

\* The states whose state function is nil: the loop ends there.
FinalStates == {Succeeded, RollbackSucceeded, RollbackFailed}

\* The states that are not requeued by a timer.
NoRequeueStates == FinalStates \cup {BakupMetaFailed, UpdateMetaFailed}

Backup   == "backup-meta"
Update   == "update-meta"
Rollback == "rollback-meta"
TaskKinds == {Backup, Update, Rollback}

TaskPhases == {"absent", "running", "succeeded", "failed"}

\* The image of an upgrade that never recorded one is empty; the webhook
\* replaces it by the operator's default image.
NoImage == "unset"
Images  == {"old", "new", "default"}

Replicas == [Workloads -> ReplicaChoices \cup {0}]
Zeros    == [w \in Workloads |-> 0]

ASSUME UpgradeAssumption ==
  /\ Grouped \subseteq Workloads
  /\ HPA \subseteq Workloads
  /\ ReplicaChoices \subseteq Int
  /\ InitialReplicas \subseteq Replicas
  /\ NoRecord \notin [Workloads -> Int]
  /\ OrderedImages \subseteq BOOLEAN
  /\ MaxRetry \in Nat
  /\ RollbackIfFailed \subseteq BOOLEAN /\ RollbackIfFailed # {}
  /\ RollbackFrom \subseteq States
  /\ HasAlpha \in BOOLEAN
  /\ LagUpgrade \in BOOLEAN
  /\ LagMilvus \in BOOLEAN
  /\ MaxFaults \in Nat
  /\ MaxRescales \in Nat

VARIABLES
  operation,    \* spec.operation of the MilvusUpgrade
  status,       \* its persisted status
  pc,           \* where the reconcile in flight is
  mem,          \* its in-memory copy of the status
  fresh,        \* no one wrote the MilvusUpgrade since it was read
  milvus,       \* the Milvus object
  mread,        \* the in-memory copy of it of the reconcile in flight
  alpha,        \* the alpha MilvusCluster object
  deploy,       \* the Deployment of each workload, and its pods
  task,         \* the pod of each metadata task
  cache,        \* the informer's view of these pods
  seen,         \* the informer's view of the MilvusUpgrade
  mseen,        \* the informer's view of the Milvus
  meta,         \* version of the metadata in etcd
  backup,       \* version of the metadata in the backup volume
  faults, rescales, \* faults and user edits so far
  wanted        \* the replicas the user last asked for (history)

vars == <<operation, status, pc, mem, fresh, seen, milvus, mread, mseen, alpha,
          deploy, task, cache, meta, backup, faults, rescales, wanted>>

upgradeVars == <<operation, status, pc, mem, fresh, seen>>
milvusVars  == <<milvus, mread, mseen, alpha>>
taskVars    == <<task, cache, meta, backup>>
budgetVars  == <<faults, rescales, wanted>>

MetaVersions == {"old", "new", "mixed"}

MilvusUpgradeStatus ==
  [state: States, isRollbacking: BOOLEAN,
   replicasBeforeUpgrade: Replicas \cup {NoRecord},
   groupReplicasBeforeUpgrade: Replicas \cup {NoRecord},
   sourceImage: Images \cup {NoImage}, metaStorageChanged: BOOLEAN,
   metaBackuped: BOOLEAN, backupPVC: BOOLEAN, retriedTimes: 0..MaxRetry]

\* The stopped-at annotation: absent, or a time less or more than a minute ago.
StopTimes == {"none", "recent", "past"}

MilvusObject == [image: Images, replicas: Replicas, orderedImages: BOOLEAN,
                 upgradeStopping: BOOLEAN, stoppedAt: StopTimes]

AlphaObject == [mark: {"none", "upgrading", "upgraded"}, image: Images,
                replicas: Replicas]

DeploymentObject == [replicas: Int, image: Images, observed: BOOLEAN,
                     pods: SUBSET Images]

TypeOK ==
  /\ operation \in {"upgrade", "rollback"}
  /\ status \in MilvusUpgradeStatus
  /\ pc \in {"idle", "run", "save"}
  /\ mem \in MilvusUpgradeStatus
  /\ fresh \in BOOLEAN
  /\ seen \in [operation: {"upgrade", "rollback"}, status: MilvusUpgradeStatus]
  /\ milvus \in MilvusObject
  /\ mread \in MilvusObject
  /\ mseen \in MilvusObject
  /\ alpha \in AlphaObject
  /\ deploy \in [Workloads -> DeploymentObject]
  /\ task \in [TaskKinds -> TaskPhases]
  /\ cache \in [TaskKinds -> TaskPhases]
  /\ meta \in MetaVersions
  /\ backup \in MetaVersions \cup {"none"}
  /\ faults \in 0..MaxFaults
  /\ rescales \in 0..MaxRescales
  /\ wanted \in Replicas

\* A running Milvus of the old version, and an upgrade that was just created.
Init ==
  /\ operation = "upgrade"
  /\ status = [state |-> Pending, isRollbacking |-> FALSE,
               replicasBeforeUpgrade |-> NoRecord,
               groupReplicasBeforeUpgrade |-> NoRecord,
               sourceImage |-> NoImage, metaStorageChanged |-> FALSE,
               metaBackuped |-> FALSE, backupPVC |-> FALSE, retriedTimes |-> 0]
  /\ pc = "idle"
  /\ mem = status
  /\ fresh = TRUE
  /\ seen = [operation |-> operation, status |-> status]
  /\ wanted \in InitialReplicas
  /\ \E ordered \in OrderedImages :
       milvus = [image |-> "old", replicas |-> wanted, orderedImages |-> ordered,
                 upgradeStopping |-> FALSE, stoppedAt |-> "none"]
  /\ mread = milvus
  /\ mseen = milvus
  /\ alpha = [mark |-> "none", image |-> "old", replicas |-> wanted]
  /\ deploy = [w \in Workloads |->
                 LET r == IF w \in HPA \/ wanted[w] < 0 THEN 1 ELSE wanted[w]
                 IN  [replicas |-> r, image |-> "old", observed |-> TRUE,
                      pods |-> IF r = 0 THEN {} ELSE {"old"}]]
  /\ task = [k \in TaskKinds |-> "absent"]
  /\ cache = task
  /\ meta = "old"
  /\ backup = "none"
  /\ faults = 0
  /\ rescales = 0

-----------------------------------------------------------------------------
(* The reconcile: reads and the state machine's loop.                       *)

\* Mutant: a finished upgrade is missing among the states to roll back from.
MutantDetermineCurrentState(s, op) ==
  IF s.isRollbacking \/ op = "rollback"
  THEN IF s.state \in NotRollbackStates \ {Succeeded}
       THEN [s EXCEPT !.isRollbacking = TRUE,
                      !.state = RollbackNewVersionStoppingState]
       ELSE s
  ELSE IF s.state = Pending
       THEN [s EXCEPT !.state = OldVersionStoppingState]
       ELSE s

\* DetermineCurrentState: a rollback request redirects every state that is not
\* already part of a rollback.
DetermineCurrentState(s, op) ==
  IF s.isRollbacking \/ op = "rollback"
  THEN IF s.state \in NotRollbackStates
       THEN [s EXCEPT !.isRollbacking = TRUE,
                      !.state = RollbackNewVersionStoppingState]
       ELSE s
  ELSE IF s.state = Pending
       THEN [s EXCEPT !.state = OldVersionStoppingState]
       ELSE s

Fault == faults < MaxFaults /\ faults' = faults + 1

Latest == [operation |-> operation, status |-> status]

ReadUpgrade ==
  /\ pc = "idle"
  /\ LagUpgrade \/ seen = Latest
  /\ mem' = DetermineCurrentState(seen.status, seen.operation)
  /\ fresh' = (seen = Latest)

\* Reconcile reads the upgrade, decides the state to run and reads the Milvus.
StartReconcile ==
  /\ ReadUpgrade
  /\ LagMilvus \/ mseen = milvus
  /\ pc' = "run"
  /\ mread' = mseen
  /\ UNCHANGED <<operation, status, seen, milvus, mseen, alpha, deploy,
                 taskVars, budgetVars>>

\* The same, when the Milvus cannot be read: the status is saved all the same.
StartReconcileNoMilvus ==
  /\ ReadUpgrade
  /\ Fault
  /\ pc' = "save"
  /\ UNCHANGED <<operation, status, seen, milvusVars, deploy, taskVars, rescales, wanted>>

\* A state function returns with the next state: the loop goes on in it.
Continue(m, next) == mem' = [m EXCEPT !.state = next] /\ pc' = "run"

\* A state function returns "" or an error: the loop ends and the status is
\* saved with the state it had.
Return(m) == mem' = m /\ pc' = "save"

Running(state) == pc = "run" /\ mem.state = state
InLoop == UNCHANGED <<operation, status, fresh, seen>>

\* A state without a state function ends the loop.
NilStateFunc ==
  /\ pc = "run"
  /\ mem.state \in FinalStates
  /\ Return(mem)
  /\ InLoop
  /\ UNCHANGED <<milvusVars, deploy, taskVars, budgetVars>>

\* Status().Update: it needs the version that was read to be the latest one.
SaveStatus ==
  /\ pc = "save"
  /\ status' = IF fresh THEN mem ELSE status
  /\ pc' = "idle"
  /\ mem' = status'
  /\ UNCHANGED <<operation, fresh, seen, milvusVars, deploy, taskVars, budgetVars>>

\* The operator crashes, or the status update fails: what the reconcile kept
\* in memory is lost, what it wrote to the other objects stays.
LoseStatus ==
  /\ pc # "idle"
  /\ Fault
  /\ pc' = "idle"
  /\ mem' = status
  /\ UNCHANGED <<operation, status, fresh, seen, milvusVars, deploy, taskVars,
                 rescales, wanted>>

-----------------------------------------------------------------------------
(* Stopping Milvus.                                                         *)

\* Mutant: the replicas are recorded again on every attempt to stop.
MutantRecordOldInfo(m) ==
  [m EXCEPT
    !.replicasBeforeUpgrade =
      [w \in Workloads |-> IF w \in Grouped THEN 0 ELSE mread.replicas[w]],
    !.groupReplicasBeforeUpgrade =
      IF Grouped # {}
      THEN [w \in Workloads |-> IF w \in Grouped THEN mread.replicas[w] ELSE 0]
      ELSE @,
    !.sourceImage = IF @ = NoImage THEN mread.image ELSE @]

\* recordOldInfo: the replicas and the image before the upgrade, taken once.
RecordOldInfo(m) ==
  [m EXCEPT
    !.replicasBeforeUpgrade =
      IF @ = NoRecord
      THEN [w \in Workloads |-> IF w \in Grouped THEN 0 ELSE mread.replicas[w]]
      ELSE @,
    !.groupReplicasBeforeUpgrade =
      IF @ = NoRecord /\ Grouped # {}
      THEN [w \in Workloads |-> IF w \in Grouped THEN mread.replicas[w] ELSE 0]
      ELSE @,
    !.sourceImage = IF @ = NoImage THEN mread.image ELSE @]

IsMilvusStopping ==
  /\ mread.upgradeStopping \/ HPA = {}
  /\ mread.replicas = Zeros

AnnotateAlphaCR(value) ==
  alpha' = IF HasAlpha THEN [alpha EXCEPT !.mark = value] ELSE alpha

\* An update of the Milvus object succeeds when the copy that was changed is
\* of the latest version; the webhook fills in an empty image.
UpdateMilvus(m) ==
  /\ mread = milvus
  /\ milvus' = IF m.image = NoImage THEN [m EXCEPT !.image = "default"] ELSE m
  /\ mread' = milvus'
  /\ UNCHANGED mseen

\* The update fails: on a conflict with another writer, or by a fault.
UpdateMilvusFails ==
  /\ \/ mread # milvus /\ UNCHANGED faults
     \/ Fault
  /\ UNCHANGED <<milvus, mread, mseen, rescales, wanted>>

StoppedMilvus == [mread EXCEPT !.replicas = Zeros, !.upgradeStopping = TRUE]

\* stopMilvus refuses an externally scaled workload, marks the alpha object
\* and then scales everything to zero.
StopMilvus ==
  \/ /\ \E w \in Workloads : mread.replicas[w] = -1
     /\ UNCHANGED <<milvusVars, budgetVars>>
  \/ /\ \A w \in Workloads : mread.replicas[w] # -1
     /\ \/ HasAlpha /\ Fault /\ UNCHANGED <<milvusVars, rescales, wanted>>
        \/ AnnotateAlphaCR("upgrading") /\ UpdateMilvusFails
        \/ /\ AnnotateAlphaCR("upgrading")
           /\ UpdateMilvus(StoppedMilvus)
           /\ UNCHANGED budgetVars

DeploymentsStopped ==
  \A w \in Workloads : /\ deploy[w].observed
                       /\ deploy[w].replicas = 0
                       /\ deploy[w].pods = {}

\* Mutant: the minute after the stop is not waited for.
MutantIsMilvusStopped == mread.stoppedAt # "none"

\* isMilvusStopped marks the time at which it finds every Deployment down,
\* and reports a stop a minute after that.
IsMilvusStopped == mread.stoppedAt = "past"

WaitForStop ==
  /\ ~IsMilvusStopped
  /\ IF mread.stoppedAt # "none" \/ ~DeploymentsStopped
     THEN UNCHANGED <<milvusVars, budgetVars>>
     ELSE /\ \/ UpdateMilvusFails
             \/ /\ UpdateMilvus([mread EXCEPT !.stoppedAt = "recent"])
                /\ UNCHANGED budgetVars
          /\ UNCHANGED alpha

OldVersionStopping ==
  /\ Running(OldVersionStoppingState)
  /\ \/ ~IsMilvusStopping /\ Return(RecordOldInfo(mem)) /\ StopMilvus
     \/ IsMilvusStopping /\ Return(mem) /\ WaitForStop
     \/ /\ IsMilvusStopping /\ IsMilvusStopped
        /\ Continue(mem, BackupMetaState)
        /\ UNCHANGED <<milvusVars, budgetVars>>
  /\ InLoop
  /\ UNCHANGED <<deploy, taskVars>>

RollbackNewVersionStopping ==
  /\ Running(RollbackNewVersionStoppingState)
  /\ \/ ~IsMilvusStopping /\ Return(mem) /\ StopMilvus
     \/ IsMilvusStopping /\ Return(mem) /\ WaitForStop
     \/ /\ IsMilvusStopping /\ IsMilvusStopped
        /\ Continue(mem, RollbackRestoringOldMetaState)
        /\ UNCHANGED <<milvusVars, budgetVars>>
  /\ InLoop
  /\ UNCHANGED <<deploy, taskVars>>

-----------------------------------------------------------------------------
(* The metadata tasks.                                                      *)

\* startTaskPod creates the pod unless the informer shows one; creating a pod
\* that exists is an error, like any failed call on the way to it.  A pod is
\* also refused if the volume claim to mount is not known.
StartTaskPod(kind, m) ==
  \/ /\ cache[kind] # "absent" \/ task[kind] # "absent" \/ ~m.backupPVC
     /\ UNCHANGED <<task, faults>>
  \/ /\ cache[kind] = "absent" /\ task[kind] = "absent" /\ m.backupPVC
     /\ task' = [task EXCEPT ![kind] = "running"]
     /\ UNCHANGED faults
  \/ Fault /\ UNCHANGED task

\* The name of the volume claim is only kept in the status.
StartBakupMetaPod ==
  LET m == [mem EXCEPT !.backupPVC = TRUE]
  IN  /\ Return(m)
      /\ StartTaskPod(Backup, m)
      /\ UNCHANGED <<cache, meta, backup>>

StartUpdateMetaPod ==
  /\ Return([mem EXCEPT !.metaStorageChanged = TRUE])
  /\ StartTaskPod(Update, mem)
  /\ UNCHANGED <<cache, meta, backup>>

StartRollbackMetaPod ==
  /\ Return(mem)
  /\ StartTaskPod(Rollback, mem)
  /\ UNCHANGED <<cache, meta, backup>>

TaskFrame == InLoop /\ UNCHANGED <<milvusVars, deploy, rescales, wanted>>

\* Handlers of a task's phase; a pending or running pod is left alone, as is
\* everything when the pods cannot be listed.
KeepWaiting(kind) ==
  /\ Return(mem)
  /\ \/ cache[kind] = "running" /\ UNCHANGED faults
     \/ Fault
  /\ UNCHANGED taskVars

\* Mutant: a backup still at work is taken for a finished one.
MutantBackupMeta ==
  /\ Running(BackupMetaState)
  /\ \/ cache[Backup] = "absent" /\ StartBakupMetaPod
     \/ /\ cache[Backup] \in {"running", "succeeded"}
        /\ Continue([mem EXCEPT !.metaBackuped = TRUE], UpdatingMetaState)
        /\ UNCHANGED <<taskVars, faults>>
     \/ /\ cache[Backup] = "failed"
        /\ Continue(mem, BakupMetaFailed)
        /\ UNCHANGED <<taskVars, faults>>
  /\ TaskFrame

BackupMeta ==
  /\ Running(BackupMetaState)
  /\ \/ KeepWaiting(Backup)
     \/ cache[Backup] = "absent" /\ StartBakupMetaPod
     \/ /\ cache[Backup] = "succeeded"
        /\ Continue([mem EXCEPT !.metaBackuped = TRUE], UpdatingMetaState)
        /\ UNCHANGED <<taskVars, faults>>
     \/ /\ cache[Backup] = "failed"
        /\ Continue(mem, BakupMetaFailed)
        /\ UNCHANGED <<taskVars, faults>>
  /\ TaskFrame

\* HandleUpgradeFailed: roll back if the spec asks for it.
UpgradeFailed(m) ==
  \/ /\ TRUE \in RollbackIfFailed
     /\ Continue([m EXCEPT !.isRollbacking = TRUE], RollbackNewVersionStoppingState)
  \/ FALSE \in RollbackIfFailed /\ Return(m)

\* A failed backup is retried with a new pod until the retries are used up.
\* Deleting the pod of a task at work leaves an incomplete backup.
HandleBakupMetaFailed ==
  /\ Running(BakupMetaFailed)
  /\ IF mem.retriedTimes + 1 > MaxRetry
     THEN UpgradeFailed(mem) /\ UNCHANGED <<task, backup, faults>>
     ELSE \/ /\ task' = [task EXCEPT ![Backup] = "absent"]
             /\ backup' = IF task[Backup] = "running" THEN "mixed" ELSE backup
             /\ Return([mem EXCEPT !.state = BackupMetaState,
                                   !.retriedTimes = @ + 1])
             /\ UNCHANGED faults
          \/ Fault /\ Return(mem) /\ UNCHANGED <<task, backup>>
  /\ UNCHANGED <<cache, meta>>
  /\ TaskFrame

\* What UpdatingMeta does once the flag is set, by the phase of its pod.
UpdateTaskEnded(phases, next) ==
  /\ cache[Update] \in phases
  /\ Continue(mem, next)
  /\ UNCHANGED <<taskVars, faults>>

UpdateTaskStarted == ~mem.metaStorageChanged /\ StartUpdateMetaPod

UpdateTaskMissing ==
  /\ cache[Update] = "absent"
  /\ Return(mem)
  /\ UNCHANGED <<taskVars, faults>>

\* Mutant: a pod that is not seen yet is a failed one.
MutantMissingFails ==
  /\ Running(UpdatingMetaState)
  /\ \/ UpdateTaskStarted
     \/ /\ mem.metaStorageChanged
        /\ \/ KeepWaiting(Update)
           \/ UpdateTaskEnded({"succeeded"}, NewVersionStartingState)
           \/ UpdateTaskEnded({"absent", "failed"}, UpdateMetaFailed)
  /\ TaskFrame

\* Mutant: a migration still at work is taken for a finished one.
MutantRunningSucceeds ==
  /\ Running(UpdatingMetaState)
  /\ \/ UpdateTaskStarted
     \/ /\ mem.metaStorageChanged
        /\ \/ UpdateTaskMissing
           \/ UpdateTaskEnded({"running", "succeeded"}, NewVersionStartingState)
           \/ UpdateTaskEnded({"failed"}, UpdateMetaFailed)
  /\ TaskFrame

\* The flag that the metadata changes is set before the pod is created, and
\* a missing pod is an error from then on: the state it returns is dropped.
UpdatingMeta ==
  /\ Running(UpdatingMetaState)
  /\ \/ UpdateTaskStarted
     \/ /\ mem.metaStorageChanged
        /\ \/ KeepWaiting(Update)
           \/ UpdateTaskMissing
           \/ UpdateTaskEnded({"succeeded"}, NewVersionStartingState)
           \/ UpdateTaskEnded({"failed"}, UpdateMetaFailed)
  /\ TaskFrame

HandleUpgradeFailed ==
  /\ Running(UpdateMetaFailed)
  /\ UpgradeFailed(mem)
  /\ UNCHANGED <<taskVars, faults>>
  /\ TaskFrame

RollbackTaskEnded(phases, next) ==
  /\ cache[Rollback] \in phases
  /\ Continue(mem, next)
  /\ UNCHANGED <<taskVars, faults>>

RollbackTaskStarted == cache[Rollback] = "absent" /\ StartRollbackMetaPod

\* Without a backup there is nothing to restore.
SkipRestore ==
  /\ ~mem.metaBackuped
  /\ Continue(mem, RollbackOldVersionStartingState)
  /\ UNCHANGED <<taskVars, faults>>

\* Mutant: a restoration still at work is taken for a finished one.
MutantRollbackRestoringOldMeta ==
  /\ Running(RollbackRestoringOldMetaState)
  /\ \/ SkipRestore
     \/ /\ mem.metaBackuped
        /\ \/ RollbackTaskStarted
           \/ RollbackTaskEnded({"running", "succeeded"}, RollbackOldVersionStartingState)
           \/ RollbackTaskEnded({"failed"}, RollbackFailed)
  /\ TaskFrame

RollbackRestoringOldMeta ==
  /\ Running(RollbackRestoringOldMetaState)
  /\ \/ SkipRestore
     \/ /\ mem.metaBackuped
        /\ \/ KeepWaiting(Rollback)
           \/ RollbackTaskStarted
           \/ RollbackTaskEnded({"succeeded"}, RollbackOldVersionStartingState)
           \/ RollbackTaskEnded({"failed"}, RollbackFailed)
  /\ TaskFrame

-----------------------------------------------------------------------------
(* Starting Milvus.                                                         *)

\* No recorded replicas count as zero.
AssumeZero(m) ==
  [m EXCEPT !.replicasBeforeUpgrade = IF @ = NoRecord THEN Zeros ELSE @]

\* Mutant: the workloads of deployment groups are left out.
MutantStartedMilvus(m, image) ==
  [mread EXCEPT !.image = image, !.replicas = m.replicasBeforeUpgrade,
                !.upgradeStopping = FALSE, !.stoppedAt = "none"]

StartedMilvus(m, image) ==
  [mread EXCEPT
     !.image = image,
     !.replicas = [w \in Workloads |->
                     IF w \in Grouped THEN m.groupReplicasBeforeUpgrade[w]
                                      ELSE m.replicasBeforeUpgrade[w]],
     !.upgradeStopping = FALSE,
     !.stoppedAt = "none"]

\* startMilvus restores the replicas, then marks the alpha object.  Each of
\* its errors leaves the state as it is, to be run again.
StartMilvus(m, image, next) ==
  \/ /\ Grouped # {} /\ m.groupReplicasBeforeUpgrade = NoRecord
     /\ Return(m)
     /\ UNCHANGED <<milvusVars, budgetVars>>
  \/ /\ Grouped = {} \/ m.groupReplicasBeforeUpgrade # NoRecord
     /\ \/ Return(m) /\ UpdateMilvusFails /\ UNCHANGED alpha
        \/ /\ UpdateMilvus(StartedMilvus(m, image))
           /\ \/ /\ AnnotateAlphaCR("upgraded")
                 /\ Continue(m, next)
                 /\ UNCHANGED budgetVars
              \/ /\ HasAlpha /\ Fault
                 /\ Return(m)
                 /\ UNCHANGED <<alpha, rescales, wanted>>

StartingMilvusNewVersion ==
  /\ Running(NewVersionStartingState)
  /\ StartMilvus(AssumeZero(mem), "new", Succeeded)
  /\ InLoop
  /\ UNCHANGED <<deploy, taskVars>>

RollbackOldVersionStarting ==
  /\ Running(RollbackOldVersionStartingState)
  /\ StartMilvus(AssumeZero(mem), mem.sourceImage, RollbackSucceeded)
  /\ InLoop
  /\ UNCHANGED <<deploy, taskVars>>

Reconcile ==
  \/ StartReconcile \/ NilStateFunc \/ SaveStatus
  \/ OldVersionStopping \/ BackupMeta \/ HandleBakupMetaFailed
  \/ UpdatingMeta \/ HandleUpgradeFailed \/ StartingMilvusNewVersion
  \/ RollbackNewVersionStopping \/ RollbackRestoringOldMeta
  \/ RollbackOldVersionStarting

-----------------------------------------------------------------------------
(* The user.                                                                *)

RequestRollback ==
  /\ operation = "upgrade"
  /\ status.state \in RollbackFrom
  /\ operation' = "rollback"
  /\ fresh' = FALSE
  /\ UNCHANGED <<status, pc, mem, seen, milvusVars, deploy, taskVars, budgetVars>>

\* Until the upgrade stops Milvus, a user may still change its replicas.
Rescale(w, n) ==
  /\ ~HasAlpha
  /\ rescales < MaxRescales
  /\ ~milvus.upgradeStopping
  /\ status.state \in {Pending, OldVersionStoppingState}
  /\ milvus.replicas[w] # n
  /\ milvus' = [milvus EXCEPT !.replicas[w] = n]
  /\ wanted' = milvus'.replicas
  /\ rescales' = rescales + 1
  /\ UNCHANGED <<upgradeVars, mread, mseen, alpha, deploy, taskVars, faults>>

-----------------------------------------------------------------------------
(* The other controllers and the cluster.                                   *)

\* The alpha controller rewrites the Milvus object from the alpha object,
\* except during an upgrade; after one it takes the upgraded object over.
ConvertAlpha ==
  /\ HasAlpha
  /\ \/ /\ alpha.mark = "upgraded"
        /\ alpha' = [mark |-> "none", image |-> milvus.image,
                     replicas |-> milvus.replicas]
        /\ UNCHANGED milvus
     \/ /\ alpha.mark = "none"
        /\ milvus' = [milvus EXCEPT !.image = alpha.image,
                                    !.replicas = alpha.replicas,
                                    !.upgradeStopping = FALSE,
                                    !.stoppedAt = "none"]
        /\ milvus' # milvus
        /\ UNCHANGED alpha
  /\ UNCHANGED <<upgradeVars, mread, mseen, deploy, taskVars, budgetVars>>

\* The replicas the Milvus controller gives a Deployment: those of the spec,
\* unless an autoscaler owns them; then it only lifts a Deployment off zero.
DeployReplicas(w) ==
  IF ~milvus.upgradeStopping /\ (w \in HPA \/ milvus.replicas[w] < 0)
  THEN IF deploy[w].replicas = 0 THEN 1 ELSE deploy[w].replicas
  ELSE milvus.replicas[w]

\* The image it gives a Deployment: that of the spec for one without replicas
\* and where images are not updated in order; otherwise the old one until the
\* status has caught up and the components before it are updated (ready, the
\* answer of RollingUpdateImageDependencyReady; see ComponentOrder).
DeployImage(w, ready) ==
  IF DeployReplicas(w) = 0 \/ ~milvus.orderedImages \/ ready
  THEN milvus.image
  ELSE deploy[w].image

ReconcileDeploy(w) ==
  \E ready \in BOOLEAN :
    /\ deploy' = [deploy EXCEPT ![w].replicas = DeployReplicas(w),
                                ![w].image = DeployImage(w, ready),
                                ![w].observed = FALSE]
    /\ \/ DeployReplicas(w) # deploy[w].replicas
       \/ DeployImage(w, ready) # deploy[w].image
    /\ UNCHANGED <<upgradeVars, milvusVars, taskVars, budgetVars>>

\* The cluster brings the pods of a Deployment to what it asks for.  Pods that
\* were told to stop are not counted any more, however long they take.
SyncDeploy(w) ==
  LET d == deploy[w]
  IN  /\ ~d.observed
      /\ deploy' = [deploy EXCEPT
                      ![w].observed = TRUE,
                      ![w].pods = IF d.replicas = 0 THEN {} ELSE {d.image}]
      /\ UNCHANGED <<upgradeVars, milvusVars, taskVars, budgetVars>>

\* A minute passes after the stopped-at annotation, and that is all that
\* isComponentsDeregistered waits for, whatever the pods told to stop do.
Aged(m) == [m EXCEPT !.stoppedAt = IF @ = "recent" THEN "past" ELSE @]

Deregister ==
  /\ milvus.stoppedAt = "recent"
  /\ milvus' = Aged(milvus)
  /\ mread' = Aged(mread)
  /\ mseen' = Aged(mseen)
  /\ UNCHANGED <<upgradeVars, alpha, deploy, taskVars, budgetVars>>

\* A task pod ends.  A task that fails may have done part of its work.
TaskSucceeds(kind) ==
  /\ task[kind] = "running"
  /\ task' = [task EXCEPT ![kind] = "succeeded"]
  /\ backup' = IF kind = Backup THEN meta ELSE backup
  /\ meta' = CASE kind = Backup -> meta
               [] kind = Update -> "new"
               [] kind = Rollback -> IF backup = "none" THEN "mixed" ELSE backup
  /\ UNCHANGED <<upgradeVars, milvusVars, deploy, cache, budgetVars>>

TaskFails(kind) ==
  /\ task[kind] = "running"
  /\ task' = [task EXCEPT ![kind] = "failed"]
  /\ backup' \in IF kind = Backup THEN {backup, "mixed"} ELSE {backup}
  /\ meta' \in IF kind = Backup THEN {meta} ELSE {meta, "mixed"}
  /\ UNCHANGED <<upgradeVars, milvusVars, deploy, cache, budgetVars>>

\* The informers catch up.
SyncCache(kind) ==
  /\ cache[kind] # task[kind]
  /\ cache' = [cache EXCEPT ![kind] = task[kind]]
  /\ UNCHANGED <<upgradeVars, milvusVars, deploy, task, meta, backup, budgetVars>>

SyncUpgrade ==
  /\ seen # Latest
  /\ seen' = Latest
  /\ UNCHANGED <<operation, status, pc, mem, fresh, milvusVars, deploy, taskVars,
                 budgetVars>>

SyncMilvus ==
  /\ mseen # milvus
  /\ mseen' = milvus
  /\ UNCHANGED <<upgradeVars, milvus, mread, alpha, deploy, taskVars, budgetVars>>

Cluster ==
  \/ ConvertAlpha \/ Deregister \/ SyncUpgrade \/ SyncMilvus
  \/ \E w \in Workloads : ReconcileDeploy(w) \/ SyncDeploy(w)
  \/ \E kind \in TaskKinds : TaskSucceeds(kind) \/ TaskFails(kind) \/ SyncCache(kind)

User == RequestRollback \/ \E w \in Workloads, n \in ReplicaChoices : Rescale(w, n)

Next == Reconcile \/ StartReconcileNoMilvus \/ LoseStatus \/ Cluster \/ User

Spec == Init /\ [][Next]_vars

\* The manager requeues a reconcile that failed or whose state is not final,
\* and a restarted operator reconciles every object; the other controllers are
\* run likewise, informers catch up and task pods end.  The user and faults
\* are under no obligation.
Fairness ==
  /\ WF_vars(Reconcile)
  /\ WF_vars(ConvertAlpha)
  /\ WF_vars(Deregister)
  /\ WF_vars(SyncUpgrade)
  /\ WF_vars(SyncMilvus)
  /\ \A w \in Workloads : /\ WF_vars(ReconcileDeploy(w))
                          /\ WF_vars(SyncDeploy(w))
  /\ \A kind \in TaskKinds : /\ WF_vars(TaskSucceeds(kind) \/ TaskFails(kind))
                             /\ WF_vars(SyncCache(kind))

FairSpec == Spec /\ Fairness

-----------------------------------------------------------------------------
(* Properties.                                                              *)

\* Metadata is only ever changed while the backup volume holds a complete
\* copy of the old metadata: UpdatingMeta runs after a successful BackupMeta
\* (BackupMeta, UpdatingMeta), whatever is retried, lost or seen late.
BackupBeforeChange ==
  task[Update] # "absent" \/ meta # "old" => backup = "old"

\* A task works on the metadata only while no Deployment has a pod, other than
\* pods told to stop, and a minute after all of them were found without one: the
\* tasks are started after OldVersionStopping or RollbackNewVersionStopping saw
\* the stop, and nothing scales a Deployment up before the task has ended.
QuietMeta ==
  (\E k \in TaskKinds : task[k] = "running") =>
     /\ milvus.stoppedAt = "past"
     /\ \A w \in Workloads : deploy[w].pods = {}

\* At most one task works on the metadata at a time: each state function waits
\* for the end of its task's pod before it hands over to the next state.
OneTaskAtATime ==
  \A j, k \in TaskKinds : task[j] = "running" /\ task[k] = "running" => j = k

\* While a Deployment has pods, the metadata is of the version the Milvus object
\* asks for, never half migrated: the new version is started after the migration,
\* the old one after the restoration.  Where images are not updated in order the
\* pods are of that version, too.
VersionMatchesMeta ==
  \A w \in Workloads : deploy[w].pods # {} =>
    /\ milvus.image = meta
    /\ ~milvus.orderedImages => deploy[w].pods = {meta}

\* Where they are, pods of the image before are started first: updateDeployment
\* raises the replicas before RollingUpdateImageDependencyReady lets the image in.
PodsMatchMeta == \A w \in Workloads : deploy[w].pods \subseteq {meta}

\* A finished upgrade or rollback leaves the replicas the user asked for
\* (startMilvus: "restore replicas").
ReplicasRestored ==
  \/ status.state = Succeeded /\ operation = "upgrade"
  \/ status.state = RollbackSucceeded
  => milvus.replicas = wanted

\* A successful rollback leaves the old metadata in etcd and the image the
\* upgrade started from.
RollbackRestores ==
  status.state = RollbackSucceeded => meta = "old" /\ milvus.image = "old"

\* What recordOldInfo persisted of the Milvus before the upgrade is never
\* taken again, whatever stopping and starting is repeated after a crash.
RecordTakenOnce ==
  [][/\ status.replicasBeforeUpgrade # NoRecord =>
          status'.replicasBeforeUpgrade = status.replicasBeforeUpgrade
     /\ status.sourceImage # NoImage => status'.sourceImage = status.sourceImage]_vars

\* An upgrade reaches a state in which it rests, and a rollback that was
\* requested or begun is carried through.
UpgradeEnds ==
  /\ <>(status.state \in NoRequeueStates)
  /\ operation = "rollback" \/ status.isRollbacking
       ~> status.state \in {RollbackSucceeded, RollbackFailed}
=============================================================================
