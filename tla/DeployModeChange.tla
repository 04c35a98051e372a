-------------------------- MODULE DeployModeChange --------------------------
(***************************************************************************)
(* The change of a running component from one Deployment to the mode with  *)
(* two (pkg/controllers/deploy_mode_changer.go and the part of             *)
(* deploy_ctrl.go that decides on the mode).  The selector of a Deployment *)
(* cannot be edited, so the operator saves the Deployment and its          *)
(* ReplicaSets, deletes them without their pods, gives the pods the label  *)
(* of group 0 and creates both again with that label in their selectors.   *)
(*                                                                         *)
(* A reconcile runs the steps from the first one and stops at the first    *)
(* that changed something, so each write below is guarded by the steps     *)
(* before it having nothing left to do.  A crash or a failed call between  *)
(* two writes needs no action of its own: the next reconcile starts over.  *)
(***************************************************************************)
EXTENDS Integers, FiniteSets

CONSTANTS
  Pods,         \* identities of pods, those of replacements included
  Initial,      \* the pods that run before the change
  Sets,         \* ReplicaSets of the old Deployment, all its revisions
  Active,       \* the ReplicaSet that owns the pods
  Lags,         \* sets of caches that may lag together: "milvus", "pods", "sets"
  MaxDeaths,  \* bound on pods that die
  NotSaved      \* no such ControllerRevision, or no such Deployment

ASSUME ModeChangeAssumption ==
  /\ Initial \subseteq Pods /\ IsFiniteSet(Pods)
  /\ Active \in Sets
  /\ Lags \subseteq SUBSET {"milvus", "pods", "sets"}
  /\ MaxDeaths \in Nat
  /\ NotSaved \notin Nat /\ \A S \in SUBSET Sets : NotSaved # S

VARIABLES
  lagging,   \* the caches that may lag
  milvus,    \* annotations changing-mode and current-group-id, status.rollingMode
  oldDeploy, \* the Deployment without a group: "live", "deleting", "gone"
  oldSets,   \* its ReplicaSets: "owned", "orphan", "deleting", "gone"
  saved,     \* the ControllerRevisions with the saved objects
  newSets,   \* the ReplicaSets of group 0, see SetStates
  newDeploy, \* replicas of the Deployment of group 0, or NotSaved
  pods,      \* label and owner of every pod, see PodStates
  mseen, pseen, \* the caches of the Milvus object and of the pods
  deaths   \* pods that died

changeVars == <<lagging, milvus, oldDeploy, oldSets, saved, newSets, newDeploy, pods, mseen, pseen, deaths>>

\* old: owned by the old ReplicaSet; stray: it lost its owner; marked: a stray
\* with the label of group 0; zero: owned by the ReplicaSet of group 0.
PodStates == {"unborn", "old", "stray", "marked", "zero", "dead"}

\* copy: created from the saved one; dangling: a copy that still names the
\* deleted Deployment as its owner; fresh: made by the Deployment of group 0,
\* with a pod-template-hash of its own.
SetStates == {"none", "copy", "dangling", "fresh"}

Size == Cardinality(Initial)
In(S) == {p \in Pods : pods[p] \in S}
Running == In({"old", "stray", "marked", "zero"})

MarksType == [changing: BOOLEAN, current: BOOLEAN, twoDeploy: BOOLEAN]

ChangeTypeOK ==
  /\ lagging \in Lags
  /\ milvus \in MarksType /\ mseen \in MarksType
  /\ oldDeploy \in {"live", "deleting", "gone"}
  /\ oldSets \in [Sets -> {"owned", "orphan", "deleting", "gone"}]
  /\ saved \in [deploy: {Size, NotSaved}, sets: {NotSaved} \cup SUBSET Sets, owned: SUBSET Sets]
  /\ newSets \in [Sets -> SetStates]
  /\ newDeploy \in {Size, NotSaved}
  /\ pods \in [Pods -> PodStates] /\ pseen \in [Pods -> PodStates]
  /\ deaths \in 0..MaxDeaths

\* An instance of one Deployment, up to date: IsUpdating keeps the change away
\* from one that is not.
ChangeInit ==
  /\ lagging \in Lags
  /\ milvus = [changing |-> FALSE, current |-> FALSE, twoDeploy |-> FALSE]
  /\ oldDeploy = "live"
  /\ oldSets = [s \in Sets |-> "owned"]
  /\ saved = [deploy |-> NotSaved, sets |-> NotSaved, owned |-> {}]
  /\ newSets = [s \in Sets |-> "none"] /\ newDeploy = NotSaved
  /\ pods = [p \in Pods |-> IF p \in Initial THEN "old" ELSE "unborn"]
  /\ mseen = milvus /\ pseen = pods
  /\ deaths = 0

-----------------------------------------------------------------------------
(* The operator.                                                            *)

MView == IF "milvus" \in lagging THEN mseen ELSE milvus
PView == IF "pods" \in lagging THEN pseen ELSE pods

OneDeployMode ==
  ~MView.twoDeploy /\ (MView.changing \/ oldDeploy # "gone")

WriteMilvus(m) ==
  /\ MView = milvus /\ milvus' = m
  /\ UNCHANGED <<lagging, oldDeploy, oldSets, saved, newSets, newDeploy, pods, mseen, pseen, deaths>>

MarkDeployModeChanging ==
  /\ OneDeployMode /\ ~MView.changing
  /\ WriteMilvus([MView EXCEPT !.changing = TRUE])

Changing == OneDeployMode /\ MView.changing

\* SaveObject keeps what an earlier reconcile saved.
SaveOldDeploy ==
  /\ Changing /\ oldDeploy # "gone" /\ saved.deploy = NotSaved
  /\ saved' = [saved EXCEPT !.deploy = Size]
  /\ UNCHANGED <<lagging, milvus, oldDeploy, oldSets, newSets, newDeploy, pods, mseen, pseen, deaths>>

\* Mutant: nothing makes sure that the Deployment was saved.
MutantDeleteOldDeploy ==
  /\ Changing /\ oldDeploy = "live"
  /\ oldDeploy' = "deleting"
  /\ UNCHANGED <<lagging, milvus, oldSets, saved, newSets, newDeploy, pods, mseen, pseen, deaths>>

DeleteOldDeploy ==
  /\ Changing /\ oldDeploy = "live" /\ saved.deploy # NotSaved
  /\ oldDeploy' = "deleting"
  /\ UNCHANGED <<lagging, milvus, oldSets, saved, newSets, newDeploy, pods, mseen, pseen, deaths>>

OldSets == {s \in Sets : oldSets[s] # "gone"}

\* The owner references are saved with the ReplicaSets: a lagging cache shows
\* those of the deleted Deployment.
StaleOwners == IF "sets" \in lagging THEN SUBSET OldSets ELSE {{s \in Sets : oldSets[s] = "owned"}}

\* Mutant: the list is saved again by every reconcile.
MutantSaveOldReplicaSets ==
  /\ Changing /\ oldDeploy = "gone" /\ saved.sets # OldSets
  /\ saved' = [saved EXCEPT !.sets = OldSets]
  /\ UNCHANGED <<lagging, milvus, oldDeploy, oldSets, newSets, newDeploy, pods, mseen, pseen, deaths>>

SaveOldReplicaSets ==
  /\ Changing /\ oldDeploy = "gone" /\ saved.sets = NotSaved
  /\ \E owned \in StaleOwners : saved' = [saved EXCEPT !.sets = OldSets, !.owned = owned]
  /\ UNCHANGED <<lagging, milvus, oldDeploy, oldSets, newSets, newDeploy, pods, mseen, pseen, deaths>>

DeleteOldReplicaSet(s) ==
  /\ Changing /\ oldDeploy = "gone" /\ saved.sets # NotSaved
  /\ oldSets[s] \in {"owned", "orphan"}
  /\ oldSets' = [oldSets EXCEPT ![s] = "deleting"]
  /\ UNCHANGED <<lagging, milvus, oldDeploy, saved, newSets, newDeploy, pods, mseen, pseen, deaths>>

Deleted == Changing /\ oldDeploy = "gone" /\ saved.sets # NotSaved /\ OldSets = {}

\* A pod that changed since it was listed is not written.
UpdateOldPodLabels(p) ==
  /\ Deleted
  /\ PView[p] \in {"old", "stray"} /\ PView[p] = pods[p]
  /\ pods' = [pods EXCEPT ![p] = "marked"]
  /\ UNCHANGED <<lagging, milvus, oldDeploy, oldSets, saved, newSets, newDeploy, mseen, pseen, deaths>>

\* Mutant: the ReplicaSets do not wait for the labels.
MutantLabelled == Deleted

Labelled == Deleted /\ \A p \in Pods : PView[p] \notin {"old", "stray"}

RecoverReplicaSet(s) ==
  /\ Labelled
  /\ s \in saved.sets /\ newSets[s] = "none"
  /\ newSets' = [newSets EXCEPT ![s] = IF s \in saved.owned THEN "dangling" ELSE "copy"]
  /\ UNCHANGED <<lagging, milvus, oldDeploy, oldSets, saved, newDeploy, pods, mseen, pseen, deaths>>

SetsRecovered == Labelled /\ \A s \in saved.sets : newSets[s] # "none"

RecoverDeploy ==
  /\ SetsRecovered
  /\ newDeploy = NotSaved /\ saved.deploy # NotSaved
  /\ newDeploy' = saved.deploy
  /\ UNCHANGED <<lagging, milvus, oldDeploy, oldSets, saved, newSets, pods, mseen, pseen, deaths>>

Recovered == SetsRecovered /\ newDeploy # NotSaved

MarkCurrentDeploy ==
  /\ Recovered /\ ~MView.current
  /\ WriteMilvus([MView EXCEPT !.current = TRUE])

\* Mutant: the annotation goes as soon as everything is created.
MutantUnmarkDeployModeChanging ==
  /\ Recovered
  /\ WriteMilvus([MView EXCEPT !.changing = FALSE])

UnmarkDeployModeChanging ==
  /\ Recovered /\ MView.current
  /\ WriteMilvus([MView EXCEPT !.changing = FALSE])

\* RollingModeStatusUpdater: status.rollingMode, when the component is seen in
\* the mode with two Deployments.
UpdateRollingMode ==
  /\ ~OneDeployMode /\ ~MView.twoDeploy
  /\ WriteMilvus([MView EXCEPT !.twoDeploy = TRUE])

-----------------------------------------------------------------------------
(* The cluster: garbage collector, ReplicaSet and Deployment controllers.   *)

OrphanReplicaSets ==
  /\ oldDeploy = "deleting" /\ oldDeploy' = "gone"
  /\ oldSets' = [s \in Sets |-> IF oldSets[s] = "owned" THEN "orphan" ELSE oldSets[s]]
  /\ UNCHANGED <<lagging, milvus, saved, newSets, newDeploy, pods, mseen, pseen, deaths>>

OrphanPods(s) ==
  /\ oldSets[s] = "deleting" /\ oldSets' = [oldSets EXCEPT ![s] = "gone"]
  /\ pods' = [p \in Pods |-> IF s = Active /\ pods[p] = "old" THEN "stray" ELSE pods[p]]
  /\ UNCHANGED <<lagging, milvus, oldDeploy, saved, newSets, newDeploy, mseen, pseen, deaths>>

\* A ReplicaSet whose owner does not exist is deleted with its pods.
CollectReplicaSet(s) ==
  /\ newSets[s] = "dangling" /\ newSets' = [newSets EXCEPT ![s] = "none"]
  /\ pods' = [p \in Pods |-> IF s = Active /\ pods[p] = "zero" THEN "dead" ELSE pods[p]]
  /\ UNCHANGED <<lagging, milvus, oldDeploy, oldSets, saved, newDeploy, mseen, pseen, deaths>>

\* The Deployment of group 0 adopts a copy and makes a ReplicaSet if it has none.
MakeReplicaSet ==
  /\ newDeploy # NotSaved /\ newSets[Active] = "none"
  /\ newSets' = [newSets EXCEPT ![Active] = "fresh"]
  /\ UNCHANGED <<lagging, milvus, oldDeploy, oldSets, saved, newDeploy, pods, mseen, pseen, deaths>>

SetPod(p, from, to) ==
  /\ pods[p] = from /\ pods' = [pods EXCEPT ![p] = to]
  /\ UNCHANGED <<lagging, milvus, oldDeploy, oldSets, saved, newSets, newDeploy, mseen, pseen, deaths>>

Wanted == IF newDeploy = NotSaved THEN Size ELSE newDeploy

ReplacePod(p) ==
  /\ oldSets[Active] \in {"owned", "orphan"} /\ Cardinality(In({"old"})) < Size
  /\ SetPod(p, "unborn", "old")

AdoptPod(p) ==
  /\ newSets[Active] \in {"copy", "dangling"}
  /\ SetPod(p, "marked", "zero")

CreatePod(p) ==
  /\ newSets[Active] # "none" /\ Cardinality(In({"zero"})) < Wanted
  /\ newSets[Active] = "fresh" \/ In({"marked"}) = {}
  /\ SetPod(p, "unborn", "zero")

PodDies(p) ==
  /\ p \in Running /\ deaths < MaxDeaths
  /\ deaths' = deaths + 1
  /\ pods' = [pods EXCEPT ![p] = "dead"]
  /\ UNCHANGED <<lagging, milvus, oldDeploy, oldSets, saved, newSets, newDeploy, mseen, pseen>>

SyncMilvus ==
  /\ "milvus" \in lagging /\ mseen # milvus /\ mseen' = milvus
  /\ UNCHANGED <<lagging, milvus, oldDeploy, oldSets, saved, newSets, newDeploy, pods, pseen, deaths>>

SyncPods ==
  /\ "pods" \in lagging /\ pseen # pods /\ pseen' = pods
  /\ UNCHANGED <<lagging, milvus, oldDeploy, oldSets, saved, newSets, newDeploy, pods, mseen, deaths>>

-----------------------------------------------------------------------------
Operator ==
  \/ MarkDeployModeChanging \/ SaveOldDeploy \/ DeleteOldDeploy \/ SaveOldReplicaSets
  \/ \E s \in Sets : DeleteOldReplicaSet(s) \/ RecoverReplicaSet(s)
  \/ \E p \in Pods : UpdateOldPodLabels(p)
  \/ RecoverDeploy \/ MarkCurrentDeploy \/ UnmarkDeployModeChanging
  \/ UpdateRollingMode

Cluster ==
  \/ OrphanReplicaSets \/ MakeReplicaSet
  \/ \E s \in Sets : OrphanPods(s) \/ CollectReplicaSet(s)
  \/ \E p \in Pods : ReplacePod(p) \/ AdoptPod(p) \/ CreatePod(p)

ChangeNext == Operator \/ Cluster \/ SyncMilvus \/ SyncPods \/ \E p \in Pods : PodDies(p)

ChangeSpec == ChangeInit /\ [][ChangeNext]_changeVars

\* The operator reconciles until nothing is left to do, and so do the
\* controllers of the cluster and the watches behind the caches.
FairChangeSpec == ChangeSpec /\ WF_changeVars(Operator) /\ WF_changeVars(Cluster) /\ WF_changeVars(SyncMilvus) /\ WF_changeVars(SyncPods)

-----------------------------------------------------------------------------
(* Properties.                                                              *)

\* What SaveDeleteOldDeploy and SaveDeleteOldReplicaSet delete can be created
\* again from the ControllerRevisions, whatever reconcile was cut off.
SavedBeforeDeleted ==
  /\ oldDeploy # "live" => saved.deploy # NotSaved
  /\ \A s \in Sets : oldSets[s] \in {"deleting", "gone"} => saved.sets # NotSaved /\ s \in saved.sets

\* The cache of the ReplicaSets is as new as that of the Deployments: it shows
\* that the garbage collector took the owner references away.
CurrentSets == "sets" \notin lagging

\* The change moves the pods and restarts none: ChangeToTwoDeployMode has the
\* labels in place before RecoverReplicaSets, and the ReplicaSets before
\* RecoverDeploy, so no controller ends a pod or starts one too many.
PodsKept ==
  CurrentSets =>
    /\ Cardinality(In({"dead"})) = deaths
    /\ Cardinality(Running) <= Size

\* When the annotation is gone, so are the traces of the old mode: no pod with
\* the old label is left, the new Deployment is there and marked as current.
NothingLeftBehind ==
  (oldDeploy = "gone" /\ ~milvus.changing) =>
    /\ In({"old", "stray"}) = {}
    /\ milvus.current
    /\ newDeploy = Size

Changed ==
  /\ milvus = [changing |-> FALSE, current |-> TRUE, twoDeploy |-> TRUE]
  /\ newDeploy = Size /\ newSets[Active] = "copy"
  /\ Cardinality(In({"zero"})) = Size

\* The change ends, with the Deployment of group 0 and its ReplicaSet in charge
\* of as many pods as before, from any point a reconcile stopped at.
Changes == CurrentSets => <>[]Changed
=============================================================================
