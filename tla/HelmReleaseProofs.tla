------------------------- MODULE HelmReleaseProofs --------------------------
(***************************************************************************)
(* Proofs about HelmRelease: a release stays with the chart it was         *)
(* installed with, Helm is asked to upgrade etcd only when the upgrade has *)
(* nothing to change that cannot be changed, and no more often than edits  *)
(* and faults ask for it, for any number of replicas, sizes, edits and     *)
(* faults, with crashes inside Helm operations and a cache that lags.      *)
(***************************************************************************)
EXTENDS HelmRelease, TLAPS

\* Zenon proves what follows; the steps that need arithmetic cite SMT.
USE Zenon

\* The chart of an etcd: the one found installed, or the newest.
EtcdChart == IF config.chart = None THEN "v8" ELSE config.chart

\* ensureEtcdChartVersion only ever writes the version of the release, also
\* when there is none yet, and nothing passes it without a version.
VersionKnown ==
  config.kind = "etcd" =>
    /\ spec.chart \in {"", EtcdChart} /\ rec.spec.chart \in {"", EtcdChart}
    /\ release # None => release.chart = EtcdChart
    /\ release = None => config.chart = None
    /\ rec.step \notin {"idle", "chart"} => rec.spec.chart = EtcdChart

\* The charts that other kinds of releases have.
KindKnown ==
  release # None =>
    /\ config.kind = "storage" => release.chart \in {"minio", "silo"}
    /\ config.kind = "pulsar" => release.chart = "pulsar"

\* Where the reconcile is says whether there is a release, and only etcd has
\* its version found out.
ReleaseKnown ==
  /\ At("chart") => config.kind = "etcd"
  /\ At("install") => release = None
  /\ rec.step \notin {"idle", "chart", "compare", "install"} => release # None

\* From the end of reconcilePVCs to the end of the upgrade, the StatefulSet is
\* one that the upgrade leaves alone.
UpgradePrepared == At("update") \/ At("updating") => Applies

ReleaseInv == TypeOK /\ VersionKnown /\ KindKnown /\ ReleaseKnown /\ UpgradePrepared

-----------------------------------------------------------------------------
\* A release and a StatefulSet differ from their absence.
LEMMA NoneType ==
  ASSUME config \in Configs
  PROVE  /\ config.sizes \subseteq Nat /\ None \notin config.sizes
         /\ None \notin ReleaseType /\ None \notin [size: config.sizes, deleting: BOOLEAN]
<1>1. config.sizes \subseteq Nat
  BY ReleaseAssumption
<1>2. ASSUME NEW r \in ReleaseType PROVE r # None
  BY <1>1, NoneAssumption DEF ReleaseType
<1>3. ASSUME NEW s \in [size: config.sizes, deleting: BOOLEAN] PROVE s # None
  BY <1>1, NoneAssumption
<1> QED
  BY <1>1, <1>2, <1>3, NoneAssumption

\* A new instance, or one that an older operator left, is as the invariant says.
LEMMA ReleaseInit == Init => ReleaseInv
<1> SUFFICES ASSUME Init PROVE ReleaseInv
  OBVIOUS
<1>1. PICK size \in config.sizes :
        LET new == config.chart = None
            etcd == config.kind = "etcd"
        IN  /\ spec = [size |-> size, chart |-> IF new /\ etcd THEN "v8" ELSE ""]
            /\ release = IF new THEN None
                         ELSE [size |-> size, chart |-> config.chart, status |-> "deployed",
                               initialize |-> IF config.kind = "pulsar" THEN "true" ELSE "unset"]
            /\ sts = IF new \/ ~etcd THEN None ELSE Template(size)
            /\ pvcs = [i \in Ordinals |-> IF new \/ ~etcd THEN 0 ELSE size]
  BY DEF Init
<1>2. config \in Configs /\ rec = [spec |-> spec, step |-> "idle"]
  BY DEF Init
<1>3. config.chart # None => release \in ReleaseType
  <2> SUFFICES ASSUME config.chart # None PROVE release \in ReleaseType
    OBVIOUS
  <2>1. config.chart \in Charts
    BY <1>2, ReleaseAssumption DEF Charts
  <2> QED
    BY <1>1, <2>1 DEF ReleaseType
<1>4. TypeOK
  <2>1. spec \in [size: config.sizes, chart: {"", "v6", "v8"}]
    BY <1>1
  <2>2. release = None \/ release \in ReleaseType
    BY <1>1, <1>3
  <2>3. sts = None \/ sts \in [size: config.sizes, deleting: BOOLEAN]
    BY <1>1 DEF Template
  <2>4. pvcs \in [Ordinals -> config.sizes \cup {0}]
    BY <1>1
  <2>5. rec \in [step: Steps, spec: [size: config.sizes, chart: {"", "v6", "v8"}]]
    BY <1>2, <2>1 DEF Steps
  <2>6. saved = None /\ sseen = None /\ due = TRUE /\ edits = 0 /\ faults = 0 /\ upgrades = 0
    BY DEF Init
  <2>7. edits \in 0..MaxEdits /\ faults \in 0..MaxFaults /\ upgrades \in Nat
    BY SMT, <2>6, ReleaseAssumption
  <2>8. due \in BOOLEAN /\ saved \in config.sizes \cup {None} /\ sseen \in config.sizes \cup {None}
    BY <2>6
  <2> QED
    BY <1>2, <2>1, <2>2, <2>3, <2>4, <2>5, <2>7, <2>8 DEF TypeOK
<1>5. VersionKnown /\ KindKnown
  <2>1. CASE config.chart = None
    BY <1>1, <1>2, <2>1 DEF VersionKnown, KindKnown, EtcdChart
  <2>2. CASE config.chart # None
    <3>1. release.chart = config.chart
      BY <1>1, <2>2
    <3>2. config.kind = "etcd" => spec.chart = ""
      BY <1>1, <2>2
    <3>3. release # None
      BY <1>2, <1>3, <2>2, NoneType
    <3> QED
      BY <1>2, <2>2, <3>1, <3>2, <3>3, ReleaseAssumption DEF VersionKnown, KindKnown, EtcdChart
  <2> QED
    BY <2>1, <2>2
<1>6. ReleaseKnown /\ UpgradePrepared
  BY <1>2 DEF ReleaseKnown, UpgradePrepared, At
<1> QED
  BY <1>4, <1>5, <1>6 DEF ReleaseInv

\* The chart that a reconcile past ensureEtcdChartVersion asks for is one there
\* is, and that of the release if there is a release.
LEMMA RequestedChartKept ==
  ASSUME ReleaseInv, rec.step \notin {"idle", "chart"}
  PROVE  /\ RequestedChart \in Charts
         /\ release # None => RequestedChart = release.chart
         /\ config.kind = "etcd" => RequestedChart = EtcdChart
         /\ config.kind = "storage" => RequestedChart \in {"minio", "silo"}
         /\ config.kind = "pulsar" => RequestedChart = "pulsar"
<1>1. config.kind \in {"etcd", "storage", "pulsar"} /\ (config.kind = "etcd" => EtcdChart \in {"v6", "v8"})
  BY ReleaseAssumption, NoneAssumption DEF ReleaseInv, TypeOK, EtcdChart
<1>2. CASE config.kind = "etcd"
  BY <1>1, <1>2 DEF ReleaseInv, VersionKnown, RequestedChart, Charts
<1>3. CASE config.kind = "storage"
  BY <1>3 DEF ReleaseInv, KindKnown, RequestedChart, Charts
<1>4. CASE config.kind = "pulsar"
  BY <1>4 DEF ReleaseInv, KindKnown, RequestedChart, Charts
<1> QED
  BY <1>1, <1>2, <1>3, <1>4

\* A new revision is a release of that chart.
LEMMA RevisionKept ==
  ASSUME ReleaseInv, rec.step \notin {"idle", "chart"}, NEW i \in {"true", "false"}
  PROVE  /\ Revision(i) \in ReleaseType /\ Revision(i) # None
         /\ Revision(i).chart = RequestedChart
<1>1. Revision(i) \in ReleaseType
  BY RequestedChartKept DEF Revision, ReleaseType, ReleaseInv, TypeOK
<1> QED
  BY <1>1, NoneType DEF Revision, ReleaseInv, TypeOK

\* A counter below its bound may be increased.
LEMMA CountedStep ==
  ASSUME NEW n, NEW max \in Nat, n \in 0..max, n < max
  PROVE  n + 1 \in 0..max
BY SMT

-----------------------------------------------------------------------------
\* Steps that only move the reconcile on, to one of the places where the
\* release is as it was.
LEMMA GotoInv ==
  ASSUME ReleaseInv, NEW step \in Steps \ {"chart"}, Goto(step), due' \in BOOLEAN, UNCHANGED <<config, spec>>,
         release' = release \/ (release # None /\ release' # None /\ release' \in ReleaseType /\ release'.chart = release.chart),
         sts' = None \/ sts' \in [size: config.sizes, deleting: BOOLEAN],
         pvcs' \in [Ordinals -> config.sizes \cup {0}],
         saved' \in config.sizes \cup {None}, sseen' \in config.sizes \cup {None},
         edits' \in 0..MaxEdits, faults' \in 0..MaxFaults, upgrades' \in Nat,
         step # "idle" => rec.step \notin {"idle", "chart"},
         step = "install" => release = None,
         step \notin {"idle", "compare", "install"} => release # None,
         step \in {"update", "updating"} => Applies'
  PROVE  ReleaseInv'
<1>1. rec' \in [step: Steps, spec: [size: config.sizes, chart: {"", "v6", "v8"}]]
  BY DEF Goto, ReleaseInv, TypeOK
<1>2. rec'.step = step /\ rec'.spec = rec.spec
  BY DEF Goto, ReleaseInv, TypeOK
<1>3. TypeOK'
  BY ZenonT(60), <1>1 DEF ReleaseInv, TypeOK, ReleaseType, Ordinals
<1>4. VersionKnown'
  BY <1>2 DEF ReleaseInv, VersionKnown, EtcdChart
<1>5. KindKnown'
  BY SMT DEF ReleaseInv, KindKnown
<1>6. ReleaseKnown'
  BY <1>2 DEF ReleaseInv, ReleaseKnown, At
<1>7. UpgradePrepared'
  BY <1>2 DEF UpgradePrepared, At
<1> QED
  BY <1>3, <1>4, <1>5, <1>6, <1>7 DEF ReleaseInv

\* The first steps: the reconcile reads the spec, and ensureEtcdChartVersion
\* writes the version it found.
LEMMA StartInv == ReleaseInv /\ StartReconcile => ReleaseInv'
<1> SUFFICES ASSUME ReleaseInv, StartReconcile PROVE ReleaseInv'
  OBVIOUS
<1>1. PICK step \in {"chart", "compare"} :
        rec' = [spec |-> spec, step |-> step] /\ (config.kind = "etcd" <=> step = "chart")
  BY DEF StartReconcile
<1>2. UNCHANGED <<config, spec, release, sts, pvcs, saved, sseen, edits, faults, upgrades>> /\ due' = FALSE
  BY DEF StartReconcile, objects, counts
<1>3. TypeOK'
  BY ZenonT(120), <1>1, <1>2 DEF ReleaseInv, TypeOK, ReleaseType, Steps, Ordinals
<1>4. VersionKnown' /\ KindKnown'
  BY <1>1, <1>2 DEF ReleaseInv, VersionKnown, KindKnown, EtcdChart
<1>5. ReleaseKnown' /\ UpgradePrepared'
  BY <1>1, <1>2 DEF ReleaseKnown, UpgradePrepared, At
<1> QED
  BY <1>3, <1>4, <1>5 DEF ReleaseInv

\* The version found is that of the release, or the newest.
LEMMA DetectedChart ==
  ASSUME ReleaseInv, config.kind = "etcd"
  PROVE  DetectedVersion = EtcdChart /\ EtcdChart \in {"v6", "v8"}
BY ReleaseAssumption DEF ReleaseInv, TypeOK, VersionKnown, DetectedVersion, EtcdChart

\* It is written, found set already, or the write is refused.
LEMMA EnsureInv == ReleaseInv /\ EnsureEtcdChartVersion => ReleaseInv'
<1> SUFFICES ASSUME ReleaseInv, EnsureEtcdChartVersion PROVE ReleaseInv'
  OBVIOUS
<1> config.kind = "etcd"
  BY DEF EnsureEtcdChartVersion, ReleaseInv, ReleaseKnown
<1>1. UNCHANGED <<config, release, sts, pvcs, saved, sseen, edits, faults, upgrades>> /\ rec.step = "chart"
  BY DEF EnsureEtcdChartVersion, objects, counts, At
<1>2. CASE /\ rec.spec.chart # "" /\ Goto("compare") /\ UNCHANGED <<spec, due>>
  <2>1. rec' \in [step: Steps, spec: [size: config.sizes, chart: {"", "v6", "v8"}]]
        /\ rec'.step = "compare" /\ rec'.spec = rec.spec
    BY <1>2 DEF Goto, ReleaseInv, TypeOK, Steps
  <2>2. TypeOK'
    BY ZenonT(60), <1>1, <1>2, <2>1 DEF ReleaseInv, TypeOK, ReleaseType, Ordinals
  <2>3. VersionKnown' /\ KindKnown'
    BY <1>1, <1>2, <2>1 DEF ReleaseInv, VersionKnown, KindKnown, EtcdChart
  <2>4. ReleaseKnown' /\ UpgradePrepared'
    BY <2>1 DEF ReleaseKnown, UpgradePrepared, At
  <2> QED
    BY <2>2, <2>3, <2>4 DEF ReleaseInv
<1>3. CASE /\ rec.spec.chart = "" /\ rec.spec = spec
           /\ spec' = [spec EXCEPT !.chart = DetectedVersion]
           /\ rec' = [spec |-> spec', step |-> "compare"]
           /\ due' = TRUE
  <2>1. spec' \in [size: config.sizes, chart: {"", "v6", "v8"}] /\ spec'.chart = EtcdChart
    BY <1>3, DetectedChart DEF ReleaseInv, TypeOK
  <2>2. TypeOK'
    BY <1>1, <1>3, <2>1 DEF ReleaseInv, TypeOK, ReleaseType, Steps, Ordinals
  <2>3. VersionKnown' /\ KindKnown'
    BY <1>1, <1>3, <2>1 DEF ReleaseInv, VersionKnown, KindKnown, EtcdChart
  <2>4. ReleaseKnown' /\ UpgradePrepared'
    BY <1>3 DEF ReleaseKnown, UpgradePrepared, At
  <2> QED
    BY <2>2, <2>3, <2>4 DEF ReleaseInv
<1>4. CASE rec.spec.chart = "" /\ rec.spec # spec /\ ReturnError /\ UNCHANGED spec
  BY <1>1, <1>4, GotoInv DEF ReturnError, Steps, ReleaseInv, TypeOK
<1> QED
  BY <1>2, <1>3, <1>4 DEF EnsureEtcdChartVersion

\* The comparison of the release with the spec, and reconcilePVCs, whose last
\* steps leave a StatefulSet of the size that is asked for.
LEMMA ReconcileInv ==
  ReleaseInv /\ (Compare \/ GetStatefulSet \/ UpdatePVC \/ DeleteSaved \/ SaveObject \/ DeleteStatefulSet
                   \/ WaitForStatefulSetDeletion \/ CreateNewStatefulSet) => ReleaseInv'
<1> SUFFICES ASSUME ReleaseInv,
                    Compare \/ GetStatefulSet \/ UpdatePVC \/ DeleteSaved \/ SaveObject \/ DeleteStatefulSet
                      \/ WaitForStatefulSetDeletion \/ CreateNewStatefulSet
             PROVE  ReleaseInv'
  OBVIOUS
<1>a. TypeOK /\ ReleaseKnown /\ config \in Configs
  BY DEF ReleaseInv, TypeOK
<1>1. CASE Compare
  <2>1. /\ UNCHANGED <<config, spec, release, sts, pvcs, saved, sseen, edits, faults, upgrades>>
        /\ rec.step = "compare"
    BY <1>1 DEF Compare, objects, counts, At
  <2>2. CASE release = None /\ Goto("install") /\ UNCHANGED due
    BY <1>a, <2>1, <2>2, GotoInv DEF TypeOK, Steps
  <2>3. CASE release # None /\ Return
    BY <1>a, <2>1, <2>3, GotoInv DEF TypeOK, Steps, Return
  <2>4. CASE /\ release # None /\ UNCHANGED due
             /\ Goto(IF config.kind = "etcd" THEN "sts" ELSE "update")
    <3>1. CASE config.kind = "etcd"
      BY <1>a, <2>1, <2>4, <3>1, GotoInv DEF TypeOK, Steps
    <3>2. CASE config.kind # "etcd"
      <4>1. Applies'
        BY <2>1, <3>2 DEF Applies
      <4> QED
        BY <1>a, <2>1, <2>4, <3>2, <4>1, GotoInv DEF TypeOK, Steps
    <3> QED
      BY <3>1, <3>2
  <2> QED
    BY <1>1, <2>2, <2>3, <2>4 DEF Compare
<1>2. CASE GetStatefulSet
  <2>1. /\ UNCHANGED <<config, spec, due, release, pvcs, saved, sseen, edits, faults, upgrades>>
        /\ rec.step = "sts" /\ release # None
    BY <1>2, <1>a DEF GetStatefulSet, counts, At, ReleaseKnown
  <2> DEFINE current == IF sts # None THEN sts.size ELSE sseen
  <2>2. /\ sts' = IF sts = None /\ sseen # None THEN Template(sseen) ELSE sts
        /\ Goto(IF current \in {None, rec.spec.size} THEN "update" ELSE "pvcs")
    BY <1>2 DEF GetStatefulSet
  <2>3. sts' = None \/ sts' \in [size: config.sizes, deleting: BOOLEAN]
    BY <1>a, <2>2 DEF TypeOK, Template
  <2>4. rec'.spec = rec.spec
    BY <1>a, <2>2 DEF Goto, TypeOK
  <2>5. CASE current \in {None, rec.spec.size}
    <3>1. Applies'
      <4>1. CASE sts # None
        BY <1>a, <2>1, <2>2, <2>4, <2>5, <4>1, NoneType DEF Applies, TypeOK
      <4>2. CASE sts = None
        BY <1>a, <2>1, <2>2, <2>4, <2>5, <4>2 DEF Applies, TypeOK, Template
      <4> QED
        BY <4>1, <4>2
    <3> QED
      BY <1>a, <2>1, <2>2, <2>3, <2>5, <3>1, GotoInv DEF TypeOK, Steps
  <2>6. CASE current \notin {None, rec.spec.size}
    BY <1>a, <2>1, <2>2, <2>3, <2>6, GotoInv DEF TypeOK, Steps
  <2> QED
    BY <2>5, <2>6
<1>3. CASE UpdatePVC
  <2>1. /\ UNCHANGED <<config, spec, release, sts, saved, sseen, edits, faults, upgrades>>
        /\ rec.step = "pvcs" /\ release # None
    BY <1>3, <1>a DEF UpdatePVC, counts, At, ReleaseKnown
  <2>2. CASE Goto("forget") /\ UNCHANGED <<pvcs, due>>
    BY <1>a, <2>1, <2>2, GotoInv DEF TypeOK, Steps
  <2>3. CASE UNCHANGED <<rec, due>> /\ \E i : pvcs' = [pvcs EXCEPT ![i] = rec.spec.size]
    <3>1. pvcs' \in [Ordinals -> config.sizes \cup {0}]
      BY <1>a, <2>3 DEF TypeOK
    <3>2. TypeOK'
      BY ZenonT(120), <1>a, <2>1, <2>3, <3>1 DEF TypeOK, ReleaseType, Ordinals
    <3> QED
      BY <2>1, <2>3, <3>2 DEF ReleaseInv, VersionKnown, KindKnown, ReleaseKnown, UpgradePrepared, EtcdChart, At, Applies
  <2>4. CASE ReturnError /\ UNCHANGED pvcs
    BY <1>a, <2>1, <2>4, GotoInv DEF TypeOK, Steps, ReturnError
  <2> QED
    BY <1>3, <2>2, <2>3, <2>4 DEF UpdatePVC
<1>4. CASE DeleteSaved
  <2>1. rec.step = "forget" /\ release # None
    BY <1>4, <1>a DEF DeleteSaved, At, ReleaseKnown
  <2> QED
    BY <1>4, <1>a, <2>1, GotoInv DEF DeleteSaved, counts, TypeOK, Steps
<1>5. CASE SaveObject
  <2>1. rec.step = "save" /\ release # None /\ saved' \in config.sizes \cup {None}
    BY <1>5, <1>a DEF SaveObject, At, ReleaseKnown, TypeOK
  <2> QED
    BY <1>5, <1>a, <2>1, GotoInv DEF SaveObject, counts, TypeOK, Steps
<1>6. CASE DeleteStatefulSet
  <2>1. rec.step = "delete" /\ release # None
    BY <1>6, <1>a DEF DeleteStatefulSet, At, ReleaseKnown
  <2>2. CASE sts # None /\ sts' = [sts EXCEPT !.deleting = TRUE] /\ Goto("wait") /\ UNCHANGED due
    <3>1. sts' \in [size: config.sizes, deleting: BOOLEAN]
      BY <1>a, <2>2 DEF TypeOK
    <3> QED
      BY <1>6, <1>a, <2>1, <2>2, <3>1, GotoInv DEF DeleteStatefulSet, counts, TypeOK, Steps
  <2>3. CASE sts = None /\ ReturnError /\ UNCHANGED sts
    BY <1>6, <1>a, <2>1, <2>3, GotoInv DEF DeleteStatefulSet, counts, TypeOK, Steps, ReturnError
  <2> QED
    BY <1>6, <2>2, <2>3 DEF DeleteStatefulSet
<1>7. CASE WaitForStatefulSetDeletion
  <2>1. rec.step = "wait" /\ release # None
    BY <1>7, <1>a DEF WaitForStatefulSetDeletion, At, ReleaseKnown
  <2> QED
    BY <1>7, <1>a, <2>1, GotoInv DEF WaitForStatefulSetDeletion, objects, counts, TypeOK, Steps
<1>8. CASE CreateNewStatefulSet
  <2>1. rec.step = "create" /\ release # None
    BY <1>8, <1>a DEF CreateNewStatefulSet, At, ReleaseKnown
  <2>2. sts' \in [size: config.sizes, deleting: BOOLEAN] /\ sts'.size = rec'.spec.size
    BY <1>8, <1>a DEF CreateNewStatefulSet, Template, Goto, TypeOK
  <2>3. Applies'
    BY <2>2 DEF Applies
  <2> QED
    BY <1>8, <1>a, <2>1, <2>2, <2>3, GotoInv DEF CreateNewStatefulSet, counts, TypeOK, Steps
<1> QED
  BY <1>1, <1>2, <1>3, <1>4, <1>5, <1>6, <1>7, <1>8

\* The operations of Helm: a release is installed with the chart asked for and
\* upgraded with the same.
LEMMA HelmInv == ReleaseInv /\ (Install \/ Update \/ HelmDone \/ HelmFails) => ReleaseInv'
<1> SUFFICES ASSUME ReleaseInv, Install \/ Update \/ HelmDone \/ HelmFails PROVE ReleaseInv'
  OBVIOUS
<1>a. TypeOK /\ ReleaseKnown /\ config \in Configs
  BY DEF ReleaseInv, TypeOK
<1>1. CASE Install
  <2>1. /\ UNCHANGED <<config, spec, due, sts, pvcs, saved, sseen, edits, faults, upgrades>>
        /\ rec.step = "install" /\ release' = Revision("true") /\ Goto("installing")
    BY <1>1 DEF Install, counts, At
  <2>2. release' \in ReleaseType /\ release' # None /\ release'.chart = RequestedChart
    BY <2>1, RevisionKept
  <2>3. /\ rec' \in [step: Steps, spec: [size: config.sizes, chart: {"", "v6", "v8"}]]
        /\ rec'.step = "installing" /\ rec'.spec = rec.spec
    BY <1>a, <2>1 DEF Goto, TypeOK, Steps
  <2>4. TypeOK'
    BY <1>a, <2>1, <2>2, <2>3 DEF TypeOK, ReleaseType, Ordinals
  <2>5. VersionKnown'
    BY <2>1, <2>2, <2>3, RequestedChartKept DEF ReleaseInv, VersionKnown, EtcdChart
  <2>6. KindKnown'
    BY <2>1, <2>2, RequestedChartKept DEF KindKnown
  <2>7. ReleaseKnown' /\ UpgradePrepared'
    BY <2>2, <2>3 DEF ReleaseKnown, UpgradePrepared, At
  <2> QED
    BY <2>4, <2>5, <2>6, <2>7 DEF ReleaseInv
<1>2. CASE Update
  <2>1. /\ UNCHANGED <<config, spec, sts, pvcs, saved, sseen, edits, faults>>
        /\ rec.step = "update" /\ release # None
    BY <1>2, <1>a DEF Update, At, ReleaseKnown
  <2>2. CASE ReturnError /\ UNCHANGED <<release, upgrades>>
    BY <1>a, <2>1, <2>2, GotoInv DEF TypeOK, Steps, ReturnError
  <2>3. CASE release' = Revision("false") /\ Goto("updating") /\ upgrades' = upgrades + 1 /\ UNCHANGED due
    <3>1. release' \in ReleaseType /\ release' # None /\ release'.chart = release.chart
      BY <2>1, <2>3, RevisionKept, RequestedChartKept
    <3>2. rec'.spec = rec.spec
      BY <1>a, <2>3 DEF Goto, TypeOK
    <3>3. Applies'
      BY <2>1, <3>2 DEF ReleaseInv, UpgradePrepared, At, Applies
    <3>4. upgrades' \in Nat
      <4>1. upgrades \in Nat
        BY <1>a DEF TypeOK
      <4> QED
        BY SMT, <4>1, <2>3
    <3> QED
      BY <1>a, <2>1, <2>3, <3>1, <3>3, <3>4, GotoInv DEF TypeOK, Steps
  <2> QED
    BY <1>2, <2>2, <2>3 DEF Update
<1>3. CASE HelmDone \/ HelmFails
  <2>1. /\ UNCHANGED <<config, spec, pvcs, saved, sseen, edits, upgrades>>
        /\ rec.step \in {"installing", "updating"} /\ release # None
        /\ faults' \in 0..MaxFaults /\ due' \in BOOLEAN /\ Goto("idle")
    <3>1. rec.step \in {"installing", "updating"} /\ release # None
      BY <1>3, <1>a DEF HelmDone, HelmFails, InHelm, At, ReleaseKnown
    <3>2. faults' \in 0..MaxFaults
      <4>1. faults' = faults \/ (faults < MaxFaults /\ faults' = faults + 1)
        BY <1>3 DEF HelmDone, HelmFails, counts
      <4>2. faults \in 0..MaxFaults /\ MaxFaults \in Nat
        BY <1>a, ReleaseAssumption DEF TypeOK
      <4> QED
        BY <4>1, <4>2, CountedStep
    <3> QED
      BY <1>3, <1>a, <3>1, <3>2 DEF HelmDone, HelmFails, counts, Return, ReturnError, TypeOK
  <2>2. release' \in ReleaseType /\ release'.chart = release.chart
    BY ZenonT(60), <1>3, <1>a, <2>1 DEF HelmDone, HelmFails, TypeOK, ReleaseType
  <2>3. release' # None
    BY <1>a, <2>2, NoneType
  <2>4. sts' = None \/ sts' \in [size: config.sizes, deleting: BOOLEAN]
    <3>1. Template(rec.spec.size) \in [size: config.sizes, deleting: BOOLEAN]
      BY <1>a DEF Template, TypeOK
    <3>2. sts' \in {sts, Template(rec.spec.size)}
      BY <1>3 DEF HelmDone, HelmFails
    <3> QED
      BY <1>a, <3>1, <3>2 DEF TypeOK
  <2> QED
    BY <1>a, <2>1, <2>2, <2>3, <2>4, GotoInv DEF TypeOK, Steps
<1> QED
  BY <1>1, <1>2, <1>3

\* Users, faults and the cluster.
LEMMA OthersInv ==
  ReleaseInv /\ (CallFails \/ Crash \/ Resync \/ Cluster \/ \E size \in config.sizes : Edit(size)) => ReleaseInv'
<1> SUFFICES ASSUME ReleaseInv, CallFails \/ Crash \/ Resync \/ Cluster \/ \E size \in config.sizes : Edit(size)
             PROVE  ReleaseInv'
  OBVIOUS
<1>a. TypeOK /\ ReleaseKnown /\ config \in Configs
  BY DEF ReleaseInv, TypeOK
<1>1. CASE CallFails \/ Crash
  <2>1. /\ UNCHANGED <<config, spec, release, sts, pvcs, saved, edits, upgrades>>
        /\ sseen' \in {sseen, saved} /\ due' = TRUE /\ Goto("idle")
        /\ faults < MaxFaults /\ faults' = faults + 1
    BY <1>1 DEF CallFails, Crash, objects, ReturnError
  <2>2. faults' \in 0..MaxFaults
    <3>1. faults \in 0..MaxFaults /\ MaxFaults \in Nat
      BY <1>a, ReleaseAssumption DEF TypeOK
    <3> QED
      BY <2>1, <3>1, CountedStep
  <2> QED
    BY <1>a, <2>1, <2>2, GotoInv DEF TypeOK, Steps
<1>2. CASE Resync \/ SyncCache
  <2>1. /\ UNCHANGED <<config, spec, rec, release, sts, pvcs, saved, edits, faults, upgrades>>
        /\ sseen' \in {sseen, saved} /\ due' \in BOOLEAN
    BY <1>2, <1>a DEF Resync, SyncCache, objects, counts, TypeOK
  <2>2. TypeOK'
    BY ZenonT(120), <1>a, <2>1 DEF TypeOK, ReleaseType, Ordinals
  <2> QED
    BY <2>1, <2>2 DEF ReleaseInv, VersionKnown, KindKnown, ReleaseKnown, UpgradePrepared, EtcdChart, At, Applies
<1>3. CASE OrphanPods \/ \E i \in Ordinals : CreatePVC(i)
  <2>1. /\ UNCHANGED <<config, spec, due, rec, release, saved, sseen, edits, faults, upgrades>>
        /\ sts' \in {sts, None}
    BY <1>3 DEF OrphanPods, CreatePVC, counts
  <2>2. pvcs' \in [Ordinals -> config.sizes \cup {0}]
    BY <1>3, <1>a DEF OrphanPods, CreatePVC, TypeOK
  <2>3. TypeOK'
    BY ZenonT(120), <1>a, <2>1, <2>2 DEF TypeOK, ReleaseType, Ordinals
  <2>4. Applies => Applies'
    BY <2>1 DEF Applies
  <2> QED
    BY <2>1, <2>3, <2>4 DEF ReleaseInv, VersionKnown, KindKnown, ReleaseKnown, UpgradePrepared, EtcdChart, At
<1>4. ASSUME NEW size \in config.sizes, Edit(size) PROVE ReleaseInv'
  <2>1. /\ UNCHANGED <<config, rec, release, sts, pvcs, saved, sseen, faults, upgrades>> /\ due' = TRUE
        /\ edits < MaxEdits /\ edits' = edits + 1 /\ spec' = [spec EXCEPT !.size = size]
    BY <1>4 DEF Edit, objects
  <2>2. edits' \in 0..MaxEdits
    <3>1. edits \in 0..MaxEdits /\ MaxEdits \in Nat
      BY <1>a, ReleaseAssumption DEF TypeOK
    <3> QED
      BY <2>1, <3>1, CountedStep
  <2>3. spec' \in [size: config.sizes, chart: {"", "v6", "v8"}] /\ spec'.chart = spec.chart
    BY <1>a, <2>1 DEF TypeOK
  <2>4. TypeOK'
    BY ZenonT(120), <1>a, <2>1, <2>2, <2>3 DEF TypeOK, ReleaseType, Ordinals
  <2> QED
    BY <2>1, <2>3, <2>4 DEF ReleaseInv, VersionKnown, KindKnown, ReleaseKnown, UpgradePrepared, EtcdChart, At, Applies
<1> QED
  BY <1>1, <1>2, <1>3, <1>4 DEF Cluster

-----------------------------------------------------------------------------
\* Every step, and stuttering, keeps the invariant.
LEMMA ReleaseStep == ReleaseInv /\ [Next]_vars => ReleaseInv'
<1>1. ReleaseInv /\ UNCHANGED vars => ReleaseInv'
  <2> SUFFICES ASSUME ReleaseInv, UNCHANGED vars PROVE ReleaseInv'
    OBVIOUS
  <2>1. UNCHANGED <<config, spec, due, rec, release, sts, pvcs, saved, sseen, edits, faults, upgrades>>
    BY DEF vars, objects, counts
  <2>2. TypeOK'
    BY ZenonT(120), <2>1 DEF ReleaseInv, TypeOK, ReleaseType, Ordinals
  <2> QED
    BY <2>1, <2>2 DEF ReleaseInv, VersionKnown, KindKnown, ReleaseKnown, UpgradePrepared, EtcdChart, At, Applies
<1> QED
  BY <1>1, StartInv, EnsureInv, ReconcileInv, HelmInv, OthersInv DEF Next, Reconcile

\* A step that changes the release keeps its chart: Update asks for the chart of
\* the release, and the end of a Helm operation only changes its status.
LEMMA ChartStep ==
  ReleaseInv /\ [Next]_vars => [release # None => release' # None /\ release'.chart = release.chart]_vars
<1> SUFFICES ASSUME ReleaseInv, Next, release # None
             PROVE  release' # None /\ release'.chart = release.chart
  OBVIOUS
<1>1. CASE Install
  BY <1>1 DEF Install, ReleaseInv, ReleaseKnown
<1>2. CASE Update
  <2>1. rec.step = "update"
    BY <1>2 DEF Update, At
  <2> QED
    BY <1>2, <2>1, RevisionKept, RequestedChartKept DEF Update
<1>3. CASE HelmDone \/ HelmFails
  <2>1. release' \in ReleaseType /\ release'.chart = release.chart
    BY ZenonT(60), <1>3 DEF HelmDone, HelmFails, ReleaseInv, TypeOK, ReleaseType
  <2> QED
    BY <2>1, NoneType DEF ReleaseInv, TypeOK
<1>4. CASE ~(Install \/ Update \/ HelmDone \/ HelmFails)
  <2>1. UNCHANGED release
    BY <1>4 DEF Next, Reconcile, Cluster, objects, StartReconcile, EnsureEtcdChartVersion, Compare,
       GetStatefulSet, UpdatePVC, DeleteSaved, SaveObject, DeleteStatefulSet, WaitForStatefulSetDeletion,
       CreateNewStatefulSet, CallFails, Crash, Resync, OrphanPods, SyncCache, CreatePVC, Edit
  <2> QED
    BY <2>1
<1> QED
  BY <1>1, <1>2, <1>3, <1>4

\* The invariant holds in every reachable state of the release reconcile
\* (ReconcileHelm, dependencies.go), and with it the types.
THEOREM ReleaseInvariant == Spec => []ReleaseInv
BY ReleaseInit, ReleaseStep, PTL DEF Spec

\* A release is never moved to another chart by the operator (LocalHelmReconciler.Reconcile),
\* for every number of replicas, edits and faults.
THEOREM ChartIsKept == Spec => ChartKept
<1>1. Spec => []ReleaseInv /\ [][Next]_vars
  BY ReleaseInvariant, PTL DEF Spec
<1> QED
  BY <1>1, ChartStep, PTL DEF ChartKept

\* Helm is only asked to upgrade an etcd whose StatefulSet needs no change that
\* the API server refuses (reconcilePVCs), whatever was interrupted before.
THEOREM UpgradeIsReady == Spec => []ReadyForUpgrade
<1>1. ReleaseInv => ReadyForUpgrade
  BY DEF ReleaseInv, UpgradePrepared, ReadyForUpgrade
<1> QED
  BY <1>1, ReleaseInvariant, PTL

-----------------------------------------------------------------------------
(* Upgrades are counted against the edits and the faults that ask for them. *)

\* The comparison of a release with the values for a size ends in an upgrade.
Behind(size) == release # None /\ (NeedUpdate \/ release.size # size)

\* Upgrades that are still to come: the one that the reconcile makes, and one
\* more when the spec has changed since the reconcile read it.
Owed ==
  IF At("idle") THEN IF Behind(spec.size) THEN 1 ELSE 0
  ELSE (IF Behind(rec.spec.size) THEN 1 ELSE 0) + (IF rec.spec.size # spec.size THEN 1 ELSE 0)

UpgradesOwed == upgrades + Owed <= edits + faults

\* The comparison still has the same result when the upgrade is made.
UpgradeDue ==
  rec.step \in {"sts", "pvcs", "forget", "save", "delete", "wait", "create", "update"} => Behind(rec.spec.size)

\* There is no StatefulSet before the first installation, which Helm therefore
\* never refuses.
InstalledFirst == release = None \/ At("installing") => sts = None

OwedInv == UpgradesOwed /\ UpgradeDue /\ InstalledFirst

\* The counters are numbers.
LEMMA CountsNat ==
  ASSUME TypeOK
  PROVE  upgrades \in Nat /\ edits \in Nat /\ faults \in Nat
<1>1. edits \in 0..MaxEdits /\ faults \in 0..MaxFaults /\ upgrades \in Nat
  BY DEF TypeOK
<1>2. MaxEdits \in Nat /\ MaxFaults \in Nat
  BY ReleaseAssumption
<1> QED
  BY SMT, <1>1, <1>2

\* The reconcile goes on with the spec it has read.
LEMMA GotoSteps ==
  ASSUME TypeOK, NEW s, Goto(s)
  PROVE  rec'.step = s /\ rec'.spec = rec.spec
BY DEF Goto, TypeOK

\* A reconcile that ends owes no more than it did, unless a fault is counted.
LEMMA EndOwes ==
  ASSUME TypeOK, OwedInv, ~At("idle"), Goto("idle"), spec' = spec, upgrades' = upgrades, edits' = edits,
         \/ faults' = faults + 1
         \/ faults' = faults /\ (release' = release \/ (release # None /\ release'.status # "failed"
                                                          /\ release'.size = release.size)),
         release' = None => sts' = None
  PROVE  OwedInv'
<1>1. upgrades \in Nat /\ edits \in Nat /\ faults \in Nat
  BY CountsNat
<1>2. rec'.step = "idle" /\ rec'.spec = rec.spec
  BY GotoSteps
<1>3. UpgradeDue' /\ InstalledFirst'
  BY <1>2 DEF UpgradeDue, InstalledFirst, At
<1>4. upgrades + Owed <= edits + faults
  BY DEF OwedInv, UpgradesOwed
<1>5. Owed' = IF Behind(spec.size)' THEN 1 ELSE 0
  BY <1>2 DEF Owed, At
<1>6. Owed = (IF Behind(rec.spec.size) THEN 1 ELSE 0) + (IF rec.spec.size # spec.size THEN 1 ELSE 0)
  BY DEF Owed
<1>7. CASE faults' = faults + 1
  BY SMT, <1>1, <1>4, <1>5, <1>6, <1>7, <1>3 DEF OwedInv, UpgradesOwed
<1>8. CASE faults' = faults /\ (release' = release \/ (release # None /\ release'.status # "failed"
                                                         /\ release'.size = release.size))
  <2>1. Behind(spec.size)' => Behind(rec.spec.size) \/ rec.spec.size # spec.size
    BY <1>8 DEF Behind, NeedUpdate
  <2> QED
    BY SMT, <1>1, <1>4, <1>5, <1>6, <1>8, <1>3, <2>1 DEF OwedInv, UpgradesOwed
<1> QED
  BY <1>7, <1>8

\* A step within a reconcile that leaves the release alone owes the same.
LEMMA StepOwes ==
  ASSUME OwedInv, ~At("idle"), ~At("idle")', rec'.spec.size = rec.spec.size, spec'.size = spec.size,
         UNCHANGED <<release, edits, faults, upgrades>>, UpgradeDue', InstalledFirst'
  PROVE  OwedInv'
<1>1. Owed' = Owed
  BY DEF Owed, Behind, NeedUpdate
<1> QED
  BY <1>1 DEF OwedInv, UpgradesOwed

\* The start of a reconcile, and the version that ensureEtcdChartVersion writes,
\* leave the sizes alone.
LEMMA StartOwes ==
  ASSUME ReleaseInv, OwedInv, StartReconcile \/ EnsureEtcdChartVersion
  PROVE  OwedInv'
<1>a. TypeOK
  BY DEF ReleaseInv
<1>1. UNCHANGED <<release, sts, edits, faults, upgrades>>
  BY DEF StartReconcile, EnsureEtcdChartVersion, objects, counts
<1>2. CASE StartReconcile
  <2>1. At("idle") /\ spec' = spec /\ rec'.spec = spec /\ rec'.step \in {"chart", "compare"}
    BY <1>2 DEF StartReconcile
  <2>2. Owed' = Owed
    BY SMT, <1>1, <2>1 DEF Owed, Behind, NeedUpdate, At
  <2> QED
    BY <1>1, <2>1, <2>2 DEF OwedInv, UpgradesOwed, UpgradeDue, InstalledFirst, At
<1>3. CASE EnsureEtcdChartVersion
  <2>1. rec.step = "chart"
    BY <1>3 DEF EnsureEtcdChartVersion, At
  <2>2. CASE Goto("compare") /\ UNCHANGED spec
    <3>1. rec'.step = "compare" /\ rec'.spec = rec.spec
      BY <1>a, <2>2, GotoSteps
    <3> QED
      BY <1>1, <2>1, <2>2, <3>1, StepOwes DEF OwedInv, UpgradeDue, InstalledFirst, At
  <2>3. CASE /\ rec.spec = spec /\ spec' = [spec EXCEPT !.chart = DetectedVersion]
             /\ rec' = [spec |-> spec', step |-> "compare"]
    <3>1. spec'.size = spec.size
      BY <1>a, <2>3 DEF TypeOK
    <3>2. rec'.step = "compare" /\ rec'.spec.size = rec.spec.size
      BY <2>3, <3>1
    <3> QED
      BY <1>1, <2>1, <3>1, <3>2, StepOwes DEF OwedInv, UpgradeDue, InstalledFirst, At
  <2>4. CASE ReturnError /\ UNCHANGED spec
    BY <1>a, <1>1, <2>1, <2>4, EndOwes DEF ReturnError, At, OwedInv, InstalledFirst
  <2> QED
    BY <1>3, <2>2, <2>3, <2>4 DEF EnsureEtcdChartVersion
<1> QED
  BY <1>2, <1>3

\* What the comparison finds stays so through reconcilePVCs.
LEMMA ReconcileOwes ==
  ASSUME ReleaseInv, OwedInv,
         Compare \/ GetStatefulSet \/ UpdatePVC \/ DeleteSaved \/ SaveObject \/ DeleteStatefulSet
           \/ WaitForStatefulSetDeletion \/ CreateNewStatefulSet
  PROVE  OwedInv'
<1>a. TypeOK /\ ReleaseKnown
  BY DEF ReleaseInv
<1>1. UNCHANGED <<spec, release, edits, faults, upgrades>>
  BY DEF Compare, GetStatefulSet, UpdatePVC, DeleteSaved, SaveObject, DeleteStatefulSet,
         WaitForStatefulSetDeletion, CreateNewStatefulSet, objects, counts
<1>2. CASE Compare
  <2>1. rec.step = "compare" /\ sts' = sts
    BY <1>2 DEF Compare, At, objects
  <2>2. CASE release = None /\ Goto("install")
    <3>1. rec'.step = "install" /\ rec'.spec = rec.spec
      BY <1>a, <2>2, GotoSteps
    <3> QED
      BY <1>1, <2>1, <3>1, StepOwes DEF OwedInv, UpgradeDue, InstalledFirst, At
  <2>3. CASE Return
    BY <1>a, <1>1, <2>1, <2>3, EndOwes DEF Return, At, OwedInv, InstalledFirst
  <2>4. CASE /\ release # None /\ ~(SameValues /\ ~NeedUpdate)
             /\ Goto(IF config.kind = "etcd" THEN "sts" ELSE "update")
    <3>1. rec'.step \in {"sts", "update"} /\ rec'.spec = rec.spec
      BY <1>a, <2>4, GotoSteps
    <3>2. Behind(rec.spec.size)'
      BY <1>1, <2>4, <3>1 DEF Behind, NeedUpdate, SameValues
    <3> QED
      BY <1>1, <2>1, <3>1, <3>2, StepOwes DEF OwedInv, UpgradeDue, InstalledFirst, At
  <2> QED
    BY <1>2, <2>2, <2>3, <2>4 DEF Compare
<1>3. CASE ~Compare
  <2>1. rec.step \in {"sts", "pvcs", "forget", "save", "delete", "wait", "create"}
    BY <1>3 DEF GetStatefulSet, UpdatePVC, DeleteSaved, SaveObject, DeleteStatefulSet,
         WaitForStatefulSetDeletion, CreateNewStatefulSet, At
  <2>2. Behind(rec.spec.size) /\ release # None
    BY <2>1 DEF OwedInv, UpgradeDue, Behind
  <2>3. \/ Goto("idle") \/ rec' = rec
        \/ \E s \in {"update", "pvcs", "forget", "save", "delete", "wait", "create"} : Goto(s)
    <3>1. GetStatefulSet => Goto("update") \/ Goto("pvcs")
      BY DEF GetStatefulSet
    <3>2. UpdatePVC => Goto("forget") \/ rec' = rec \/ Goto("idle")
      BY DEF UpdatePVC, ReturnError
    <3>3. DeleteStatefulSet => Goto("wait") \/ Goto("idle")
      BY DEF DeleteStatefulSet, ReturnError
    <3>4. DeleteSaved \/ SaveObject \/ WaitForStatefulSetDeletion \/ CreateNewStatefulSet
            => Goto("save") \/ Goto("delete") \/ Goto("create") \/ Goto("update")
      BY DEF DeleteSaved, SaveObject, WaitForStatefulSetDeletion, CreateNewStatefulSet
    <3> QED
      BY <1>3, <3>1, <3>2, <3>3, <3>4
  <2>4. CASE Goto("idle")
    BY <1>a, <1>1, <2>1, <2>2, <2>4, EndOwes DEF At
  <2>5. CASE ~Goto("idle")
    <3>1. /\ rec'.step \in {"sts", "update", "pvcs", "forget", "save", "delete", "wait", "create"}
          /\ rec'.spec = rec.spec
      BY <1>a, <2>1, <2>3, <2>5, GotoSteps
    <3>2. UpgradeDue'
      BY <1>1, <2>2, <3>1 DEF UpgradeDue, Behind, NeedUpdate
    <3>3. InstalledFirst'
      BY <1>1, <2>2, <3>1 DEF InstalledFirst, At
    <3> QED
      BY <1>1, <2>1, <3>1, <3>2, <3>3, StepOwes DEF At
  <2> QED
    BY <2>4, <2>5
<1> QED
  BY <1>2, <1>3

\* The operations of Helm.  An upgrade is one that was owed; an operation that
\* fails counts as a fault, since what is there never makes Helm refuse.
LEMMA HelmOwes ==
  ASSUME ReleaseInv, OwedInv, Install \/ Update \/ HelmDone \/ HelmFails
  PROVE  OwedInv'
<1>a. TypeOK /\ ReleaseKnown /\ UpgradePrepared
  BY DEF ReleaseInv
<1>b. upgrades \in Nat /\ edits \in Nat /\ faults \in Nat
  BY <1>a, CountsNat
<1>c. upgrades + Owed <= edits + faults
  BY DEF OwedInv, UpgradesOwed
<1>1. CASE Install
  <2>1. /\ rec.step = "install" /\ release' = Revision("true") /\ Goto("installing")
        /\ UNCHANGED <<spec, sts, edits, faults, upgrades>>
    BY <1>1 DEF Install, At, counts
  <2>2. rec'.step = "installing" /\ rec'.spec = rec.spec
    BY <1>a, <2>1, GotoSteps
  <2>3. release = None /\ sts = None
    BY <1>a, <2>1 DEF ReleaseKnown, At, OwedInv, InstalledFirst
  <2>4. release'.size = rec.spec.size /\ release'.status = "pending"
    BY <2>1 DEF Revision
  <2>5. ~Behind(rec.spec.size)'
    BY <2>2, <2>4 DEF Behind, NeedUpdate
  <2>6. Owed' = IF rec.spec.size # spec.size THEN 1 ELSE 0
    BY SMT, <2>1, <2>2, <2>5 DEF Owed, At
  <2>7. Owed = IF rec.spec.size # spec.size THEN 1 ELSE 0
    BY SMT, <2>1, <2>3 DEF Owed, At, Behind
  <2> QED
    BY <1>c, <2>1, <2>2, <2>3, <2>6, <2>7 DEF OwedInv, UpgradesOwed, UpgradeDue, InstalledFirst
<1>2. CASE Update
  <2>1. rec.step = "update" /\ UNCHANGED <<spec, sts, edits, faults>> /\ release # None
    BY <1>2, <1>a DEF Update, At, ReleaseKnown
  <2>2. CASE ReturnError /\ UNCHANGED <<release, upgrades>>
    BY <1>a, <2>1, <2>2, EndOwes DEF ReturnError, At
  <2>3. CASE release' = Revision("false") /\ Goto("updating") /\ upgrades' = upgrades + 1
    <3>1. rec'.step = "updating" /\ rec'.spec = rec.spec
      BY <1>a, <2>3, GotoSteps
    <3>2. release'.size = rec.spec.size /\ release'.status = "pending"
      BY <2>3 DEF Revision
    <3>3. release' # None
      BY <2>1, <2>3, RevisionKept
    <3>4. ~Behind(rec.spec.size)' /\ Behind(rec.spec.size)
      BY <2>1, <3>1, <3>2 DEF Behind, NeedUpdate, OwedInv, UpgradeDue
    <3>5. Owed' = IF rec.spec.size # spec.size THEN 1 ELSE 0
      BY SMT, <2>1, <3>1, <3>4 DEF Owed, At
    <3>6. Owed = 1 + (IF rec.spec.size # spec.size THEN 1 ELSE 0)
      BY <2>1, <3>4 DEF Owed, At
    <3>7. UpgradesOwed'
      BY SMT, <1>b, <1>c, <2>1, <2>3, <3>5, <3>6 DEF UpgradesOwed
    <3> QED
      BY <3>1, <3>3, <3>7 DEF OwedInv, UpgradeDue, InstalledFirst, At
  <2> QED
    BY <1>2, <2>2, <2>3 DEF Update
<1>3. CASE HelmDone \/ HelmFails
  <2>1. /\ rec.step \in {"installing", "updating"} /\ release # None /\ Goto("idle")
        /\ UNCHANGED <<spec, edits, upgrades>>
    BY <1>3, <1>a DEF HelmDone, HelmFails, InHelm, At, ReleaseKnown, counts, Return, ReturnError
  <2>2. Applies
    BY <1>a, <2>1 DEF UpgradePrepared, OwedInv, InstalledFirst, Applies, At
  <2>3. release' \in ReleaseType /\ release'.size = release.size
    BY ZenonT(60), <1>3, <1>a, <2>1 DEF HelmDone, HelmFails, TypeOK, ReleaseType
  <2>4. release' # None
    BY <1>a, <2>3, NoneType DEF TypeOK
  <2>5. CASE HelmDone
    <3>1. release'.status = "deployed" /\ faults' = faults
      BY <2>5, <1>a, <2>1 DEF HelmDone, TypeOK, ReleaseType, counts
    <3> QED
      BY <1>a, <2>1, <2>3, <2>4, <3>1, EndOwes DEF At
  <2>6. CASE HelmFails
    <3>1. faults' = faults + 1
      BY <2>2, <2>6 DEF HelmFails
    <3> QED
      BY <1>a, <2>1, <2>4, <3>1, EndOwes DEF At
  <2> QED
    BY <1>3, <2>5, <2>6
<1> QED
  BY <1>1, <1>2, <1>3

\* Users, faults and the cluster: an edit adds one upgrade at most.
LEMMA OthersOwe ==
  ASSUME ReleaseInv, OwedInv, CallFails \/ Crash \/ Resync \/ Cluster \/ \E size \in config.sizes : Edit(size)
  PROVE  OwedInv'
<1>a. TypeOK
  BY DEF ReleaseInv
<1>b. upgrades \in Nat /\ edits \in Nat /\ faults \in Nat
  BY <1>a, CountsNat
<1>c. upgrades + Owed <= edits + faults
  BY DEF OwedInv, UpgradesOwed
<1>1. CASE CallFails \/ Crash
  <2>1. /\ UNCHANGED <<spec, release, sts, edits, upgrades>> /\ Goto("idle") /\ ~At("idle")
        /\ faults' = faults + 1
    BY <1>1 DEF CallFails, Crash, objects, ReturnError
  <2> QED
    BY <1>a, <2>1, EndOwes DEF OwedInv, InstalledFirst
<1>2. CASE Resync \/ Cluster
  <2>1. UNCHANGED <<spec, rec, release, edits, faults, upgrades>> /\ sts' \in {sts, None}
    BY <1>2 DEF Resync, Cluster, OrphanPods, SyncCache, CreatePVC, objects, counts
  <2>2. Owed' = Owed
    BY <2>1 DEF Owed, Behind, NeedUpdate, At
  <2> QED
    BY <2>1, <2>2 DEF OwedInv, UpgradesOwed, UpgradeDue, InstalledFirst, Behind, NeedUpdate, At
<1>3. ASSUME NEW size \in config.sizes, Edit(size) PROVE OwedInv'
  <2>1. UNCHANGED <<rec, release, sts, faults, upgrades>> /\ edits' = edits + 1
    BY <1>3 DEF Edit, objects
  <2>2. Owed' \in {0, 1, 2} /\ Owed \in {0, 1, 2} /\ Owed' <= Owed + 1
    <3>1. CASE At("idle")
      <4>1. Owed' = (IF Behind(spec.size)' THEN 1 ELSE 0) /\ Owed = (IF Behind(spec.size) THEN 1 ELSE 0)
        BY <2>1, <3>1 DEF Owed, At
      <4> QED
        BY SMT, <4>1
    <3>2. CASE ~At("idle")
      <4>1. Behind(rec.spec.size)' = Behind(rec.spec.size)
        BY <2>1 DEF Behind, NeedUpdate
      <4>2. /\ Owed' = (IF Behind(rec.spec.size) THEN 1 ELSE 0) + (IF rec.spec.size # spec'.size THEN 1 ELSE 0)
            /\ Owed = (IF Behind(rec.spec.size) THEN 1 ELSE 0) + (IF rec.spec.size # spec.size THEN 1 ELSE 0)
        BY <2>1, <3>2, <4>1 DEF Owed, At
      <4> QED
        BY SMT, <4>2
    <3> QED
      BY <3>1, <3>2
  <2>3. UpgradesOwed'
    <3>1. Owed \in Nat /\ Owed' \in Nat /\ Owed' <= Owed + 1
      BY SMT, <2>2
    <3>2. upgrades + Owed' <= edits + 1 + faults
      <4>1. \A u, e, f, o, p \in Nat : u + o <= e + f /\ p <= o + 1 => u + p <= e + 1 + f
        BY SMT
      <4> QED
        BY <1>b, <1>c, <3>1, <4>1
    <3> QED
      BY <2>1, <3>2 DEF UpgradesOwed
  <2> QED
    BY <2>1, <2>3 DEF OwedInv, UpgradeDue, InstalledFirst, Behind, NeedUpdate, At
<1> QED
  BY <1>1, <1>2, <1>3

\* Every step, and stuttering, keeps the count.
LEMMA OwedStep == ReleaseInv /\ OwedInv /\ [Next]_vars => OwedInv'
<1> SUFFICES ASSUME ReleaseInv, OwedInv, [Next]_vars PROVE OwedInv'
  OBVIOUS
<1>1. CASE UNCHANGED vars
  <2>1. UNCHANGED <<spec, rec, release, sts, edits, faults, upgrades>>
    BY <1>1 DEF vars, objects, counts
  <2> QED
    BY <2>1 DEF OwedInv, UpgradesOwed, Owed, UpgradeDue, InstalledFirst, Behind, NeedUpdate, At
<1> QED
  BY <1>1, StartOwes, ReconcileOwes, HelmOwes, OthersOwe DEF Next, Reconcile

\* At first the release, if there is one, is as the spec says.
LEMMA OwedInit == Init => OwedInv
<1> SUFFICES ASSUME Init PROVE OwedInv
  OBVIOUS
<1>1. PICK size \in config.sizes :
        LET new == config.chart = None
            etcd == config.kind = "etcd"
        IN  /\ spec = [size |-> size, chart |-> IF new /\ etcd THEN "v8" ELSE ""]
            /\ release = IF new THEN None
                         ELSE [size |-> size, chart |-> config.chart, status |-> "deployed",
                               initialize |-> IF config.kind = "pulsar" THEN "true" ELSE "unset"]
            /\ sts = IF new \/ ~etcd THEN None ELSE Template(size)
            /\ pvcs = [i \in Ordinals |-> IF new \/ ~etcd THEN 0 ELSE size]
  BY DEF Init
<1>2. rec.step = "idle" /\ upgrades = 0 /\ edits = 0 /\ faults = 0
  BY DEF Init
<1>3. release # None => config.chart # None /\ release.size = size /\ release.status = "deployed"
  BY <1>1
<1>4. spec.size = size
  BY <1>1
<1>5. ~Behind(spec.size)
  BY <1>3, <1>4 DEF Behind, NeedUpdate
<1>6. UpgradesOwed
  BY SMT, <1>2, <1>5 DEF UpgradesOwed, Owed, At
<1>7. release = None => sts = None
  <2>1. config \in Configs
    BY DEF Init
  <2>2. CASE config.chart = None
    BY <1>1, <2>2
  <2>3. CASE config.chart # None
    <3>1. config.chart \in Charts
      BY <2>1, <2>3, ReleaseAssumption DEF Charts
    <3>2. release \in ReleaseType
      BY <1>1, <2>3, <3>1 DEF ReleaseType
    <3> QED
      BY <2>1, <3>2, NoneType
  <2> QED
    BY <2>2, <2>3
<1> QED
  BY <1>2, <1>6, <1>7 DEF OwedInv, UpgradeDue, InstalledFirst, At

\* A release is upgraded no more often than the spec is edited and a call, an
\* operation or the operator fails (LocalHelmReconciler.Reconcile), for every
\* number of edits and faults: what Helm is asked for is not compared with what
\* the operator adds itself.
THEOREM UpgradesAlwaysBounded == Spec => []UpgradesBounded
<1>1. Spec => [](ReleaseInv /\ OwedInv)
  <2>1. Init => ReleaseInv /\ OwedInv
    BY ReleaseInit, OwedInit
  <2>2. ReleaseInv /\ OwedInv /\ [Next]_vars => (ReleaseInv /\ OwedInv)'
    BY ReleaseStep, OwedStep
  <2> QED
    BY <2>1, <2>2, PTL DEF Spec
<1>2. ReleaseInv /\ OwedInv => UpgradesBounded
  <2> SUFFICES ASSUME TypeOK, OwedInv PROVE UpgradesBounded
    BY DEF ReleaseInv
  <2>1. upgrades \in Nat /\ edits \in Nat /\ faults \in Nat
    BY CountsNat
  <2>2. Owed \in Nat
    BY SMT DEF Owed
  <2> QED
    BY SMT, <2>1, <2>2 DEF OwedInv, UpgradesOwed, UpgradesBounded
<1> QED
  BY <1>1, <1>2, PTL
=============================================================================
