------------------------- MODULE EndpointCheckCache -------------------------
(***************************************************************************)
(* The probes of the dependencies (GetCondition, conditions.go) and the    *)
(* cache through which they share locks and answers                        *)
(* (endpoint_check_cache.go).  A prober is the goroutine that asks for one *)
(* dependency of one instance; instances that share a dependency have      *)
(* probers with the same endpoints.  The loops of the status syncer start  *)
(* their probers together and wait for all of them.                        *)
(*                                                                         *)
(* The lock of a list of endpoints is a pointer kept in the cache: it is   *)
(* named here after the prober that allocated it.  Every access to the     *)
(* cache or to a lock is a step, since the cache locks only for one access.*)
(***************************************************************************)
EXTENDS Integers, FiniteSets

CONSTANTS
  Probers, Loops,
  Endpoints,    \* lists of endpoints, as keys of the cache
  Empty,        \* the list without endpoints
  Target,       \* the endpoints a prober asks for
  LoopOf,       \* the loop that starts it
  None          \* not in the cache

ASSUME CacheAssumption ==
  /\ IsFiniteSet(Probers)
  /\ Target \in [Probers -> Endpoints] /\ LoopOf \in [Probers -> Loops]
  /\ None \notin Probers

VARIABLES
  pc,           \* where each prober is
  hand,         \* the lock it has looked up, until it uses it
  answer,       \* what its probe found, until it is set
  lockOf,       \* the lock in the cache for each list
  locked,       \* the locks whose value is 1
  made,         \* the locks allocated so far
  cond,         \* the condition in the cache for each list
  healthy       \* whether the endpoints answer

cacheVars == <<pc, hand, answer, lockOf, locked, made, cond, healthy>>

Conditions == {"true", "false"}
Steps ==
  {"idle", "lookup", "install", "again", "swap", "get", "backoff", "probe", "set", "end", "unlock"}

CacheTypeOK ==
  /\ pc \in [Probers -> Steps]
  /\ hand \in [Probers -> Probers \cup {None}]
  /\ answer \in [Probers -> Conditions \cup {None}]
  /\ lockOf \in [Endpoints -> Probers \cup {None}]
  /\ locked \subseteq made /\ made \subseteq Probers
  /\ cond \in [Endpoints -> Conditions \cup {None}]
  /\ healthy \in [Endpoints -> BOOLEAN]

\* The operator has just started.
CacheInit ==
  /\ pc = [p \in Probers |-> "idle"]
  /\ hand = [p \in Probers |-> None]
  /\ answer = [p \in Probers |-> None]
  /\ lockOf = [e \in Endpoints |-> None]
  /\ locked = {} /\ made = {}
  /\ cond = [e \in Endpoints |-> None]
  /\ healthy \in [Endpoints -> BOOLEAN]

At(p, step) == pc[p] = step
Goto(p, step) == pc' = [pc EXCEPT ![p] = step]

-----------------------------------------------------------------------------
(* A round of a loop: RunDiffArgs starts the next one when all have ended.  *)

StartRound(l) ==
  /\ \A p \in Probers : LoopOf[p] = l => At(p, "idle")
  /\ pc' = [p \in Probers |-> IF LoopOf[p] = l THEN "lookup" ELSE pc[p]]
  /\ UNCHANGED <<hand, answer, lockOf, locked, made, cond, healthy>>

-----------------------------------------------------------------------------
(* TryStartProbeFor.                                                        *)

LookupLock(p) ==
  /\ At(p, "lookup")
  /\ hand' = [hand EXCEPT ![p] = lockOf[Target[p]]]
  /\ Goto(p, IF lockOf[Target[p]] = None THEN "install" ELSE "swap")
  /\ UNCHANGED <<answer, lockOf, locked, made, cond, healthy>>

InstallLock(p) ==
  /\ At(p, "install")
  /\ made' = made \cup {p}
  /\ lockOf' = [lockOf EXCEPT ![Target[p]] = p]
  /\ Goto(p, "again")
  /\ UNCHANGED <<hand, answer, locked, cond, healthy>>

LookupAgain(p) ==
  /\ At(p, "again")
  /\ hand' = [hand EXCEPT ![p] = lockOf[Target[p]]]
  /\ Goto(p, "swap")
  /\ UNCHANGED <<answer, lockOf, locked, made, cond, healthy>>

\* Mutant: the value is stored without being compared.
MutantCompareAndSwap(p) ==
  /\ At(p, "swap")
  /\ locked' = locked \cup {hand[p]}
  /\ Goto(p, "probe")
  /\ hand' = [hand EXCEPT ![p] = None]
  /\ UNCHANGED <<answer, lockOf, made, cond, healthy>>

CompareAndSwap(p) ==
  /\ At(p, "swap")
  /\ locked' = locked \cup {hand[p]}
  /\ Goto(p, IF hand[p] \in locked THEN "get" ELSE "probe")
  /\ hand' = [hand EXCEPT ![p] = None]
  /\ UNCHANGED <<answer, lockOf, made, cond, healthy>>

-----------------------------------------------------------------------------
(* GetCondition.                                                            *)

Found(e) == e # Empty /\ cond[e] # None

\* The lock is taken: the answer of an earlier probe does, or the prober waits.
GetCached(p) ==
  /\ At(p, "get")
  /\ Goto(p, IF Found(Target[p]) THEN "idle" ELSE "backoff")
  /\ UNCHANGED <<hand, answer, lockOf, locked, made, cond, healthy>>

BackedOff(p) ==
  /\ At(p, "backoff") /\ Goto(p, "lookup")
  /\ UNCHANGED <<hand, answer, lockOf, locked, made, cond, healthy>>

Probe(p) ==
  /\ At(p, "probe")
  /\ answer' = [answer EXCEPT ![p] = IF healthy[Target[p]] THEN "true" ELSE "false"]
  /\ Goto(p, "set")
  /\ UNCHANGED <<hand, lockOf, locked, made, cond, healthy>>

\* Mutant: an answer in the cache is kept.
MutantSetCondition(p) ==
  /\ At(p, "set")
  /\ cond' = IF Target[p] = Empty \/ Found(Target[p]) THEN cond ELSE [cond EXCEPT ![Target[p]] = answer[p]]
  /\ answer' = [answer EXCEPT ![p] = None]
  /\ Goto(p, "end")
  /\ UNCHANGED <<hand, lockOf, locked, made, healthy>>

\* Mutant: only a good answer is kept.
MutantSetGood(p) ==
  /\ At(p, "set")
  /\ cond' = IF Target[p] = Empty \/ answer[p] = "false" THEN cond ELSE [cond EXCEPT ![Target[p]] = answer[p]]
  /\ answer' = [answer EXCEPT ![p] = None]
  /\ Goto(p, "end")
  /\ UNCHANGED <<hand, lockOf, locked, made, healthy>>

SetCondition(p) ==
  /\ At(p, "set")
  /\ cond' = IF Target[p] = Empty THEN cond ELSE [cond EXCEPT ![Target[p]] = answer[p]]
  /\ answer' = [answer EXCEPT ![p] = None]
  /\ Goto(p, "end")
  /\ UNCHANGED <<hand, lockOf, locked, made, healthy>>

\* EndProbeFor looks the lock up again, and releases what it finds.
EndProbe(p) ==
  /\ At(p, "end")
  /\ hand' = [hand EXCEPT ![p] = IF Target[p] = Empty THEN None ELSE lockOf[Target[p]]]
  /\ Goto(p, IF Target[p] = Empty THEN "idle" ELSE "unlock")
  /\ UNCHANGED <<answer, lockOf, locked, made, cond, healthy>>

Unlock(p) ==
  /\ At(p, "unlock")
  /\ locked' = locked \ {hand[p]}
  /\ hand' = [hand EXCEPT ![p] = None]
  /\ Goto(p, "idle")
  /\ UNCHANGED <<answer, lockOf, made, cond, healthy>>

-----------------------------------------------------------------------------
\* A dependency goes down or comes back.
HealthChanges(e) ==
  /\ healthy' = [healthy EXCEPT ![e] = ~@]
  /\ UNCHANGED <<pc, hand, answer, lockOf, locked, made, cond>>

GetCondition(p) ==
  \/ LookupLock(p) \/ InstallLock(p) \/ LookupAgain(p) \/ CompareAndSwap(p)
  \/ GetCached(p) \/ BackedOff(p)
  \/ Probe(p) \/ SetCondition(p) \/ EndProbe(p) \/ Unlock(p)

CacheNext ==
  \/ \E l \in Loops : StartRound(l)
  \/ \E p \in Probers : GetCondition(p)
  \/ \E e \in Endpoints : HealthChanges(e)

CacheSpec == CacheInit /\ [][CacheNext]_cacheVars

\* Goroutines are scheduled, probes have time limits, and the ticker of a loop
\* starts it again.
FairCacheSpec ==
  /\ CacheSpec
  /\ \A l \in Loops : WF_cacheVars(StartRound(l))
  /\ \A p \in Probers : WF_cacheVars(GetCondition(p))

-----------------------------------------------------------------------------
(* Properties.                                                              *)

Probing(e) == {p \in Probers : Target[p] = e /\ pc[p] \in {"probe", "set", "end", "unlock"}}
LocksOf(e) == {p \in made : Target[p] = e}

\* As many probers probe the same endpoints as locks were allocated for them,
\* no more: a lock replaced in the cache while it is held, and the release of
\* a lock another prober holds, add no more than the first race did.  With one
\* lock TryStartProbeFor excludes.
ProbesBounded == \A e \in Endpoints : Cardinality(Probing(e)) <= Cardinality(LocksOf(e))

\* When the endpoints keep answering, or keep failing, the cached condition
\* says so in the end: no late Set and no answer served from the cache hides it.
CacheCatchesUp ==
  \A p \in Probers :
    /\ <>[]healthy[Target[p]] => <>[](cond[Target[p]] = "true")
    /\ <>[]~healthy[Target[p]] => <>[](cond[Target[p]] = "false")

\* Every loop comes to the end of its round again and again: no GetCondition
\* waits for ever for a lock.
RoundsEnd == \A l \in Loops : []<>(\A p \in Probers : LoopOf[p] = l => At(p, "idle"))

\* GetCondition waits for a prober only while the first answer is missing.
BackoffOnlyAtStart == <>[](\A p \in Probers : ~At(p, "backoff"))
=============================================================================
