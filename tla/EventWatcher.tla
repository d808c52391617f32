--------------------------- MODULE EventWatcher ---------------------------
(***************************************************************************)
(* The event watcher (internal/controller/event_watcher.go) with its       *)
(* in-memory deduplication (dedup.go) and policy resolution                *)
(* (diagnosispolicy_controller.go): from a Warning event to one            *)
(* KscribeDiagnosis CR.                                                    *)
(*                                                                         *)
(* One worker (the controller keeps the default of one) takes an event     *)
(* from the workqueue, asks the Deduper, resolves the policy and creates   *)
(* the CR, or completes the metadata of one that exists.  Calls to the API *)
(* server may fail, with or without effect; the process may restart and    *)
(* forget what it has seen; events expire; other writers change CRs.       *)
(***************************************************************************)
EXTENDS Integers, FiniteSets

CONSTANTS
    Events,       \* Warning events, by object
    Names,        \* dedup keys, which are also the names of the CRs
    Namespaces,
    NameOf,       \* NameOf[e]: EventKey and diagnosisName of e (by UID, or by
                  \* namespace/kind/name/reason when there is none)
    NamespaceOf,  \* NamespaceOf[e]
    ReasonOf,     \* ReasonOf[e]
    OperatorNS,   \* the operator's namespace, outside Namespaces if unset
    Policies,     \* Policies[ns]: the DiagnosisPolicy objects of ns
    CfgReasons,   \* EventReasonAllowlist of the operator's configuration
    TTL,          \* life of a dedup entry, in ticks (one hour)
    SweepThresh,  \* dedupSweepThresh
    MaxFaults,    \* bound on failed API calls
    MaxCrashes,   \* bound on restarts
    MaxForeign,   \* bound on other writers' changes to CRs
    Outlive       \* TRUE: an event outlives the backoff of its retries
                  \* (seconds, where the API server keeps events for an hour)

ASSUME WatcherAssumption ==
    /\ NameOf \in [Events -> Names]
    /\ NamespaceOf \in [Events -> Namespaces]
    /\ TTL \in Nat \ {0}
    /\ SweepThresh \in Nat
    /\ MaxFaults \in Nat
    /\ MaxCrashes \in Nat
    /\ MaxForeign \in Nat
    /\ Outlive \in BOOLEAN

VARIABLES
    life,     \* life[e]: "new", "live" or "gone" (expired)
    queue,    \* events in the workqueue
    delayed,  \* events waiting for the workqueue's backoff
    at,       \* at[e]: the worker's position in e, "idle" if it has none
    seen,     \* the Deduper's map: ticks until expiry, a function on keys
    cr,       \* cr[n]: the CR: "absent", "bare" (metadata missing), "filled"
    crCache,  \* crCache[n]: the informer cache's copy of it
    lag,      \* lag[n]: the cache has not received the latest version
    faults,
    crashes,
    foreign

input == <<life, queue, delayed>>
crs == <<cr, crCache, lag>>
spent == <<faults, crashes, foreign>>
vars == <<life, queue, delayed, at, seen, cr, crCache, lag, faults, crashes,
          foreign>>

-----------------------------------------------------------------------------
(* Policy resolution *)

\* The operator configuration as a policy: always enabled.
CfgPolicy == [enabled |-> TRUE, reasons |-> CfgReasons]

\* mergeWithConfig: what a policy leaves open comes from the configuration.
MergeWithConfig(p) ==
    [enabled |-> p.enabled # "false",
     reasons |-> IF p.reasons = {} THEN CfgReasons ELSE p.reasons]

\* Mutant: the operator's "default" goes before the namespace's policies.
ResolveDefaultFirst(ns) ==
    LET default == IF OperatorNS \in Namespaces \ {ns}
                   THEN {p \in Policies[OperatorNS] : p.name = "default"}
                   ELSE {}
        found == IF default # {} THEN default ELSE Policies[ns]
    IN  IF found = {} THEN {CfgPolicy} ELSE {MergeWithConfig(p) : p \in found}

\* ResolvePolicy: any policy of the event's namespace (the cache lists them
\* in no particular order), else the operator namespace's "default", else
\* the configuration.
ResolvePolicy(ns) ==
    LET default == IF OperatorNS \in Namespaces \ {ns}
                   THEN {p \in Policies[OperatorNS] : p.name = "default"}
                   ELSE {}
        found == IF Policies[ns] # {} THEN Policies[ns] ELSE default
    IN  IF found = {} THEN {CfgPolicy} ELSE {MergeWithConfig(p) : p \in found}

ReasonAllowed(reason, allowed) == allowed = {} \/ reason \in allowed

Accepts(p, e) == p.enabled /\ ReasonAllowed(ReasonOf[e], p.reasons)

-----------------------------------------------------------------------------
(* The Deduper *)

\* Mutant: an entry never expires.
FreshForever(n) == n \in DOMAIN seen

\* The entry is there and now is before its expiry.
Fresh(n) == n \in DOMAIN seen /\ seen[n] > 0

\* Mutant: nothing is ever swept.
NothingSwept == DOMAIN seen

\* Entries whose expiry has passed are swept when the map has grown large.
Swept ==
    IF Cardinality(DOMAIN seen) >= SweepThresh
    THEN {n \in DOMAIN seen : seen[n] >= 0}
    ELSE DOMAIN seen

\* Mutant: the entry lives a tick too long.
MarkTooLong(n) == [m \in Swept \cup {n} |-> IF m = n THEN TTL + 1 ELSE seen[m]]

\* The key is marked as seen for a TTL.
Mark(n) == [m \in Swept \cup {n} |-> IF m = n THEN TTL ELSE seen[m]]

-----------------------------------------------------------------------------
(* Reconcile and processEvent *)

Fault ==
    /\ faults < MaxFaults
    /\ faults' = faults + 1
    /\ UNCHANGED <<crashes, foreign>>

Goto(e, label) == at' = [at EXCEPT ![e] = label]

\* The worker takes an event and reads it; an expired one is ignored, and so
\* is one whose key was marked less than a TTL ago.
Begin(e) ==
    /\ e \in queue
    /\ \A f \in Events : at[f] = "idle"
    /\ queue' = queue \ {e}
    /\ \/ /\ life[e] = "gone" \/ Fresh(NameOf[e])
          /\ UNCHANGED <<at, seen>>
       \/ /\ life[e] = "live"
          /\ ~Fresh(NameOf[e])
          /\ seen' = Mark(NameOf[e])
          /\ Goto(e, "resolve")
    /\ UNCHANGED <<life, delayed, crs, spent>>

Resolve(e) ==
    /\ at[e] = "resolve"
    /\ \E p \in ResolvePolicy(NamespaceOf[e]) :
          Goto(e, IF Accepts(p, e) THEN "create" ELSE "idle")
    /\ UNCHANGED <<input, seen, crs, spent>>

\* createDiagnosis: AlreadyExists leads to the backfill.
Create(e) ==
    /\ at[e] = "create"
    /\ \/ /\ cr[NameOf[e]] = "absent"
          /\ cr' = [cr EXCEPT ![NameOf[e]] = "filled"]
          /\ lag' = [lag EXCEPT ![NameOf[e]] = TRUE]
          /\ Goto(e, "idle")
       \/ /\ cr[NameOf[e]] # "absent"
          /\ Goto(e, "backfill")
          /\ UNCHANGED <<cr, lag>>
    /\ UNCHANGED <<input, seen, crCache, spent>>

\* Mutant: the backfill writes whatever version the API server has.
BackfillUnchecked(e) ==
    LET n == NameOf[e]
    IN  /\ at[e] = "backfill"
        /\ \/ crCache[n] # "bare" /\ UNCHANGED <<cr, lag>>
           \/ /\ crCache[n] = "bare"
              /\ cr' = [cr EXCEPT ![n] = "filled"]
              /\ lag' = [lag EXCEPT ![n] = TRUE]
        /\ Goto(e, "idle")
        /\ UNCHANGED <<input, seen, crCache, spent>>

\* backfillExistingDiagnosis, on the cached copy: nothing to do when it is
\* not there or complete; otherwise an update under the resourceVersion check.
Backfill(e) ==
    LET n == NameOf[e]
    IN  /\ at[e] = "backfill"
        /\ \/ crCache[n] # "bare" /\ UNCHANGED <<cr, lag>>
           \/ /\ crCache[n] = "bare"
              /\ ~lag[n]
              /\ cr' = [cr EXCEPT ![n] = "filled"]
              /\ lag' = [lag EXCEPT ![n] = TRUE]
        /\ Goto(e, "idle")
        /\ UNCHANGED <<input, seen, crCache, spent>>

\* An error from any of these calls: the event goes to the backoff.
Retry(e) == Goto(e, "idle") /\ delayed' = delayed \cup {e}

\* A call fails without effect.
CallFails(e) ==
    /\ at[e] # "idle"
    /\ Fault
    /\ Retry(e)
    /\ UNCHANGED <<life, queue, seen, crs>>

\* The create takes effect but its answer is lost.
CreateAnswerLost(e) ==
    /\ at[e] = "create"
    /\ cr[NameOf[e]] = "absent"
    /\ Fault
    /\ cr' = [cr EXCEPT ![NameOf[e]] = "filled"]
    /\ lag' = [lag EXCEPT ![NameOf[e]] = TRUE]
    /\ Retry(e)
    /\ UNCHANGED <<life, queue, seen, crCache>>

\* The backfill's update conflicts with a version the cache does not have.
BackfillConflict(e) ==
    /\ at[e] = "backfill"
    /\ crCache[NameOf[e]] = "bare"
    /\ lag[NameOf[e]]
    /\ Retry(e)
    /\ UNCHANGED <<life, queue, seen, crs, spent>>

-----------------------------------------------------------------------------
(* Environment *)

\* A Warning event is recorded, or recorded again (its count grows), or the
\* informer resyncs it: warningEventPredicate lets it through.
Observe(e) ==
    /\ life[e] # "gone"
    /\ life' = [life EXCEPT ![e] = "live"]
    /\ queue' = queue \cup {e}
    /\ UNCHANGED <<delayed, at, seen, crs, spent>>

\* The API server's event TTL; the predicate drops the delete notification.
Expire(e) ==
    /\ life[e] = "live"
    /\ Outlive => e \notin queue \cup delayed /\ at[e] = "idle"
    /\ life' = [life EXCEPT ![e] = "gone"]
    /\ UNCHANGED <<queue, delayed, at, seen, crs, spent>>

TimerFires(e) ==
    /\ e \in delayed
    /\ delayed' = delayed \ {e}
    /\ queue' = queue \cup {e}
    /\ UNCHANGED <<life, at, seen, crs, spent>>

\* The CR informer catches up.
Sync(n) ==
    /\ lag[n]
    /\ crCache' = [crCache EXCEPT ![n] = cr[n]]
    /\ lag' = [lag EXCEPT ![n] = FALSE]
    /\ UNCHANGED <<input, at, seen, cr, spent>>

\* The reconciler updates the CR's status, or the pruner deletes the CR.
ForeignWrite(n) ==
    /\ cr[n] # "absent"
    /\ foreign < MaxForeign
    /\ foreign' = foreign + 1
    /\ lag' = [lag EXCEPT ![n] = TRUE]
    /\ cr' \in {cr, [cr EXCEPT ![n] = "absent"]}
    /\ UNCHANGED <<input, at, seen, crCache, faults, crashes>>

\* A dedup entry counts down to its expiry and a tick beyond.
Tick ==
    /\ seen' = [n \in DOMAIN seen |-> IF seen[n] < 0 THEN seen[n] ELSE seen[n] - 1]
    /\ UNCHANGED <<input, at, crs, spent>>

\* Restart: the Deduper is empty and the informers list what exists.
Crash ==
    /\ crashes < MaxCrashes
    /\ crashes' = crashes + 1
    /\ queue' = {e \in Events : life[e] = "live"}
    /\ delayed' = {}
    /\ at' = [e \in Events |-> "idle"]
    /\ seen' = [n \in {} |-> 0]
    /\ crCache' = cr
    /\ lag' = [n \in Names |-> FALSE]
    /\ UNCHANGED <<life, cr, faults, foreign>>

-----------------------------------------------------------------------------
(* Specification *)

\* A CR of an older controller may be there already, without metadata.
Init ==
    /\ life = [e \in Events |-> "new"]
    /\ queue = {}
    /\ delayed = {}
    /\ at = [e \in Events |-> "idle"]
    /\ seen = [n \in {} |-> 0]
    /\ cr \in [Names -> {"absent", "bare"}]
    /\ crCache = cr
    /\ lag = [n \in Names |-> FALSE]
    /\ faults = 0
    /\ crashes = 0
    /\ foreign = 0

Advance(e) ==
    \/ Resolve(e)
    \/ Create(e)
    \/ Backfill(e)
    \/ BackfillConflict(e)

Next ==
    \/ \E e \in Events : \/ Begin(e)
                         \/ Advance(e)
                         \/ CallFails(e)
                         \/ CreateAnswerLost(e)
                         \/ Observe(e)
                         \/ Expire(e)
                         \/ TimerFires(e)
    \/ \E n \in Names : Sync(n) \/ ForeignWrite(n)
    \/ Tick
    \/ Crash

Spec == Init /\ [][Next]_vars

\* The worker, the timers, the informer and the clock keep going, and a live
\* event is seen again at the latest by the informer's resync.
Fairness ==
    /\ \A e \in Events : /\ SF_vars(Begin(e))
                         /\ WF_vars(Advance(e))
                         /\ WF_vars(TimerFires(e))
                         /\ WF_vars(Observe(e))
    /\ \A n \in Names : WF_vars(Sync(n))
    /\ WF_vars(Tick)

FairSpec == Spec /\ Fairness

-----------------------------------------------------------------------------
(* Properties *)

\* Every variable holds a value of its type.
TypeOK ==
    /\ life \in [Events -> {"new", "live", "gone"}]
    /\ queue \in SUBSET Events
    /\ delayed \in SUBSET Events
    /\ at \in [Events -> {"idle", "resolve", "create", "backfill"}]
    /\ DOMAIN seen \subseteq Names
    /\ \A n \in DOMAIN seen : seen[n] \in -1..TTL
    /\ cr \in [Names -> {"absent", "bare", "filled"}]
    /\ crCache \in [Names -> {"absent", "bare", "filled"}]
    /\ lag \in [Names -> BOOLEAN]
    /\ faults \in 0..MaxFaults
    /\ crashes \in 0..MaxCrashes
    /\ foreign \in 0..MaxForeign

\* A policy of the event's own namespace has the last word (ADR-002): if all
\* of that namespace's policies turn an event down, no CR is ever made for
\* it, whatever the operator's "default" or its configuration would accept.
TurnsDown(p, e) ==
    p.enabled = "false" \/ (p.reasons # {} /\ ReasonOf[e] \notin p.reasons)

Suppressed(e) ==
    /\ Policies[NamespaceOf[e]] # {}
    /\ \A p \in Policies[NamespaceOf[e]] :
          \/ TurnsDown(p, e)
          \/ p.reasons = {} /\ ~ReasonAllowed(ReasonOf[e], CfgReasons)

NamespacePolicyWins ==
    \A n \in Names :
        (\A e \in Events : NameOf[e] = n => Suppressed(e)) => cr[n] # "filled"

\* The sweep bounds the Deduper's memory (MED-001): the map grows beyond
\* dedupSweepThresh only as long as every entry in it is still needed.
DedupGrowsOnlyLive ==
    [][Cardinality(DOMAIN seen') > Cardinality(DOMAIN seen) =>
          \/ Cardinality(DOMAIN seen') <= SweepThresh
          \/ \A n \in DOMAIN seen' : seen'[n] >= 0]_vars

\* The backfill never brings back a CR that was deleted between the create
\* that found it and the backfill's update: only a create makes a CR appear.
BackfillNeverRecreates ==
    [][\A n \in Names :
          cr[n] = "absent" /\ cr'[n] # "absent" =>
              \E e \in Events : NameOf[e] = n /\ at[e] = "create"]_vars

AlwaysAccepted ==
    {e \in Events : \A p \in ResolvePolicy(NamespaceOf[e]) : Accepts(p, e)}

\* An accepted event ends with a complete CR unless it expires first: failed
\* calls, lost answers, conflicts and restarts only delay it, since its key
\* becomes eligible again when the dedup entry runs out (dedup.go:40).
MetadataArrives ==
    \A e \in AlwaysAccepted :
        life[e] = "live" ~> (cr[NameOf[e]] = "filled" \/ life[e] = "gone")

\* REQ-001: a CR is created for each accepted event, that is, for each event
\* whose policy check led to createDiagnosis.
EveryAcceptedEventHasCR ==
    \A e \in Events : at[e] = "create" ~> cr[NameOf[e]] # "absent"

=============================================================================
