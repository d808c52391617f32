---------------------------- MODULE Reconciler ----------------------------
(***************************************************************************)
(* The diagnosis reconciler (internal/controller/                          *)
(* kscribediagnosis_controller.go) at the grain of its durable effects.    *)
(*                                                                         *)
(* Three copies of the truth are written in turn: the KscribeDiagnosis     *)
(* status on the API server (api), the SQLite incident row (inc) and the   *)
(* SQLite RCA rows (diags).  Every read of the CR, patchStatus's included, *)
(* goes through the manager's informer cache (cache), which learns of a    *)
(* write only when its watch event (watch) is delivered.  One step of this *)
(* module is one such effect, so that a crash, a failed call, a late watch *)
(* event and the second writer of the CR (the event watcher's backfill)    *)
(* may come between any two of them.                                       *)
(*                                                                         *)
(* Time is kept as ages in abstract ticks: StaleAfter ticks stand for      *)
(* diagnosingRecoveryAfter (10 minutes), Window ticks for the rate         *)
(* limiter's hour.  Ages stop counting where the code stops telling them   *)
(* apart.  Adversity is counted (faults, crashes, slow) and bounded.       *)
(***************************************************************************)
EXTENDS Naturals, Sequences, FiniteSets

CONSTANTS
    Keys,         \* namespaced names of the KscribeDiagnosis objects
    Concurrency,  \* MaxConcurrentReconciles
    Limit,        \* diagnosis starts per window; 0 = unlimited
    Window,       \* length of the rate limiter's window, in ticks
    StaleAfter,   \* diagnosingRecoveryAfter, in ticks
    MaxFaults,    \* bound on failed store and API calls
    MaxCrashes,   \* bound on process crashes
    MaxSlow,      \* bound on diagnoses that outlast StaleAfter
    MaxCount      \* where the counters of rows and of outcomes saturate

ASSUME ConstantsAssumption ==
    /\ IsFiniteSet(Keys)
    /\ Concurrency \in Nat \ {0}
    /\ Limit \in Nat
    /\ Window \in Nat \ {0}
    /\ StaleAfter \in Nat \ {0}
    /\ MaxFaults \in Nat
    /\ MaxCrashes \in Nat
    /\ MaxSlow \in Nat
    /\ MaxCount \in Nat \ {0}

VARIABLES
    api,       \* api[k]: the CR stored by the API server
    cache,     \* cache[k]: the informer cache's copy of it
    watch,     \* watch[k]: written versions the informer has not received
    queue,     \* keys in the workqueue, the dirty ones included
    delayed,   \* keys waiting for a backoff or RequeueAfter timer
    pc,        \* pc[k]: where the worker that holds k is, "idle" if none
    loc,       \* loc[k]: that worker's local variables
    inc,       \* inc[k]: the SQLite incidents row, NoRow if absent
    diags,     \* diags[k]: number of SQLite diagnoses rows
    finished,  \* finished[k]: terminal outcomes counted, notified, published
    starts,    \* ages of the rate limiter's recorded starts, one per slot
    faults,    \* failed calls so far
    crashes,   \* crashes so far
    slow       \* diagnoses that outlasted StaleAfter so far

store == <<inc, diags>>
spent == <<faults, crashes, slow>>
vars == <<api, cache, watch, queue, delayed, pc, loc, inc, diags, finished,
          starts, faults, crashes, slow>>

-----------------------------------------------------------------------------
(* Data *)

Outcomes == {"Done", "Partial", "Failed"}

Phases == {"Unset", "Pending", "Diagnosing"} \cup Outcomes

\* What reconciliation reads of a CR: the phase, the Persisted flag, whether
\* the Persisted condition is False/StorageError, the age of StartedAt (a nil
\* StartedAt is as old as can be: diagnosisIsStale) and whether the spec has
\* the event metadata backfillExistingDiagnosis completes.
CR == [phase : Phases, persisted : BOOLEAN, storageErr : BOOLEAN,
       age : 0..StaleAfter, filled : BOOLEAN]

NewCR(f) == [phase |-> "Unset", persisted |-> FALSE, storageErr |-> FALSE,
             age |-> StaleAfter, filled |-> f]

NoRow == [phase |-> "NoRow", persisted |-> FALSE]

Row == [phase : Phases, persisted : BOOLEAN]

Locals == [snap : CR, age : 0..StaleAfter, outcome : Outcomes]

NoLocals == [snap |-> NewCR(FALSE), age |-> 0, outcome |-> "Failed"]

PCs == {"idle", "mirror", "allow", "throttle", "upsert", "start", "run",
        "failUpsert", "failPatch", "insert", "storageErr", "doneUpsert",
        "donePatch"}

\* A worker past the rate limiter: its `now` is set and its run is on.
InRun == {"upsert", "start", "run", "failUpsert", "failPatch", "insert",
          "storageErr", "doneUpsert", "donePatch"}

\* Mutant: the mirror forgets to copy the phase.
MirrorWithoutPhase(c) == [phase |-> "", persisted |-> c.persisted]

\* The row incidentFromDiagnosis makes of a CR.
MirrorOf(c) == [phase |-> c.phase, persisted |-> c.persisted]

-----------------------------------------------------------------------------
(* Reconcile's entry switch, on the copy of the CR it read *)

Stale(c) == c.age = StaleAfter

\* Terminal phases, and Diagnosing with Persisted set, are only mirrored.
Mirrors(c) ==
    \/ c.phase \in Outcomes
    \/ c.phase = "Diagnosing" /\ c.persisted

\* Mutant: a Diagnosing CR is taken up again however fresh it is.
ProceedsWhileFresh(c) ==
    \/ c.phase \in {"Unset", "Pending"}
    \/ c.phase = "Diagnosing" /\ ~c.persisted

\* Mutant: a throttled CR is not taken up again.
ProceedsUnlessPending(c) ==
    \/ c.phase = "Unset"
    \/ /\ c.phase = "Diagnosing"
       /\ ~c.persisted
       /\ c.storageErr \/ Stale(c)

\* Unset and Pending CRs are diagnosed, and so is a Diagnosing one with a
\* recorded storage error or an old StartedAt.
Proceeds(c) ==
    \/ c.phase \in {"Unset", "Pending"}
    \/ /\ c.phase = "Diagnosing"
       /\ ~c.persisted
       /\ c.storageErr \/ Stale(c)

-----------------------------------------------------------------------------
(* Building blocks *)

PlusOne(n) == IF n < MaxCount THEN n + 1 ELSE n

Busy == {k \in Keys : pc[k] # "idle"}

Goto(k, label) == pc' = [pc EXCEPT ![k] = label]

\* Reconcile returns nil: the worker forgets the key.
Return(k) ==
    /\ Goto(k, "idle")
    /\ loc' = [loc EXCEPT ![k] = NoLocals]
    /\ UNCHANGED delayed

\* Reconcile returns an error or RequeueAfter: the key comes back later.
Requeue(k) ==
    /\ Goto(k, "idle")
    /\ loc' = [loc EXCEPT ![k] = NoLocals]
    /\ delayed' = delayed \cup {k}

Fault ==
    /\ faults < MaxFaults
    /\ faults' = faults + 1
    /\ UNCHANGED <<crashes, slow>>

\* Mutant: the update is sent without a resourceVersion.
NoVersionCheck(k) == k \in Keys

\* The API server's resourceVersion check: an update built from the cached
\* copy is accepted only if that copy is the latest version.
UpToDate(k) == watch[k] = <<>>

\* An accepted update.  One that leaves the modelled fields as they are may
\* still change another (StartedAt's seconds, a condition's message or its
\* ObservedGeneration), so it may or may not produce a new version.
Update(k, c) ==
    /\ UpToDate(k)
    /\ api' = [api EXCEPT ![k] = c]
    /\ \/ watch' = [watch EXCEPT ![k] = Append(@, c)]
       \/ c = api[k] /\ UNCHANGED watch

\* What the steps of Reconcile leave to the environment's actions.
EnvUnchanged == UNCHANGED <<cache, queue>>

-----------------------------------------------------------------------------
(* Reconcile *)

\* A worker takes the key and reads the CR from the cache.
Begin(k) ==
    /\ k \in queue
    /\ pc[k] = "idle"
    /\ Cardinality(Busy) < Concurrency
    /\ queue' = queue \ {k}
    /\ \/ /\ Mirrors(cache[k])
          /\ Goto(k, "mirror")
          /\ loc' = [loc EXCEPT ![k].snap = cache[k]]
       \/ /\ Proceeds(cache[k])
          /\ Goto(k, "allow")
          /\ UNCHANGED loc
       \/ /\ ~Mirrors(cache[k])
          /\ ~Proceeds(cache[k])
          /\ UNCHANGED <<pc, loc>>
    /\ UNCHANGED <<api, cache, watch, delayed, store, finished, starts, spent>>

\* Terminal mirror: UpsertIncident from the copy that was read.
Mirror(k) ==
    /\ pc[k] = "mirror"
    /\ inc' = [inc EXCEPT ![k] = MirrorOf(loc[k].snap)]
    /\ Return(k)
    /\ UNCHANGED <<api, watch, diags, finished, starts, spent>>
    /\ EnvUnchanged

\* Mutant: the mirror's error is dropped.
MirrorErrorDropped(k) ==
    /\ pc[k] = "mirror"
    /\ Fault
    /\ Return(k)
    /\ UNCHANGED <<api, watch, store, finished, starts>>
    /\ EnvUnchanged

MirrorFails(k) ==
    /\ pc[k] = "mirror"
    /\ Fault
    /\ Requeue(k)
    /\ UNCHANGED <<api, watch, store, finished, starts>>
    /\ EnvUnchanged

\* Mutant: a start still counts at the end of its window.
FreeSlotsTooLate == {s \in DOMAIN starts : starts[s] > Window}

\* RateLimiter.Allow: a start younger than the window holds its slot.
FreeSlots == {s \in DOMAIN starts : starts[s] = Window}

Allow(k) ==
    /\ pc[k] = "allow"
    /\ \/ Limit = 0 /\ UNCHANGED starts
       \/ \E s \in FreeSlots : starts' = [starts EXCEPT ![s] = 0]
    /\ Goto(k, "upsert")
    /\ loc' = [loc EXCEPT ![k].age = 0]
    /\ UNCHANGED <<api, watch, delayed, store, finished, spent>>
    /\ EnvUnchanged

Deny(k) ==
    /\ pc[k] = "allow"
    /\ Limit # 0
    /\ FreeSlots = {}
    /\ Goto(k, "throttle")
    /\ UNCHANGED <<api, watch, delayed, loc, store, finished, starts, spent>>
    /\ EnvUnchanged

\* Mutant: a throttled CR is left to its watch event.
ThrottleForgets(k) ==
    /\ pc[k] = "throttle"
    /\ Update(k, [cache[k] EXCEPT !.phase = "Pending"])
    /\ Return(k)
    /\ UNCHANGED <<store, finished, starts, spent>>
    /\ EnvUnchanged

\* Denied: the CR goes (back) to Pending, whatever phase the re-read copy
\* shows by now, and is retried after 2-5 minutes.
Throttle(k) ==
    /\ pc[k] = "throttle"
    /\ Update(k, [cache[k] EXCEPT !.phase = "Pending"])
    /\ Requeue(k)
    /\ UNCHANGED <<store, finished, starts, spent>>
    /\ EnvUnchanged

\* The throttled status is best effort: its error is dropped.
ThrottleFails(k) ==
    /\ pc[k] = "throttle"
    /\ Fault
    /\ Requeue(k)
    /\ UNCHANGED <<api, watch, store, finished, starts>>
    /\ EnvUnchanged

\* ADR-003 step 1: the incident row says Diagnosing before the CR does.
UpsertDiagnosing(k) ==
    /\ pc[k] = "upsert"
    /\ inc' = [inc EXCEPT ![k] = [phase |-> "Diagnosing", persisted |-> FALSE]]
    /\ Goto(k, "start")
    /\ UNCHANGED <<api, watch, delayed, loc, diags, finished, starts, spent>>
    /\ EnvUnchanged

\* Mutant: this patch is best effort too.
PatchDiagnosingOrNot(k) ==
    /\ pc[k] = "start"
    /\ \/ /\ Update(k, [cache[k] EXCEPT !.phase = "Diagnosing",
                                        !.age = loc[k].age])
          /\ UNCHANGED spent
       \/ Fault /\ UNCHANGED <<api, watch>>
    /\ Goto(k, "run")
    /\ UNCHANGED <<delayed, loc, store, finished, starts>>
    /\ EnvUnchanged

\* The CR becomes Diagnosing with a new StartedAt.  Persisted and the
\* StorageError condition keep whatever the previous attempt left.
PatchDiagnosing(k) ==
    /\ pc[k] = "start"
    /\ Update(k, [cache[k] EXCEPT !.phase = "Diagnosing", !.age = loc[k].age])
    /\ Goto(k, "run")
    /\ UNCHANGED <<delayed, loc, store, finished, starts, spent>>
    /\ EnvUnchanged

\* An error of UpsertDiagnosing or PatchDiagnosing, or of a terminal patch,
\* goes back to the workqueue's rate-limited backoff.
ErrorReturned(k) ==
    /\ pc[k] \in {"upsert", "start", "failPatch", "donePatch"}
    /\ Fault
    /\ Requeue(k)
    /\ UNCHANGED <<api, watch, store, finished, starts>>
    /\ EnvUnchanged

\* ADR-003 step 2: the snapshot is built and the agent runs; it always
\* returns one of the three outcomes.
Run(k, o) ==
    /\ pc[k] = "run"
    /\ loc' = [loc EXCEPT ![k].outcome = o]
    /\ Goto(k, IF o = "Failed" THEN "failUpsert" ELSE "insert")
    /\ UNCHANGED <<api, watch, delayed, store, finished, starts, spent>>
    /\ EnvUnchanged

\* Provider failure: the row is updated best effort, then the outcome is
\* counted, notified and published before the CR is patched.
FinishFailed(k) ==
    /\ pc[k] = "failUpsert"
    /\ \/ /\ inc' = [inc EXCEPT ![k] = [phase |-> "Failed", persisted |-> FALSE]]
          /\ UNCHANGED spent
       \/ Fault /\ UNCHANGED inc
    /\ finished' = [finished EXCEPT ![k] = PlusOne(@)]
    /\ Goto(k, "failPatch")
    /\ UNCHANGED <<api, watch, delayed, loc, diags, starts>>
    /\ EnvUnchanged

PatchFailed(k) ==
    /\ pc[k] = "failPatch"
    /\ Update(k, [cache[k] EXCEPT !.phase = "Failed"])
    /\ Return(k)
    /\ UNCHANGED <<store, finished, starts, spent>>
    /\ EnvUnchanged

\* ADR-003 step 3: the RCA row is written before the CR's final phase.
InsertDiagnosis(k) ==
    /\ pc[k] = "insert"
    /\ diags' = [diags EXCEPT ![k] = PlusOne(@)]
    /\ Goto(k, "doneUpsert")
    /\ UNCHANGED <<api, watch, delayed, loc, inc, finished, starts, spent>>
    /\ EnvUnchanged

\* Mutant: the insert's error is dropped and the CR goes on to Done.
InsertErrorDropped(k) ==
    /\ pc[k] = "insert"
    /\ Fault
    /\ Goto(k, "doneUpsert")
    /\ UNCHANGED <<api, watch, delayed, loc, store, finished, starts>>
    /\ EnvUnchanged

InsertFails(k) ==
    /\ pc[k] = "insert"
    /\ Fault
    /\ Goto(k, "storageErr")
    /\ UNCHANGED <<api, watch, delayed, loc, store, finished, starts>>
    /\ EnvUnchanged

\* The failed write is recorded best effort; the phase stays as it is.
PatchStorageError(k) ==
    /\ pc[k] = "storageErr"
    /\ \/ /\ Update(k, [cache[k] EXCEPT !.persisted = FALSE, !.storageErr = TRUE])
          /\ UNCHANGED spent
       \/ Fault /\ UNCHANGED <<api, watch>>
    /\ Requeue(k)
    /\ UNCHANGED <<store, finished, starts>>
    /\ EnvUnchanged

\* Mutant: the outcome is not announced when its row could not be updated.
FinishDoneQuietly(k) ==
    /\ pc[k] = "doneUpsert"
    /\ \/ /\ inc' = [inc EXCEPT ![k] = [phase |-> loc[k].outcome,
                                        persisted |-> TRUE]]
          /\ finished' = [finished EXCEPT ![k] = PlusOne(@)]
          /\ UNCHANGED spent
       \/ Fault /\ UNCHANGED <<inc, finished>>
    /\ Goto(k, "donePatch")
    /\ UNCHANGED <<api, watch, delayed, loc, diags, starts>>
    /\ EnvUnchanged

\* ADR-003 step 4, first half: row best effort; counted, notified, published.
FinishDone(k) ==
    /\ pc[k] = "doneUpsert"
    /\ \/ /\ inc' = [inc EXCEPT ![k] = [phase |-> loc[k].outcome,
                                        persisted |-> TRUE]]
          /\ UNCHANGED spent
       \/ Fault /\ UNCHANGED inc
    /\ finished' = [finished EXCEPT ![k] = PlusOne(@)]
    /\ Goto(k, "donePatch")
    /\ UNCHANGED <<api, watch, delayed, loc, diags, starts>>
    /\ EnvUnchanged

\* ADR-003 step 4, second half: the Persisted condition becomes True, which
\* replaces a recorded StorageError.
PatchDone(k) ==
    /\ pc[k] = "donePatch"
    /\ Update(k, [cache[k] EXCEPT !.phase = loc[k].outcome, !.persisted = TRUE,
                                 !.storageErr = FALSE])
    /\ Return(k)
    /\ UNCHANGED <<store, finished, starts, spent>>
    /\ EnvUnchanged

-----------------------------------------------------------------------------
(* The environment: watch, workqueue timers, clock, second writer, crash *)

\* The informer receives the next version and enqueues its key.
Deliver(k) ==
    /\ watch[k] # <<>>
    /\ cache' = [cache EXCEPT ![k] = Head(watch[k])]
    /\ watch' = [watch EXCEPT ![k] = Tail(@)]
    /\ queue' = queue \cup {k}
    /\ UNCHANGED <<api, delayed, pc, loc, store, finished, starts, spent>>

TimerFires(k) ==
    /\ k \in delayed
    /\ delayed' = delayed \ {k}
    /\ queue' = queue \cup {k}
    /\ UNCHANGED <<api, cache, watch, pc, loc, store, finished, starts, spent>>

\* The informer's periodic resync enqueues every cached object.
Resync ==
    /\ queue' = Keys
    /\ UNCHANGED <<api, cache, watch, delayed, pc, loc, store, finished,
                   starts, spent>>

\* backfillExistingDiagnosis, from the event watcher's own worker: it reads
\* the cache too, and its update passes the same resourceVersion check.
Backfill(k) ==
    /\ ~cache[k].filled
    /\ Update(k, [cache[k] EXCEPT !.filled = TRUE])
    /\ UNCHANGED <<delayed, pc, loc, store, finished, starts, spent>>
    /\ EnvUnchanged

Older(c) == [c EXCEPT !.age = IF @ < StaleAfter THEN @ + 1 ELSE @]

\* Diagnoses this tick makes stale while their worker, or the watch event
\* of their result, is still on its way.
Overdue ==
    {k \in Keys :
        \/ pc[k] \in InRun /\ loc[k].age = StaleAfter - 1
        \/ /\ watch[k] # <<>>
           /\ cache[k].phase = "Diagnosing"
           /\ cache[k].age = StaleAfter - 1}

Tick ==
    /\ slow + Cardinality(Overdue) <= MaxSlow
    /\ slow' = slow + Cardinality(Overdue)
    /\ api' = [k \in Keys |-> Older(api[k])]
    /\ cache' = [k \in Keys |-> Older(cache[k])]
    /\ watch' = [k \in Keys |-> [i \in 1..Len(watch[k]) |-> Older(watch[k][i])]]
    /\ loc' = [k \in Keys |->
                 IF pc[k] \in InRun
                 THEN [loc[k] EXCEPT !.age = IF @ < StaleAfter THEN @ + 1 ELSE @]
                 ELSE loc[k]]
    /\ starts' = [s \in DOMAIN starts |->
                    IF starts[s] < Window THEN starts[s] + 1 ELSE starts[s]]
    /\ UNCHANGED <<queue, delayed, pc, store, finished, faults, crashes>>

\* The process dies and restarts: the cache is listed afresh, every object is
\* enqueued, and workers, timers and the rate limiter's record are gone.
Crash ==
    /\ crashes < MaxCrashes
    /\ crashes' = crashes + 1
    /\ cache' = api
    /\ watch' = [k \in Keys |-> <<>>]
    /\ queue' = Keys
    /\ delayed' = {}
    /\ pc' = [k \in Keys |-> "idle"]
    /\ loc' = [k \in Keys |-> NoLocals]
    /\ starts' = [s \in DOMAIN starts |-> Window]
    /\ UNCHANGED <<api, store, finished, faults, slow>>

-----------------------------------------------------------------------------
(* Specification *)

Init ==
    /\ api \in [Keys -> {NewCR(f) : f \in BOOLEAN}]
    /\ cache = api
    /\ watch = [k \in Keys |-> <<>>]
    /\ queue = Keys
    /\ delayed = {}
    /\ pc = [k \in Keys |-> "idle"]
    /\ loc = [k \in Keys |-> NoLocals]
    /\ inc = [k \in Keys |-> NoRow]
    /\ diags = [k \in Keys |-> 0]
    /\ finished = [k \in Keys |-> 0]
    /\ starts = [s \in 1..Limit |-> Window]
    /\ faults = 0
    /\ crashes = 0
    /\ slow = 0

\* The steps by which a worker moves forward when nothing fails.
Advance(k) ==
    \/ Mirror(k)
    \/ Allow(k)
    \/ Deny(k)
    \/ Throttle(k)
    \/ UpsertDiagnosing(k)
    \/ PatchDiagnosing(k)
    \/ \E o \in Outcomes : Run(k, o)
    \/ FinishFailed(k)
    \/ PatchFailed(k)
    \/ InsertDiagnosis(k)
    \/ PatchStorageError(k)
    \/ FinishDone(k)
    \/ PatchDone(k)

Fails(k) ==
    \/ MirrorFails(k)
    \/ ThrottleFails(k)
    \/ ErrorReturned(k)
    \/ InsertFails(k)

Next ==
    \/ \E k \in Keys : \/ Begin(k)
                       \/ Advance(k)
                       \/ Fails(k)
                       \/ Deliver(k)
                       \/ TimerFires(k)
                       \/ Backfill(k)
    \/ Resync
    \/ Tick
    \/ Crash

Spec == Init /\ [][Next]_vars

\* Watch events arrive, timers fire, time passes, the informer resyncs, and
\* workers make progress.  The workqueue is first-in first-out, so a queued
\* key is not overtaken for ever: strong fairness of Begin.  Nothing is
\* assumed of failures, crashes or the backfill.
Fairness ==
    /\ \A k \in Keys : /\ SF_vars(Begin(k))
                       /\ WF_vars(Advance(k))
                       /\ WF_vars(Deliver(k))
                       /\ WF_vars(TimerFires(k))
    /\ WF_vars(Resync)
    /\ WF_vars(Tick)

FairSpec == Spec /\ Fairness

-----------------------------------------------------------------------------
(* Properties *)

Terminal(c) == c.phase \in Outcomes

\* Something will still reconcile k without waiting for a resync.
Scheduled(k) ==
    \/ k \in queue \cup delayed
    \/ pc[k] # "idle"
    \/ watch[k] # <<>>

\* Every variable holds a value of its type.
TypeOK ==
    /\ api \in [Keys -> CR]
    /\ cache \in [Keys -> CR]
    /\ watch \in [Keys -> Seq(CR)]
    /\ queue \in SUBSET Keys
    /\ delayed \in SUBSET Keys
    /\ pc \in [Keys -> PCs]
    /\ loc \in [Keys -> Locals]
    /\ inc \in [Keys -> Row \cup {NoRow}]
    /\ diags \in [Keys -> 0..MaxCount]
    /\ finished \in [Keys -> 0..MaxCount]
    /\ starts \in [1..Limit -> 0..Window]
    /\ faults \in 0..MaxFaults
    /\ crashes \in 0..MaxCrashes
    /\ slow \in 0..MaxSlow

\* The cache is never more than one version behind the API server, whoever
\* writes: patchStatus (448-455) and the event watcher's backfill both build
\* their update from the cached copy under the resourceVersion check, so no
\* write can land on top of one the informer has not received.
BoundedStaleness ==
    \A k \in Keys : \/ watch[k] = <<>> /\ cache[k] = api[k]
                    \/ watch[k] = <<api[k]>>

\* ADR-003: whoever sees an outcome with an RCA, in the CR, in its cached
\* copy or in the dashboard's incident row, finds the RCA row in SQLite; and
\* a CR that left Pending has an incident row.  Crashes and failed calls
\* between the writes do not break the order.
PersistBeforeTerminal ==
    \A k \in Keys :
        /\ \A c \in {api[k], cache[k], inc[k]} :
              c.persisted \/ c.phase \in {"Done", "Partial"} => diags[k] > 0
        /\ api[k].phase \notin {"Unset", "Pending"} => inc[k] # NoRow

\* Who watches the CR sees a diagnosis (module Diagnosis): however stale the
\* copies are that Reconcile decides and patches from, whatever fails between
\* its writes and whoever else updates the CR, an outcome is reached only from
\* Diagnosing, and Done and Partial only with a stored RCA.
Life == INSTANCE Diagnosis
          WITH phase <- [k \in Keys |-> api[k].phase],
               rca <- [k \in Keys |-> diags[k] > 0]
LooksLikeADiagnosis == Life!Spec

\* "Over-limit CRs stay Pending and requeue - never dropped" (line 197), and
\* the same of a recorded storage error: such a CR is queued, held by a
\* worker, waiting for a timer or about to be enqueued by its watch event.
\* No resync is needed for it, whatever fails.
NeverForgotten ==
    \A k \in Keys :
        \/ api[k].phase \in {"Unset", "Pending"}
        \/ /\ api[k].phase = "Diagnosing"
           /\ api[k].storageErr
           /\ ~api[k].persisted
        => Scheduled(k)

\* The terminal mirror repairs the rows that the ignored upserts of the
\* terminal transitions (316, 394) leave behind: once nothing is scheduled
\* for a terminal CR, its incident row shows the CR's phase and Persisted.
MirrorConverges ==
    \A k \in Keys :
        Terminal(api[k]) /\ ~Scheduled(k) => inc[k] = MirrorOf(api[k])

\* A diagnosis is stored again only when something went wrong: beyond the
\* first, each RCA row is paid for by a failed call, a crash or a run that
\* outlasted diagnosingRecoveryAfter.  (Counted outcomes are not so bounded:
\* see FailedStays.)
RowsPaidFor ==
    \A k \in Keys : diags[k] <= 1 + faults + crashes + slow

\* Nothing is finished in silence (332-334, 412-414): a CR in a terminal
\* phase was counted, notified and published, and so was each RCA row, but
\* for the row of a run that is about to do it or that a crash cut short.
NothingSilent ==
    \A k \in Keys :
        /\ Terminal(api[k]) => finished[k] > 0
        /\ diags[k] <= finished[k] + crashes
                         + (IF pc[k] = "doneUpsert" THEN 1 ELSE 0)

\* Whatever fails or crashes, each CR is brought to a terminal phase, again
\* and again if it is diagnosed anew: "Proceed ... for stale Diagnosing state
\* after a process crash" (173).
KeepsFinishing == \A k \in Keys : []<>Terminal(api[k])

\* Each CR is in the end left in a terminal phase: the Failed patch stops
\* "the retry storm (provider-failure CR stays Diagnosing -> requeues
\* forever)" (335).
FailedStays == \A k \in Keys : <>[]Terminal(api[k])

\* Once a re-run has put a persisted CR back to Diagnosing, the entry switch
\* (181) only mirrors it.
Abandoned(c) == c.phase = "Diagnosing" /\ c.persisted

\* The re-run of a persisted diagnosis is the only way to get stuck: under
\* any mix of failures, crashes and slow runs every CR keeps reaching a
\* terminal phase or is so abandoned.
FinishesUnlessAbandoned ==
    \A k \in Keys : []<>(Terminal(api[k]) \/ Abandoned(api[k]))

=============================================================================
