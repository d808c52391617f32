# A TLA+ verification project for kscribe

kscribe is a Kubernetes operator. It watches Warning events, turns each accepted
one into a `KscribeDiagnosis` custom resource (CR), lets an LLM diagnose it with
read-only cluster tools, stores the root-cause analysis (RCA) in SQLite and
serves a dashboard with a chat about each incident. This project models the
parts whose correctness depends on order, failure and concurrency, model-checks
them with TLC and proves the safety properties with TLAPS.

## 1. The system

| Part | State it keeps | Operations | Talks to |
|---|---|---|---|
| Event watcher (`controller/event_watcher.go`) | workqueue of events | `Reconcile`, `processEvent`, `createDiagnosis`, `backfillExistingDiagnosis` | Deduper, policies, API server |
| Deduper (`controller/dedup.go`) | in-memory map key -> expiry | `ShouldProcess` | event watcher |
| Policy resolution (`controller/diagnosispolicy_controller.go`) | none (reads `DiagnosisPolicy` objects) | `ResolvePolicy` | informer cache |
| Diagnosis reconciler (`controller/kscribediagnosis_controller.go`) | CR status, incident row, RCA rows | `Reconcile`, `patchStatus` | API server through the informer cache, SQLite, agent, broker, notifier |
| Rate limiter (`controller/ratelimit.go`) | in-memory list of starts | `Allow` | reconciler |
| Diagnosis agent (`agent/diagnosis_agent.go`) | the conversation, tokens, trace | `Run`, `repairRCA`, `callTool` | LLM provider, cluster tools |
| LLM client (`agent/openai.go`, `agent/llm.go`) | none | `Complete`, `CompleteStream`, `StreamOrComplete` | provider |
| SQLite store (`store/sqlite.go`) | incidents, diagnoses, chat_messages | upsert, insert, list, prune | reconciler, chat, pruner, dashboard |
| Chat (`web/chat.go`) | one turn's prompt and reply | `RunChat` | store, LLM client, broker |
| Broker (`web/broker.go`) | subscribers' channels (8 events each) | `Subscribe`, `Publish` | chat, reconciler, SSE handlers |
| Dashboard server (`web/server.go`) | none | list, detail, stream, chat | store, broker |
| Login (`web/auth.go`) | failures per address, in memory | `loginSubmit`, `tooMany`, `recordFailure` | dashboard server |
| Retention (`controller/prune.go`, `cmd/kscribe/main.go`) | none | hourly prune of SQLite, then of CRs | store, API server |
| Migrations (`store/migrations.go`) | `schema_migrations` | `runMigrations`, from `Open` | SQLite |
| Enrichment (`enricher/`) | the snapshot of one diagnosis | `BuildSnapshot`, `EncodeSnapshot`, `RedactSnapshot` | API server, agent |
| Notification (`notify/`) | none | `Multi.Notify` over e-mail, Slack, Jira, Linear | reconciler, endpoints |
| Operator process (`cmd/kscribe/main.go`) | the parts above | start, serve, exit | kubelet |
| Configuration, metrics, templates, development server | none that decides anything | | |

What is hard about it:

* **Three copies of the truth.** A diagnosis lives in the CR status, in the
  incident row and in the RCA rows. They are written one after the other
  (ADR-003), several of the writes are best effort, and the process may die
  between any two.
* **Stale reads.** Every read of the CR goes through an informer cache that
  learns of a write only when its watch event arrives, and a reconcile that has
  just finished is usually followed by another one on the same key.
* **Two writers of a CR** (status updates and the backfill), and a pruner that
  deletes rows and CRs in separate steps from lists that age.
* **Two processes on one database file** during a rolling update: both migrate.
* **Memory that a restart forgets**: deduplication, rate limit, login
  failures.
* **Work that nobody repeats**: a nil return forgets the key, a duplicate event
  is dropped, a full channel loses a frame.
* **Concurrent chat turns** on one table, one topic and one element of the page.
* **Pages made of several queries** while the table changes between them.
* **Long chains of calls of which each may fail**: the context's reads, the
  agent's requests, the notification channels that share ten seconds.

What makes each part correct: no phase without its stored RCA, no CR forgotten,
rows that end up agreeing with their CR, no RCA made twice without cause, each
CR brought to an end (reconciler); one CR per accepted event, policies that have
the last word, bounded memory (watcher); a valid, bounded and fully accounted
conversation (agent); a coherent transcript and frames that grow to the latest
state (chat); history kept for the retention period, then forgotten without
leftovers (retention); pages that show what is stored (dashboard); migrations
applied once, in order and before anyone serves (start); a login budget that
holds and lets go (login); a context with nothing silently missing
(enrichment); a turn for every channel (notification). `PROJECT.json` lists the
hazards line by line, with the properties that would catch them.

## 2. The modules

### Reconciler

One step is one durable effect of `Reconcile`. `api[k]` is the CR on the API
server, `cache[k]` the informer's copy, `watch[k]` the versions on their way;
`queue` and `delayed` are the workqueue; `pc[k]` and `loc[k]` are the worker
that holds `k`; `inc[k]` and `diags[k]` are the incident row and the number of
RCA rows; `finished[k]` counts what was announced (metric, notification, SSE);
`starts` holds the ages of the rate limiter's recorded starts.

| Action | Code (`kscribediagnosis_controller.go`) |
|---|---|
| `Begin` | cached Get and the entry switch (168-195) |
| `Mirror`, `MirrorFails` | terminal mirror (181-194) |
| `Allow`, `Deny`, `Throttle`, `ThrottleFails` | rate limit (198-213, `ratelimit.go`) |
| `UpsertDiagnosing`, `PatchDiagnosing` | ADR-003 step 1 (222-260) |
| `Run` | snapshot and agent (262-311); its inside is `DiagnosisAgent` |
| `FinishFailed`, `PatchFailed` | provider failure (314-351) |
| `InsertDiagnosis`, `InsertFails`, `PatchStorageError` | ADR-003 step 3 (355-391) |
| `FinishDone`, `PatchDone` | ADR-003 step 4 (394-441) |
| `ErrorReturned` | errors returned to the workqueue (236, 254, 337, 415) |
| `Backfill` | the second writer (`event_watcher.go` 127-173) |
| `Deliver`, `TimerFires`, `Resync`, `Tick`, `Crash` | informer, workqueue, clock, restart |

An update is accepted only if it was built from the latest version (`UpToDate`:
nothing is on its way to the cache). A conflict is retried by `patchStatus`, so
the action waits for the delivery; a call that gives up is a fault.

Abstractions: of the CR only the phase, `Persisted`, the StorageError condition,
the age of `StartedAt` and the presence of the event metadata are kept; of the
incident row the phase and `persisted`. Time is counted in ticks, ages stop at
the value where the code stops telling them apart. A failed call has no effect
(a crash right after a call covers the call that took effect unanswered).
CRs are not deleted here (see Retention).

**Diagnosis** is what a user of the CR may rely on: a diagnosis is postponed or
started from any phase (a CR whose run has just ended may be taken up again from
a stale copy, so "from any" is what the code gives), an RCA is stored only while
it is Diagnosing, an outcome is reached only from Diagnosing, and Done and
Partial only with a stored RCA. `LooksLikeADiagnosis` says that `Reconciler`
implements it, with the phase of `api` and `diags[k] > 0` as the mapping.

### EventWatcher

`life[e]` is an event, `seen` the Deduper's map with the ticks left to each
entry (`0`: no longer fresh, `-1`: swept), `cr[n]`, `crCache[n]` and `lag[n]` the
CR, its cached copy and whether that is out of date. The worker's steps are
`Begin` (read, deduplicate and mark), `Resolve`, `Create`, `Backfill`; each call
may fail (`CallFails`), succeed unanswered (`CreateAnswerLost`) or conflict
(`BackfillConflict`). Policies are constant. An event's key and its CR's name are
one model value: the truncated UID and the FNV fallback are abstracted, and with
them hash collisions.

### Enrichment, DiagnosisAgent, Notification; composed in Pipeline

`Pipeline` is what `Reconcile` does between its writes: collect, run, notify.

* `Enrichment`: `Collect` makes the next read of `todo`; a read that succeeds may
  call for others (an object for its pods, a pod for its logs and node), one that
  fails is recorded in `partial`. `EncodeSnapshot` hands over. Text is left out, and
  so is its redaction (section 5).
* `DiagnosisAgent`, one `Run`: `ProviderError`, `NoChoices`, `FinalReply`,
  `ToolReply`, `CallTool`, `Iterate`, `Repair`, `RepairFails`. `requests` and
  `billed` record what the provider received and charged, to compare with `tokens`.
* `Notification`: `Announce` queues the channels whose settings are complete,
  `Try` sends to the next one within what is left of the shared context, `Count`
  sets the one metric. How a provider's answer is judged is abstracted to delivered
  or refused (`Judged`); Linear alone also takes a body that it could not read in
  time for a delivery (`BodyIsOptional`, result `unread`).

A stage's variables go back to their initial values once they have been used.

### ChatTurn

Turns of `RunChat` on one incident, with the provider's stream and the SSE
viewers. `chat` is the table, `prompt[t]` the history sent, `acc[t]` the length
of the accumulated reply, `buf[v]` a viewer's channel. `shown[v]` is what the page's
one `#chat-stream` element holds (`incidents.templ` 299-307): nothing or one frame,
which the next one replaces, whichever turn it is of, and which submitting the
form empties (`ClearStream`). The broker's `Event` names no turn; the model's frame
does, for the properties only. A provider that does not stream is `CompleteAtOnce`
(`llm.go` 27-37). `newest`, `late` and `missed` are history variables: the last frame
published, and the pages that are newer than it or that it was dropped for. Text
is reduced to its length.

### Retention; composed with the dashboard's reads in Dashboard

`cr[k]` and `seen[k]` are the CR and its cached copy, with the age of `completedAt`
and `kept`, the `Persisted` flag; `inc[k]` is the incident row with the age of
`updated_at`, `diags[k]` and `chat[k]` say whether there are child rows. The pruner's steps are `PruneRows` (one transaction), `ListVictims` (from
the cache), `DeleteVictim` (by name), `SweepEnds`; against it run `Create` and
`UserDelete`, the reconciler's writes (`Mirror`, `UpsertDiagnosing`,
`PatchDiagnosing`, `Run`, `InsertDiagnosis`, `InsertFails`, `Finish`, `PatchFinal`,
`Gone`) and chat turns (`Ask`, `Load`, `Reply`). A worker begins on what the cache
shows it: a copy from before the end of the last run lets a finished diagnosis be
run again (`TooLate`, counted against `MaxEvents` so that this happens finitely
often), and since nothing takes `Persisted` back such a CR is Diagnosing and
persisted (`Again`), which `Reconcile` only mirrors. Whether a Diagnosing copy is
taken up depends on the StorageError condition and on `startedAt`, which this
module does not follow: either may happen. `Dashboard` adds the requests: `Detail` and
`DetailRead` query by query, `List`, `ListCount` and `ListPage` likewise.

Assumed: the retention period is long compared with everything else, so that
within a tick end a sweep, the informer's lag, the steps before and after a run,
the first mirror of an outcome, the mirror of a copy that the outcome has
superseded, and a request; a run is shorter than the retention period.
What the model shows about the edges, and the properties therefore say:

* `Delete` names no UID, so a CR created again under a name the cache or the
  pruner's list still holds may be deleted unfinished (`reborn`);
* a chat turn does not look whether its incident still has a row, so it may leave
  chat rows behind (`late`), until the name is used and pruned again;
* a mirror from a copy read before the prune brings a row back without its RCA,
  but already expired, since `updated_at` is pinned to `completedAt`;
* a re-run of a stored diagnosis that a crash or an error abandons leaves a CR that
  is never terminal for the pruner; its RCA is forgotten with its row, but every
  resync mirrors it into a new row, already expired. `HistoryIsForgotten` therefore
  excepts it; `reconciler_abandoned` shows how it comes about;
* the three queries of the list promise nothing together when the table changes
  between them; such a list is not followed further.

### Migrations and LoginLimiter; composed in Operator

`Migrations` follows the start of processes that share the file: `Start`, `Open`
(the pragmas and the bootstrap of `schema_migrations`, which may find the database
locked), then for each file `Check` (outside the transaction), `Exec` (takes SQLite's write
lock), `Record`, `Commit`, `Busy`, `Exit`. `SchemaVersions` is what it promises:
versions are added one by one in order and none is taken back; in the end all
are there. `SchemaMovesForward` says that `Migrations` implements it.

`LoginLimiter` keeps, per address, the ages of the recorded failures; `Submit`
is `tooMany`, `Accept` and `Reject` the comparison and `recordFailure`, so that
requests overlap between check and record. The map is thrown away by `recordFailure`
when it tracks too many addresses (`Overflow`) and with its process (`LoginStop`);
the history variable `lost` keeps the failures of the window that were forgotten that
way, `quiet` the time since. `BudgetHolds` and `NoExtraAttempts` are about
`Happened`, the failures of the window recorded or not. `Operator` puts the limiter
of one process (`Front`) into its life: it answers only while it serves, and an exit
forgets the failures. Leader election is taken to be off, as by default.

### Instances and mutants

`MCEventWatcher` holds the definitions of its instances; the other modules are run
as they are. Definitions whose comment begins with
"Mutant" are wrong versions of the definition that follows: putting one in its
place must make TLC report the property it is listed with in `PROJECT.json`.

## 3. What TLC checks

| Run | Checks | Shows |
|---|---|---|
| `reconciler_adversity` | `TypeOK`, `BoundedStaleness`, `PersistBeforeTerminal`, `NeverForgotten`, `MirrorConverges`, `RowsPaidFor`, `NothingSilent`, `LooksLikeADiagnosis`, `FinishesUnlessAbandoned` | one CR, one failed call, one crash and one slow run at any point, limit of one start per window |
| `reconciler_shared` | `FailedStays` | two CRs on one worker and one start per window, one crash: both end for good |
| `reconciler_retry_storm` | `FailedStays` is violated | a storage error's condition outlives it: Failed, retried, Failed, ... |
| `reconciler_abandoned` | `KeepsFinishing` is violated | a crash in a re-run leaves Diagnosing and Persisted, which is only mirrored |
| `watcher` | `TypeOK`, `NamespacePolicyWins`, `DedupGrowsOnlyLive`, `BackfillNeverRecreates`, `MetadataArrives` | two events, one failed call, one foreign write, one restart |
| `watcher_lost` | `EveryAcceptedEventHasCR` is violated | marked before created: the retry is a duplicate |
| `chat` | `TypeOK`, `FramesGrowToLatest`, `RepliesAreWhole`, `QuestionUnlessCrowded`, `TurnEnds` | two concurrent turns whose frames replace each other on the page of one viewer that comes, goes, stalls and clears it |
| `chat_slow_viewer` | `SlowViewerCatchesUp` is violated | the newest frame is the one dropped |
| `pipeline` | `ContextIsWhole`, `ConversationIsClosed`, `CostIsBounded`, `OutcomeMeans`, `EveryChannelHasItsTurn` | every object with up to three pods under every pattern of failed reads; five iterations of up to two tool calls; every set of channels, answers and delays |
| `retention` | `TypeOK`, `NoOrphans`, `OutcomeHasRCA`, `DetailTruthful`, `ListIsASlice`, `PrunerDeletesOnlyFinished`, `KeptForRetention`, `HistoryIsForgotten` | two names under any three outside events, pruner, reconciler, chat and requests interleaved |
| `operator` | `TypeOK`, `AppliedAsRecorded`, `ServesOnlyMigrated`, `BudgetHolds`, `SchemaMovesForward`, `EveryProcessServes`, `LockoutEnds` | two processes, three migrations, three exits; two addresses and two overlapping logins |
| `operator_churn` | `NoExtraAttempts` is violated | one address too many, and all may fail as often again in the same window |

The five violations are disagreements between the code and its own comments and
documents; `PROJECT.json` quotes both sides under "findings". Two smaller ones have no
run of their own. The comment at `chat.go` 77 says that the history "includes the user
turn we just persisted"; a message above the byte budget, or one that concurrent turns
push out of it before it is loaded, is dropped like any other, which
`QuestionUnlessCrowded` therefore excepts. And `RedactSnapshot` does not go over
`Snapshot.Partial`, where failed reads leave the text of their errors
(`context_builder.go` 75, 94, ...), although `payload.go` 9 says that "All free-text
fields are redacted before serialization (SEC-001)".

**Bounds.** `MaxFaults`, `MaxCrashes`, `MaxSlow` and `MaxForeign` bound adversity,
not its place: one of each covers every pair "this failure, then that one" and
every position of them. The CRs interact only through the workers and the rate
limiter, so one CR is enough for the properties of its three copies, and two for
competition. `StaleAfter = 2` and a `Window` of 2 or 3 leave a CR and a start a
young, an old and an expired age; a window longer than the staleness lets a
re-run be throttled. `MaxCount` is above what the counters can
reach before a property would fail. In the watcher, one tick of TTL and a sweep
threshold of 1 make an entry expire and the sweep happen; in the chat, channels
of two frames and replies of two or three make them overflow. `Outlive` selects
between events that may expire at any time and events that outlive their
retries' backoff, as they do in a cluster (an hour against seconds); the
violation is found under the latter, kinder choice.

`MaxEvents` is one budget for all that comes from outside in `retention`
(births, deletes, failed calls, crashes, chat turns, requests, and runs that begin
on a copy from before the last one ended): any three of them, in any order, each
at any point, which is enough for a stored diagnosis that is run again and
abandoned; two names and pages of one row give full,
partial and missing pages; `Retention = 1` gives a row and a CR an age before, at
and after the cutoff. In `operator`, three files of which one is idempotent and
three exits let both processes fail at each step; a window of two ticks and a
limit of two make a failure expire and a lockout happen, and one tracked address
(`MaxAddrs`) makes the map overflow; `MaxLost`, as many as an address may lose with one
map, bounds only the forgotten failures that the history variable follows. In `pipeline`, a cap of two pods against
three found makes the cap bite, and a budget of three ticks lets channels use it
up in different ways.

**Fairness.** `Reconciler` and `EventWatcher` assume that watch events arrive,
timers fire, the clock ticks, the informer resyncs and a worker's calls return
(weak fairness); a queued key is taken eventually although workers may be busy
in between, because the workqueue is first-in first-out (strong fairness of
`Begin`). The resync is controller-runtime's default of ten hours:
`KSCRIBE_RESYNC_PERIOD` (`config.go` 96) is read by nobody. `ChatTurn` assumes only
that a started turn keeps going; nothing is assumed of viewers, failures,
crashes or writers. `Operator` assumes that the kubelet restarts what exited,
that a start runs to its end and that time passes; `Dashboard` that goroutines
(workers, pruner, handlers), the informer and time go on, and that the workqueue
brings back a CR that is not finished or whose row is behind. Nothing is assumed
of logins, chat turns, requests, exits or faults. `Pipeline` checks safety only.

**Deadlock** is checked in every run but `pipeline`, where the diagnosis is over.

## 4. What TLAPS proves

Every safety invariant and action property of the passing runs is a theorem: it
holds for any number of CRs, processes, turns, names, rows and pods, and for every
bound. Four more state what termination rests on, as far as it can be said without
fairness: a variant, or what a step may never do. The assumptions are those of the modules
(`ConstantsAssumption`, `BudgetAssumption`, ...): finite sets, natural numbers, some
of them positive. The bounds on adversity (`MaxFaults`, `MaxEvents`, ...) are any
natural numbers, so the theorems hold for any amount of it.

| Module | Theorem | States |
|---|---|---|
| `ReconcilerProofs` | `TypeCorrect` | `TypeOK` |
| | `CacheBoundedlyStale` | `BoundedStaleness` |
| | `WritesAreOrdered` | `PersistBeforeTerminal` |
| | `ImplementsDiagnosis` | `LooksLikeADiagnosis`, the refinement |
| `RecoveryProofs` | `EveryOutcomeIsCounted` | `NothingSilent` |
| | `NothingForgotten` | `NeverForgotten` |
| | `RowsCatchUp` | `MirrorConverges` |
| | `RowsArePaidFor` | `RowsPaidFor` |
| `WatcherProofs` | `WatcherTypes` | `TypeOK` |
| | `NamespaceHasLastWord` | `NamespacePolicyWins` |
| | `BackfillRecreatesNothing` | `BackfillNeverRecreates` |
| | `SweepBoundsMemory` | `DedupGrowsOnlyLive` |
| `ChatProofs` | `ChatTypes` | `TypeOK`, with the caps of prompts and channels |
| | `FramesAreOrdered` | `FramesGrowToLatest` |
| | `TranscriptIsWhole` | `RepliesAreWhole` |
| | `QuestionIsSent` | `QuestionUnlessCrowded` |
| | `TurnsRunDown` | behind `TurnEnds`: a turn has at most `MaxDeltas + Retries + 5` steps, and nobody else sets it back |
| `PipelineProofs` | `PipelineTypes` | `TypeOK`, which its run leaves to the proof |
| | `NothingSilentlyMissing` | `ContextIsWhole` |
| | `RequestsAreWellFormed` | `ConversationIsClosed` |
| | `DiagnosisCost` | `CostIsBounded` |
| | `PhasesMean` | `OutcomeMeans` |
| | `ChannelsHaveTurns` | `EveryChannelHasItsTurn` |
| | `DiagnosisComesToAnEnd` | every step lowers the distance to the end, and a run ends with an outcome |
| `RetentionProofs` | `PruningLeavesNoOrphans` | `NoOrphans` |
| | `DoneHasRCA` | `OutcomeHasRCA` |
| | `OnlyFinishedPruned` | `PrunerDeletesOnlyFinished` |
| | `HistoryIsKept` | `KeptForRetention` |
| | `DashboardTypes`, `DetailIsTruthful` | `TypeOK`, `DetailTruthful` |
| | `ListShowsItsSlice` | `ListIsASlice` |
| `OperatorProofs` | `MigrationsApplyOnce` | `AppliedAsRecorded` |
| | `SchemaIsComplete` | `ServesOnlyMigrated` |
| | `SchemaOnlyAdvances` | `Schema!Forward`, the safety part of `SchemaVersions` |
| | `StartsFailBehindAnother` | behind `EveryProcessServes`: a start that nobody stops fails only because of another process |
| | `LoginBudget`, `OperatorTypes` | `BudgetHolds`, `TypeOK` |
| | `LockoutIsNotProlonged` | behind `LockoutEnds`: trying again adds nothing to a lockout |

`Induction` holds the lemmas about numbers and sequences that these share.

Hardly any of the properties is inductive as it stands. What each proof adds:

**ReconcilerProofs.** `BoundedStaleness` is inductive once typing is known:
`StatusSteps` sorts all steps by what they do to the CR (nothing, one accepted
update of one CR, a delivery, a tick, a crash), so that the proof has five cases
and not twenty-two. `PersistBeforeTerminal` says nothing of a worker between the
insert of the RCA row and the final patch, nor of the copy a mirroring worker
holds. `WriteOrder` adds that: at `doneUpsert` and `donePatch` the RCA row exists;
past the first upsert the incident row exists; and the copy a worker mirrors
promises no RCA that is not stored. It needs `BoundedStaleness` for the delivery:
what arrives in the cache is what the API server has. For the refinement,
`PhaseSteps` shows that all steps keep every phase except four patches. An
outcome patch is an abstract step only if the CR is Diagnosing when it lands,
which no guard checks: `RunShowsDiagnosing` carries it from `PatchDiagnosing`
through the run (nobody else moves the phase meanwhile; the backfill does not,
because by `BoundedStaleness` the copy it writes back is the latest).

**RecoveryProofs.** A step other than a tick, a resync or a crash concerns one CR
(`OthersKept`); the proofs follow it. `Counted`: a worker about to patch an outcome
has announced it already. `Attended`: a worker that mirrors holds the CR as it is,
or the key comes back; a terminal CR has its row, is being mirrored or comes
back. `Paid` is an amortisation: the rows stored plus those that may still come
without anything going wrong (`RowsToCome`, which depends on the worker's position
and on what the CR and its cached copy would make the entry switch do) never
exceed one plus what went wrong. `SameAge` ties the age of a run to the
`StartedAt` it wrote, so that staleness of the CR is a slow run.

**WatcherProofs.** `Vetted`: whoever is past the policy decision was accepted by it,
and a namespace all of whose policies turn an event down resolves to a policy
that does. `CacheCurrent`: a cached CR is the CR unless it is known to lag.
`FiniteMemory`: the Deduper remembers finitely many keys, without which its size
means nothing.

**ChatProofs.** What a page shows and what waits for it are one line of frames
(`Line`): receiving one only shortens it at the front, publishing only adds at its
end. `Sent`: no frame of it is ahead of its turn's text, so that a new frame is
longer than all before it of that turn; with `Ordered` and `Latest` this makes
`Frames`, for all viewers, connected or not. `Newest`: the newest frame published has all
the text of its turn, which therefore has published nothing since. `Paced`: what a
turn has received and may still receive stays within the longest reply.
`Transcript` adds where each
turn stands: no reply before `done`, its question present from `load` on.
`HistoryWithinCaps` shows what the trimming of the prompt computes: the longest
suffix within both caps. So a question that is not over them with all that follows is
in it (`LoadedQuestion`), and since the table only grows, one that is stays so
(`CrowdStays`). `StepsLeft`
counts the places, retries and deltas a turn has before it; each of its steps uses
one up, and the steps of other turns and of viewers do not change it, which would be
false if `Publish` waited for a subscriber.

**PipelineProofs.** `Owed`: while the context is collected, the reads made and those
to come are exactly the reads that are due, each once. It rests on
`FollowUpsAreDue`: what a read calls for is what its success makes due.
`AgentInv`: in the middle of a reply's tool calls the conversation is open by
exactly the calls still to come (`Dialogue`, `Traced`); tokens are the sum of what
was billed; an iteration makes one request (`Progress`); what the conversation
holds when an outcome is set (`Meaning`). `Turns`: the channels due are those
queued, in the order of their ranks, whoever was tried stands before them, and
time is used up only by a channel that timed out. `Distance` is a quadruple of
numbers that every step lowers in the lexicographic order: the stage first; then,
while collecting, whether a read is to come that may call for others, and the number
of reads; while running, the iterations left, the place in the iteration and the
calls pending; while announcing, the channels queued. Since that order has no
infinite descent, no diagnosis goes on for ever, which `Reconciler` takes for granted.
`EndsWithAnOutcome` closes the other gap, a diagnosis that stops short: a run that
has ended has an outcome, and something announced is there to count.

**RetentionProofs.** One fact about ages carries everything, `RowMatches`: the row of
a finished CR is as old as each copy of it that the API server, the cache or a
mirroring worker holds, unless the row is behind and not expired. A diagnosis that
is run again carries the age of its first completion, so the same has to be said of
it: `RerunIsYoung` and `MirrorIsYoung` order the copies of before and after a re-run
began or ended, and `RerunMatches` says that none of them is older than the row unless
it is not expired either; without them a mirror could put an old stamp on the row of an
outcome that is still within retention. With it go where
the copies agree (`CopiesAgree`), what a worker carries (`CarriesOutcome`), that its
row is there while it works (`RowKept`), and that a listed name is finished, gone
or born again (`VictimsDone`). For the detail page, `TruthInSight` relates the row
read first to what the second query will find. For the list, `CanBeSorted` shows
that `ORDER BY` has a result for any finite set of rows: no two rows have the same
number of rows ahead, so that number gives each a place (`FewerAhead`, and a
pigeonhole theorem of the library); `PlaceInList`, that a sorted list has no other
place for it; `PageBounds`, that the offsets of the page shown are those of
its slice, by arithmetic on `\div`; `TotalsAgree` compares the filters' sets. `ListInSight`
carries them from query to query: what a query read is what the table holds, as long
as nothing is written.

**OperatorProofs.** A process acts on what it read outside its transaction.
`Position` adds what survives of that: all files before the one a process is at are
recorded, whoever recorded them; at `record` and `commit` it holds the write lock;
at `commit` its version is still missing. `NoGap` says that the versions have no
gap, so the next one is the one after them. For `BudgetHolds`, `RecordHolds` bounds
what is recorded, and `LostIsOld` says that what was forgotten happened before the map
was last thrown away: a whole window later none of it is left to count. The proof
is about `Live`: what the filter's loop keeps of a sequence, of one with a failure
more, and of the same one a tick older. For lockouts, `NoYounger` follows each failure
through the loop and through time: those an address has after a step are among those
it had before, in order and none younger, unless a request in flight ended. For
starts, `LockHeld`: who holds the write lock is inside its transaction, so no start
waits for itself; and by `NoGap` a file that does not fit the schema has taken effect
already.

**Loops.** The library's induction theorems take a predicate as a parameter, which
no installed prover instantiates. Stated about the set of the numbers for which
the predicate holds they need no parameter: `UpTo` (a set with 0 that holds `n`
with `n - 1` holds all numbers up to a bound), and from it `LoopExists`, the
existence of the function a loop computes. So the loops that matter are written as
recursive functions (`Live`, `Bytes`, `TotalOf`) or as concatenations (`Enabled`), and
what they compute is proved for every input.

Model-checked only:

* all liveness (`FinishesUnlessAbandoned`, `MetadataArrives`, `TurnEnds`,
  `HistoryIsForgotten`, `EveryProcessServes`, `LockoutEnds`, and the last clause of
  `SchemaVersions` in `SchemaMovesForward`): TLAPS does not prove liveness under
  fairness; what it does prove towards them are the theorems above that name no
  property. `FailedStays` is liveness too, and holds only without storage errors;
* the five violations.

## 5. Not modelled

* The token check in front of the routes (`requireAuth`), routing and static
  files: no state.
* Configuration but for the settings that enable a channel: read once, they are
  the constants of the modules.
* Metrics: counters nothing reads back; the count of outcomes is `finished`.
* Templates but for the chat panel's stream element (most are generated), wording of messages, prompts and pages, and
  lengths of lines (a rendered line above 64 KiB ends an SSE frame early).
* The development server, generated deep copies, and the cluster tools' data.
* A truncated stream that looks complete: the code cannot tell, and neither does
  the model (`StreamEnds`).
* The rate limiter across restarts: its record is in memory, and no document
  states a bound for a process that keeps crashing.
* Redaction: which texts `RedactSnapshot` goes over is a list in the code that a model
  could only repeat, and the regular expressions are not looked into.
* Which of two policies of one namespace applies: the list has no order and nothing
  promises one, so `EventWatcher` allows either.

## 6. Plan

1. **RateLimiter**: the slice of time stamps, refining the slots of `Reconciler`.
2. **Reconciler**: status updates that take effect unanswered and are retried.

## 7. Running it

    tlc -workers 2 -config ReconcilerAdversity.cfg Reconciler
    tlapm ReconcilerProofs.tla

Each run's module and configuration are listed in `PROJECT.json`; the modules with
proofs are those of the table in section 4, and `Induction`.
