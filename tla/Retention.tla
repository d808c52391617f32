----------------------------- MODULE Retention -----------------------------
(***************************************************************************)
(* How an incident's history comes and goes: the retention pruner          *)
(* (runPruner in cmd/kscribe/main.go, Store.Prune, PruneDiagnosisCRs)      *)
(* against everything that writes what it deletes - the reconciler's       *)
(* upserts, its terminal mirror, chat turns, the event watcher creating a  *)
(* CR under a name that was used before, and a user deleting one.          *)
(*                                                                         *)
(* The pruner deletes the rows in one transaction, then lists the CRs from *)
(* the informer cache, then deletes them one by one.  Nothing stops a      *)
(* worker between these steps, and the worker's own reads are stale too.   *)
(*                                                                         *)
(* Time is kept as ages in ticks; ages stop at Retention + 1, where they   *)
(* are past every cutoff.  A sweep, the informer's lag, the steps before   *)
(* and after a run and the first mirror are shorter than a tick; a run is  *)
(* shorter than the retention period.  A run may begin on a copy from      *)
(* before the last one ended: a stored diagnosis is then Diagnosing again. *)
(* Reconcile is reduced to what touches history: the rate limiter, the     *)
(* recovery timer and the difference between Done and Partial are the      *)
(* Reconciler module's.                                                    *)
(***************************************************************************)
EXTENDS Naturals, FiniteSets

CONSTANTS
    Keys,         \* namespaced names
    Retention,    \* cfg.RetentionPeriod, in ticks
    MaxEvents     \* bound on what comes from outside, all together: CRs
                  \* created and deleted, failed calls, crashes, requests,
                  \* and runs that begin on a copy from before the last one

ASSUME RetentionAssumption ==
    /\ IsFiniteSet(Keys)
    /\ Retention \in Nat \ {0}
    /\ MaxEvents \in Nat

VARIABLES
    cr,       \* cr[k]: the CR on the API server; age is that of completedAt
    seen,     \* seen[k]: the informer cache's copy of it
    pc,       \* pc[k]: where the worker that reconciles k is
    loc,      \* loc[k]: the phase and completedAt that worker carries
    inc,      \* inc[k]: the incidents row; age is that of updated_at
    diags,    \* diags[k]: there are diagnoses rows
    chat,     \* chat[k]: there are chat_messages rows
    turn,     \* turn[k]: where a chat turn about k is
    late,     \* late[k]: a chat row was written while k had no incident row
    sweep,    \* the pruner's step
    victims,  \* names the pruner has listed and not yet dealt with
    reborn,   \* names created again while the cache or the list is older
    events    \* what has come from outside so far

crVars == <<cr, seen, reborn>>
workVars == <<pc, loc>>
rowVars == <<inc, diags>>
chatVars == <<chat, turn, late>>
sweepVars == <<sweep, victims>>
historyVars == <<crVars, workVars, rowVars, chatVars, sweepVars, events>>

-----------------------------------------------------------------------------
(* Data *)

Ages == 0 .. Retention + 1
Finals == {"Done", "Failed"}
Phases == {"Pending", "Diagnosing"} \cup Finals

\* kept is status.persisted: the RCA of some run was stored.
Stamp == [phase : Phases \cup {"None"}, age : Ages, kept : BOOLEAN]
At(p, a) == [phase |-> p, age |-> a, kept |-> p = "Done"]
None == At("None", 0)

Terminal(s) == s.phase \in Finals

\* A diagnosis that was stored and is run again: nothing takes the flag back.
Again(s) == s.phase = "Diagnosing" /\ s.kept

\* What Reconcile only mirrors.
Settled(s) == Terminal(s) \/ Again(s)

Older(s) == [s EXCEPT !.age = IF @ > Retention THEN @ ELSE @ + 1]

\* completedAt is set with the terminal phase and stays; it is looked at in a
\* settled CR only, and any other has no age here.
OlderCR(s) == IF Settled(s) THEN Older(s) ELSE s
Dated(s) == IF Settled(s) THEN s ELSE [s EXCEPT !.age = 0]

\* The status as a run begins, as a failed insert leaves it, and as a run with
\* outcome o ends it.
Started(s) == Dated([s EXCEPT !.phase = "Diagnosing"])
NotPersisted(s) == Dated([s EXCEPT !.kept = FALSE])
Ended(s, o) == [o EXCEPT !.kept = @ \/ s.kept]

\* An event, a user, a failure or a restart.
Outside ==
    /\ events < MaxEvents
    /\ events' = events + 1

Goto(k, label) == pc' = [pc EXCEPT ![k] = label]

\* Mutant: the mirror leaves updated_at to the clock.
MirrorNow(s) == [s EXCEPT !.age = 0]

\* incidentFromDiagnosis pins updated_at to completedAt.
MirrorOf(s) == s

\* Mutant: the cutoff includes rows that are exactly Retention old.
ExpiredAtCutoff(s) == s # None /\ s.age >= Retention

\* updated_at < cutoff
Expired(s) == s # None /\ s.age > Retention

\* Mutant: any old CR is pruned, its phase is not looked at.
PrunableWhateverPhase(s) == s # None /\ (Terminal(s) => s.age >= Retention)

\* Mutant: a failed diagnosis is not taken for a finished one.
PrunableDone(s) == s.phase = "Done" /\ s.age >= Retention

\* A terminal phase, and ~completedAt.After(cutoff).
Prunable(s) == Terminal(s) /\ s.age >= Retention

-----------------------------------------------------------------------------
(* CRs come and go *)

\* The event watcher creates a CR; its name may have been used before.
Create(k) ==
    /\ cr[k] = None
    /\ Outside
    /\ cr' = [cr EXCEPT ![k] = At("Pending", 0)]
    /\ reborn' = IF seen[k] # None \/ k \in victims THEN reborn \cup {k}
                                                    ELSE reborn
    /\ UNCHANGED <<seen, workVars, rowVars, chatVars, sweepVars>>

UserDelete(k) ==
    /\ cr[k] # None
    /\ Outside
    /\ cr' = [cr EXCEPT ![k] = None]
    /\ UNCHANGED <<seen, reborn, workVars, rowVars, chatVars, sweepVars>>

\* The informer catches up with the API server.
Deliver(k) ==
    /\ seen[k] # cr[k]
    /\ seen' = [seen EXCEPT ![k] = cr[k]]
    /\ reborn' = IF k \in victims THEN reborn ELSE reborn \ {k}
    /\ UNCHANGED <<cr, workVars, rowVars, chatVars, sweepVars, events>>

-----------------------------------------------------------------------------
(* Reconcile *)

\* A worker takes up the CR of a run that has ended, since the cache does not
\* show it yet.  How often the cache lags that long is bounded.
TooLate(k) == ~Settled(seen[k]) /\ Terminal(cr[k])

\* The first read: a settled CR is mirrored, any other is diagnosed.  Whether a
\* Diagnosing copy is taken up depends on the StorageError condition and on
\* startedAt, which are not followed: it may be, or the reconcile does nothing.
Begin(k) ==
    /\ pc[k] = "idle"
    /\ seen[k] # None
    /\ IF TooLate(k) THEN Outside ELSE UNCHANGED events
    /\ loc' = [loc EXCEPT ![k] = IF Settled(seen[k]) THEN seen[k] ELSE None]
    /\ Goto(k, IF Settled(seen[k]) THEN "mirror" ELSE "upsert")
    /\ UNCHANGED <<crVars, rowVars, chatVars, sweepVars>>

Mirror(k) ==
    /\ pc[k] = "mirror"
    /\ inc' = [inc EXCEPT ![k] = MirrorOf(loc[k])]
    /\ Goto(k, "idle")
    /\ loc' = [loc EXCEPT ![k] = None]
    /\ UNCHANGED <<crVars, diags, chatVars, sweepVars, events>>

UpsertDiagnosing(k) ==
    /\ pc[k] = "upsert"
    /\ inc' = [inc EXCEPT ![k] = At("Diagnosing", 0)]
    /\ Goto(k, "start")
    /\ UNCHANGED <<crVars, loc, diags, chatVars, sweepVars, events>>

\* patchStatus writes only over the version it read.
PatchDiagnosing(k) ==
    /\ pc[k] = "start"
    /\ cr[k] # None /\ seen[k] = cr[k]
    /\ cr' = [cr EXCEPT ![k] = Started(@)]
    /\ Goto(k, "run")
    /\ UNCHANGED <<seen, reborn, loc, rowVars, chatVars, sweepVars, events>>

\* The run, for a CR the read before it still finds; completedAt is now.
Run(k) ==
    /\ pc[k] = "run"
    /\ seen[k] # None
    /\ \E p \in Finals :
        /\ loc' = [loc EXCEPT ![k] = At(p, 0)]
        /\ Goto(k, IF p = "Done" THEN "insert" ELSE "finish")
    /\ UNCHANGED <<crVars, rowVars, chatVars, sweepVars, events>>

InsertDiagnosis(k) ==
    /\ pc[k] = "insert"
    /\ diags' = [diags EXCEPT ![k] = TRUE]
    /\ Goto(k, "finish")
    /\ UNCHANGED <<crVars, loc, inc, chatVars, sweepVars, events>>

\* It fails: the status may be told so, best effort, and the error is returned.
InsertFails(k) ==
    /\ pc[k] = "insert"
    /\ Outside
    /\ \/ /\ cr[k] # None /\ seen[k] = cr[k]
          /\ cr' = [cr EXCEPT ![k] = NotPersisted(@)]
       \/ UNCHANGED cr
    /\ Goto(k, "idle")
    /\ loc' = [loc EXCEPT ![k] = None]
    /\ UNCHANGED <<seen, reborn, rowVars, chatVars, sweepVars>>

\* The final upsert is best effort: its error is dropped.
Finish(k) ==
    /\ pc[k] = "finish"
    /\ \/ inc' = [inc EXCEPT ![k] = At(loc[k].phase, 0)] /\ UNCHANGED events
       \/ UNCHANGED inc /\ Outside
    /\ Goto(k, "final")
    /\ UNCHANGED <<crVars, loc, diags, chatVars, sweepVars>>

PatchFinal(k) ==
    /\ pc[k] = "final"
    /\ cr[k] # None /\ seen[k] = cr[k]
    /\ cr' = [cr EXCEPT ![k] = Ended(@, loc[k])]
    /\ Goto(k, "idle")
    /\ loc' = [loc EXCEPT ![k] = None]
    /\ UNCHANGED <<seen, reborn, rowVars, chatVars, sweepVars, events>>

\* The CR is gone: from the cache (every read) or from the server (a write).
Gone(k) ==
    /\ \/ pc[k] = "run" /\ seen[k] = None
       \/ pc[k] \in {"start", "final"} /\ (seen[k] = None \/ cr[k] = None)
    /\ Goto(k, "idle")
    /\ loc' = [loc EXCEPT ![k] = None]
    /\ UNCHANGED <<crVars, rowVars, chatVars, sweepVars, events>>

\* A failed store or API call whose error Reconcile returns.
ReconcileFails(k) ==
    /\ pc[k] \in {"mirror", "upsert", "start", "final"}
    /\ Outside
    /\ Goto(k, "idle")
    /\ loc' = [loc EXCEPT ![k] = None]
    /\ UNCHANGED <<crVars, rowVars, chatVars, sweepVars>>

-----------------------------------------------------------------------------
(* Chat turns *)

ChatRow(k) ==
    /\ chat' = [chat EXCEPT ![k] = TRUE]
    /\ late' = [late EXCEPT ![k] = @ \/ inc[k] = None]

\* RunChat stores the question before it looks the incident up.
Ask(k) ==
    /\ turn[k] = "idle"
    /\ Outside
    /\ ChatRow(k)
    /\ turn' = [turn EXCEPT ![k] = "load"]
    /\ UNCHANGED <<crVars, workVars, rowVars, sweepVars>>

Load(k) ==
    /\ turn[k] = "load"
    /\ turn' = [turn EXCEPT ![k] = IF inc[k] = None THEN "idle" ELSE "stream"]
    /\ UNCHANGED <<crVars, workVars, rowVars, chat, late, sweepVars, events>>

\* The stream ends in a reply, or in an error and no reply.
Reply(k) ==
    /\ turn[k] = "stream"
    /\ ChatRow(k) \/ UNCHANGED <<chat, late>>
    /\ turn' = [turn EXCEPT ![k] = "idle"]
    /\ UNCHANGED <<crVars, workVars, rowVars, sweepVars, events>>

-----------------------------------------------------------------------------
(* The pruner *)

Without(f, dead, v) == [k \in Keys |-> IF k \in dead THEN v ELSE f[k]]

\* Mutant: the children are left to a cascade the schema does not have.
PruneIncidentsOnly ==
    /\ inc' = Without(inc, {k \in Keys : Expired(inc[k])}, None)
    /\ UNCHANGED <<diags, chat, late>>

\* Store.Prune: chat messages, RCAs and incidents in one transaction.
Prune ==
    LET dead == {k \in Keys : Expired(inc[k])}
    IN  /\ inc' = Without(inc, dead, None)
        /\ diags' = Without(diags, dead, FALSE)
        /\ chat' = Without(chat, dead, FALSE)
        /\ late' = Without(late, dead, FALSE)

\* The rows first; an error is logged and the CRs are swept all the same.
PruneRows ==
    /\ sweep = "idle"
    /\ \/ Prune /\ UNCHANGED events
       \/ Outside /\ UNCHANGED <<rowVars, chat, late>>
    /\ sweep' = "list"
    /\ UNCHANGED <<crVars, workVars, turn, victims>>

ListVictims ==
    /\ sweep = "list"
    /\ victims' = {k \in Keys : Prunable(seen[k])}
    /\ sweep' = "delete"
    /\ UNCHANGED <<crVars, workVars, rowVars, chatVars, events>>

\* Delete by name: NotFound is fine, other errors wait for the next sweep.
DeleteVictim(k) ==
    /\ k \in victims
    /\ victims' = victims \ {k}
    /\ \/ cr' = [cr EXCEPT ![k] = None] /\ UNCHANGED events
       \/ UNCHANGED cr /\ Outside
    /\ UNCHANGED <<seen, reborn, workVars, rowVars, chatVars, sweep>>

\* The loop waits for its ticker.
SweepEnds ==
    /\ sweep = "delete"
    /\ victims = {}
    /\ sweep' = "asleep"
    /\ UNCHANGED <<crVars, workVars, rowVars, chatVars, victims, events>>

-----------------------------------------------------------------------------
(* Time and restarts *)

\* The mirror of a settled CR is still to come, or on its way, or a copy from
\* before the terminal patch is about to be mirrored over it.
Behind(k) ==
    \/ /\ inc[k] # None
       /\ \E s \in {seen[k], loc[k]} : Settled(s) /\ inc[k].phase # s.phase
    \/ Again(loc[k]) /\ ~Again(cr[k])

\* A tick passes, and the pruner's ticker fires.
Tick ==
    /\ sweep \in {"idle", "asleep"}
    /\ sweep' = "idle"
    /\ seen = cr
    /\ \A k \in Keys :
        /\ pc[k] \in {"idle", "mirror", "run"}
        /\ pc[k] = "run" => inc[k].age < Retention
        /\ ~Behind(k)
    /\ cr' = [k \in Keys |-> OlderCR(cr[k])]
    /\ seen' = [k \in Keys |-> OlderCR(seen[k])]
    /\ loc' = [k \in Keys |-> OlderCR(loc[k])]
    /\ inc' = [k \in Keys |-> IF inc[k] = None THEN None ELSE Older(inc[k])]
    /\ UNCHANGED <<reborn, pc, diags, chatVars, victims, events>>

Crash ==
    /\ Outside
    /\ seen' = cr
    /\ reborn' = {}
    /\ pc' = [k \in Keys |-> "idle"]
    /\ loc' = [k \in Keys |-> None]
    /\ turn' = [k \in Keys |-> "idle"]
    /\ sweep' = "idle"
    /\ victims' = {}
    /\ UNCHANGED <<cr, rowVars, chat, late>>

-----------------------------------------------------------------------------

HistoryInit ==
    /\ cr = [k \in Keys |-> None]
    /\ seen = cr
    /\ pc = [k \in Keys |-> "idle"]
    /\ loc = cr
    /\ inc = cr
    /\ diags = [k \in Keys |-> FALSE]
    /\ chat = diags
    /\ turn = pc
    /\ late = diags
    /\ sweep = "idle"
    /\ victims = {}
    /\ reborn = {}
    /\ events = 0

\* A step of the worker that holds k, faults aside.
Work(k) ==
    \/ Mirror(k)
    \/ UpsertDiagnosing(k)
    \/ PatchDiagnosing(k)
    \/ Run(k)
    \/ InsertDiagnosis(k)
    \/ Finish(k)
    \/ PatchFinal(k)
    \/ Gone(k)

Sweep ==
    \/ PruneRows
    \/ ListVictims
    \/ \E k \in Keys : DeleteVictim(k)
    \/ SweepEnds

\* Every step but the clock's and the restart.
HistoryStep ==
    \/ Sweep
    \/ \E k \in Keys :
        \/ Create(k) \/ UserDelete(k) \/ Deliver(k)
        \/ Begin(k) \/ Work(k) \/ InsertFails(k) \/ ReconcileFails(k)
        \/ Ask(k) \/ Load(k) \/ Reply(k)

\* The workqueue brings an unfinished CR, or one whose row is behind, back to
\* Reconcile, goroutines run, the informer's watch is alive, and time
\* goes on.
HistoryFairness ==
    /\ WF_historyVars(Tick)
    /\ WF_historyVars(Sweep)
    /\ \A k \in Keys :
        /\ WF_historyVars((~Terminal(seen[k]) \/ Behind(k)) /\ Begin(k))
        /\ WF_historyVars(Work(k))
        /\ WF_historyVars(Deliver(k))

-----------------------------------------------------------------------------
(* Properties *)

HistoryTypeOK ==
    /\ {cr, seen, loc, inc} \subseteq [Keys -> Stamp]
    /\ pc \in [Keys -> {"idle", "mirror", "upsert", "start", "run", "insert",
                        "finish", "final"}]
    /\ {diags, chat, late} \subseteq [Keys -> BOOLEAN]
    /\ turn \in [Keys -> {"idle", "load", "stream"}]
    /\ sweep \in {"idle", "list", "delete", "asleep"}
    /\ {victims, reborn} \subseteq SUBSET Keys
    /\ events \in 0 .. MaxEvents

\* Pruning leaves nothing behind: RCA rows always belong to an incident row,
\* and chat rows do too unless a turn outlived its incident - RunChat writes
\* without looking whether the incident still has a row.
NoOrphans ==
    \A k \in Keys :
        inc[k] = None => ~diags[k] /\ (chat[k] => late[k])

\* An incident shown as Done has its RCA: the terminal mirror may bring back a
\* row the pruner just deleted, but only as a row that is expired already.
OutcomeHasRCA ==
    \A k \in Keys : inc[k].phase = "Done" /\ ~diags[k] => Expired(inc[k])

\* The pruner deletes no CR that is not finished, whatever the reconciler does
\* between its list and its deletes; a CR created again under the name of one
\* the cache or the list still holds is the exception, for Delete names no UID.
PrunerDeletesOnlyFinished ==
    [][\A k \in Keys :
        (k \in victims /\ cr[k] # None /\ cr'[k] = None /\ victims' # victims)
            => Terminal(cr[k]) \/ k \in reborn]_historyVars

\* No history is lost early: while the CR of a finished incident is within
\* retention its row stays, however often it is mirrored and swept.
KeptForRetention ==
    [][\A k \in Keys :
        (inc[k] # None /\ inc'[k] = None)
            => ~Terminal(cr[k]) \/ cr[k].age > Retention]_historyVars

\* With the pruner on, history is forgotten: in the end the RCAs are gone, and
\* the CR and its row too, resurrected rows included.  The exception is a CR
\* whose finished diagnosis was run again and abandoned: it is not terminal for
\* PruneDiagnosisCRs, Reconcile only mirrors it (181-185), and its row, pinned
\* to completedAt, is pruned and brought back for ever.
HistoryIsForgotten ==
    <>[](\A k \in Keys :
            /\ ~diags[k]
            /\ Again(cr[k]) \/ (cr[k] = None /\ inc[k] = None))
=============================================================================
