--------------------------- MODULE RecoveryProofs ---------------------------
(***************************************************************************)
(* TLAPS proofs of what Reconciler keeps through failures, crashes and     *)
(* stale copies: nothing finishes in silence, nothing that needs work is   *)
(* forgotten, the incident row catches up with a terminal CR, and every    *)
(* RCA row beyond the first is paid for.                                   *)
(*                                                                         *)
(* Each has an inductive form about one key: Counted, Attended, Paid.      *)
(* A step other than a tick, a resync or a crash concerns one key          *)
(* (OthersKept), so the proofs follow that key through its actions.        *)
(***************************************************************************)
EXTENDS ReconcilerProofs

-----------------------------------------------------------------------------
(* The inductive invariants *)

\* The outcome is counted before the CR shows it.
CountedAt(k) ==
    /\ Terminal(api[k]) \/ pc[k] \in {"failPatch", "donePatch"}
         => finished[k] > 0
    /\ diags[k] <= finished[k] + crashes
                     + (IF pc[k] = "doneUpsert" THEN 1 ELSE 0)

Counted == \A k \in Keys : CountedAt(k)

\* The key comes back by itself.
Enqueued(k) == k \in queue \cup delayed \/ watch[k] # <<>>

\* A CR that NeverForgotten speaks of.
Needy(c) ==
    \/ c.phase \in {"Unset", "Pending"}
    \/ c.phase = "Diagnosing" /\ c.storageErr /\ ~c.persisted

\* A mirror is written from the CR as it is, or the key comes back; a terminal
\* CR has its row, or is being mirrored, or comes back.
AttendedAt(k) ==
    /\ pc[k] = "mirror" =>
         /\ Mirrors(loc[k].snap)
         /\ Enqueued(k) \/ MirrorOf(loc[k].snap) = MirrorOf(api[k])
    /\ Terminal(api[k]) =>
         \/ Enqueued(k)
         \/ pc[k] = "idle" /\ inc[k] = MirrorOf(api[k])
         \/ pc[k] = "mirror"
    /\ Needy(api[k]) => Enqueued(k) \/ pc[k] # "idle"

Attended == \A k \in Keys : AttendedAt(k)

\* One more row that a copy of this version may bring about once its own run
\* is over: the entry switch takes it up again if it says so.
Retry(c, old) == IF ~c.persisted /\ (c.storageErr \/ old) THEN 1 ELSE 0

Settled(c) == Terminal(c) /\ c.persisted

\* The steps of a run that may still store a row, or end without one.
Storing == {"upsert", "start", "run", "insert", "failUpsert", "failPatch"}

\* The rows k may still get without a further failure, crash or slow run.
RowsToCome(k) ==
    IF pc[k] = "storageErr" THEN 2
    ELSE IF pc[k] \in {"doneUpsert", "donePatch"}
    THEN Retry(api[k], loc[k].age = StaleAfter)
    ELSE IF pc[k] \in Storing
    THEN 1 + Retry(api[k], loc[k].age = StaleAfter)
    ELSE IF pc[k] \in {"allow", "throttle"} \/ ~Settled(api[k])
    THEN 1 + Retry(api[k], FALSE)
    ELSE IF Proceeds(cache[k]) THEN 1 ELSE 0

Paid ==
    \A k \in Keys :
        diags[k] + RowsToCome(k) <= 1 + faults + crashes + slow

\* The StartedAt a run wrote is the one it started with.
SameAge ==
    \A k \in Keys : pc[k] \in PastStart => api[k].age = loc[k].age

-----------------------------------------------------------------------------
(* One step, one key *)

KeyStep(k) ==
    Begin(k) \/ Advance(k) \/ Fails(k) \/ Deliver(k) \/ TimerFires(k)
      \/ Backfill(k)

\* What a step that concerns k leaves alone.
OthersKept(k) ==
    /\ \A j \in Keys \ {k} :
        /\ api'[j] = api[j] /\ cache'[j] = cache[j] /\ watch'[j] = watch[j]
        /\ pc'[j] = pc[j] /\ loc'[j] = loc[j]
        /\ inc'[j] = inc[j] /\ diags'[j] = diags[j]
        /\ finished'[j] = finished[j]
        /\ j \in queue \cup delayed => j \in queue' \cup delayed'
    /\ faults <= faults' /\ crashes' = crashes /\ slow' = slow

LEMMA KeySteps ==
  ASSUME Next
  PROVE  (\E k \in Keys : KeyStep(k)) \/ Resync \/ Tick \/ Crash
  BY DEF Next, KeyStep

LEMMA KeptByKeyStep ==
  ASSUME TypeOK, NEW k \in Keys, KeyStep(k)
  PROVE  OthersKept(k)
  <1> USE DEF EnvUnchanged, store, spent, Goto, TypeOK, OthersKept
  <1>1. CASE Begin(k)
    BY <1>1 DEF Begin
  <1>2. CASE Mirror(k) \/ MirrorFails(k)
    BY <1>2 DEF Mirror, MirrorFails, Fault, Return, Requeue
  <1>3. CASE Allow(k) \/ Deny(k) \/ UpsertDiagnosing(k)
    BY <1>3 DEF Allow, Deny, UpsertDiagnosing
  <1>4. CASE Throttle(k) \/ ThrottleFails(k) \/ ErrorReturned(k)
    BY <1>4 DEF Throttle, ThrottleFails, ErrorReturned, Update, Fault, Requeue
  <1>5. CASE PatchDiagnosing(k) \/ Backfill(k)
    BY <1>5 DEF PatchDiagnosing, Backfill, Update
  <1>6. CASE (\E o \in Outcomes : Run(k, o)) \/ InsertDiagnosis(k)
    BY <1>6 DEF Run, InsertDiagnosis
  <1>7. CASE FinishFailed(k) \/ FinishDone(k) \/ InsertFails(k)
    BY <1>7 DEF FinishFailed, FinishDone, InsertFails, Fault
  <1>8. CASE PatchFailed(k) \/ PatchDone(k)
    BY <1>8 DEF PatchFailed, PatchDone, Update, Return
  <1>9. CASE PatchStorageError(k)
    BY <1>9 DEF PatchStorageError, Update, Fault, Requeue
  <1>10. CASE Deliver(k) \/ TimerFires(k)
    BY <1>10 DEF Deliver, TimerFires
  <1> QED
    BY <1>1, <1>2, <1>3, <1>4, <1>5, <1>6, <1>7, <1>8, <1>9, <1>10
       DEF KeyStep, Advance, Fails

-----------------------------------------------------------------------------
(* The version each status update writes *)

\* What an accepted update of k does to k.
LEMMA UpdatedKey ==
  ASSUME TypeOK, BoundedStaleness, NEW k \in Keys, NEW c \in CR, Update(k, c)
  PROVE  /\ api'[k] = c
         /\ cache[k] = api[k]
         /\ watch[k] = <<>>
         /\ watch'[k] # <<>> \/ (c = api[k] /\ watch'[k] = <<>>)
  <1>1. /\ api'[k] = c
        /\ cache[k] = api[k]
        /\ watch[k] = <<>>
    <2>1. api'[k] = c
      BY DEF Update, TypeOK
    <2>2. watch[k] = <<>>
      BY DEF Update, UpToDate
    <2>3. cache[k] = api[k]
      BY <2>2 DEF BoundedStaleness
    <2> QED
      BY <2>1, <2>2, <2>3
  <1>2. watch' = [watch EXCEPT ![k] = Append(@, c)]
          \/ (c = api[k] /\ watch' = watch)
    BY DEF Update
  <1>3. Append(<<>>, c) # <<>>
    OBVIOUS
  <1> QED
    BY <1>1, <1>2, <1>3 DEF TypeOK

\* Persisted and the StorageError condition are left as they were.
Keeps(c, d) == c.persisted = d.persisted /\ c.storageErr = d.storageErr

\* The throttled status.
LEMMA ThrottleWrites ==
  ASSUME TypeOK, NEW k \in Keys, Throttle(k)
  PROVE  \E c \in CR : /\ Update(k, c)
                       /\ c.phase = "Pending"
                       /\ Keeps(c, cache[k])
  <1> DEFINE c == [cache[k] EXCEPT !.phase = "Pending"]
  <1>0. /\ cache[k] \in CR
        /\ loc[k].age \in 0..StaleAfter
        /\ loc[k].outcome \in Outcomes
    BY DEF TypeOK, Locals
  <1>1. c \in CR
    BY <1>0, PatchedType
  <1>2. /\ c.phase = "Pending"
        /\ Keeps(c, cache[k])
    BY <1>0 DEF CR, Keeps
  <1>3. Update(k, c)
    BY DEF Throttle
  <1> HIDE DEF c
  <1> QED
    BY <1>1, <1>2, <1>3

\* The start of a run.
LEMMA StartWrites ==
  ASSUME TypeOK, NEW k \in Keys, PatchDiagnosing(k)
  PROVE  \E c \in CR : /\ Update(k, c)
                       /\ c.phase = "Diagnosing"
                       /\ c.age = loc[k].age
                       /\ Keeps(c, cache[k])
  <1> DEFINE c == [cache[k] EXCEPT !.phase = "Diagnosing", !.age = loc[k].age]
  <1>0. /\ cache[k] \in CR
        /\ loc[k].age \in 0..StaleAfter
        /\ loc[k].outcome \in Outcomes
    BY DEF TypeOK, Locals
  <1>1. c \in CR
    BY <1>0, PatchedType
  <1>2. /\ c.phase = "Diagnosing"
        /\ c.age = loc[k].age
        /\ Keeps(c, cache[k])
    BY <1>0 DEF CR, Keeps
  <1>3. Update(k, c)
    BY DEF PatchDiagnosing
  <1> HIDE DEF c
  <1> QED
    BY <1>1, <1>2, <1>3

\* The end of a run without an RCA.
LEMMA FailedWrites ==
  ASSUME TypeOK, NEW k \in Keys, PatchFailed(k)
  PROVE  \E c \in CR : /\ Update(k, c)
                       /\ c.phase = "Failed"
                       /\ Keeps(c, cache[k])
  <1> DEFINE c == [cache[k] EXCEPT !.phase = "Failed"]
  <1>0. /\ cache[k] \in CR
        /\ loc[k].age \in 0..StaleAfter
        /\ loc[k].outcome \in Outcomes
    BY DEF TypeOK, Locals
  <1>1. c \in CR
    BY <1>0, PatchedType
  <1>2. /\ c.phase = "Failed"
        /\ Keeps(c, cache[k])
    BY <1>0 DEF CR, Keeps
  <1>3. Update(k, c)
    BY DEF PatchFailed
  <1> HIDE DEF c
  <1> QED
    BY <1>1, <1>2, <1>3

\* The end of a run with one.
LEMMA DoneWrites ==
  ASSUME TypeOK, NEW k \in Keys, PatchDone(k)
  PROVE  \E c \in CR : /\ Update(k, c)
                       /\ c.phase \in Outcomes
                       /\ c.persisted
  <1> DEFINE c == [cache[k] EXCEPT !.phase = loc[k].outcome,
                                   !.persisted = TRUE, !.storageErr = FALSE]
  <1>0. /\ cache[k] \in CR
        /\ loc[k].age \in 0..StaleAfter
        /\ loc[k].outcome \in Outcomes
    BY DEF TypeOK, Locals
  <1>1. c \in CR
    BY <1>0, PatchedType
  <1>2. /\ c.phase \in Outcomes
        /\ c.persisted
    BY <1>0 DEF CR, Keeps
  <1>3. Update(k, c)
    BY DEF PatchDone
  <1> HIDE DEF c
  <1> QED
    BY <1>1, <1>2, <1>3

\* The backfill.
LEMMA BackfillWrites ==
  ASSUME TypeOK, NEW k \in Keys, Backfill(k)
  PROVE  \E c \in CR : /\ Update(k, c)
                       /\ c.phase = cache[k].phase
                       /\ c.age = cache[k].age
                       /\ Keeps(c, cache[k])
  <1> DEFINE c == [cache[k] EXCEPT !.filled = TRUE]
  <1>0. /\ cache[k] \in CR
        /\ loc[k].age \in 0..StaleAfter
        /\ loc[k].outcome \in Outcomes
    BY DEF TypeOK, Locals
  <1>1. c \in CR
    BY <1>0, PatchedType
  <1>2. /\ c.phase = cache[k].phase
        /\ c.age = cache[k].age
        /\ Keeps(c, cache[k])
    BY <1>0 DEF CR, Keeps
  <1>3. Update(k, c)
    BY DEF Backfill
  <1> HIDE DEF c
  <1> QED
    BY <1>1, <1>2, <1>3

\* The storage error, if it is recorded.
LEMMA StorageErrorWrites ==
  ASSUME TypeOK, NEW k \in Keys, PatchStorageError(k),
         ~UNCHANGED <<api, watch>>
  PROVE  \E c \in CR : /\ Update(k, c)
                       /\ c.phase = cache[k].phase
  <1> DEFINE c == [cache[k] EXCEPT !.persisted = FALSE, !.storageErr = TRUE]
  <1>0. /\ cache[k] \in CR
        /\ loc[k].age \in 0..StaleAfter
        /\ loc[k].outcome \in Outcomes
    BY DEF TypeOK, Locals
  <1>1. c \in CR
    BY <1>0, PatchedType
  <1>2. /\ c.phase = cache[k].phase
    BY <1>0 DEF CR, Keeps
  <1>3. Update(k, c)
    BY DEF PatchStorageError
  <1> HIDE DEF c
  <1> QED
    BY <1>1, <1>2, <1>3

-----------------------------------------------------------------------------
(* Nothing finishes in silence *)

LEMMA CountedStep ==
  ASSUME TypeOK, BoundedStaleness, RunShowsDiagnosing, Counted, [Next]_vars
  PROVE  Counted'
  <1> USE DEF EnvUnchanged, store, spent
  <1>0. \A k \in Keys :
          /\ finished[k] \in Nat /\ diags[k] \in Nat /\ crashes \in Nat
          /\ finished[k] <= MaxCount /\ diags[k] <= MaxCount
    BY ConstantsAssumption DEF TypeOK
  <1>1. ASSUME NEW k \in Keys, KeyStep(k) PROVE Counted'
    <2>1. OthersKept(k)
      BY <1>1, KeptByKeyStep
    <2>2. SUFFICES CountedAt(k)'
      BY <2>1 DEF OthersKept, Counted, CountedAt, Terminal
    <2>3. CountedAt(k)
      BY DEF Counted
    <2>4. ASSUME NEW c \in CR, Update(k, c),
                 c.phase \in Outcomes => finished[k] > 0,
                 UNCHANGED <<finished, diags, crashes>>,
                 pc'[k] # "doneUpsert" => pc[k] # "doneUpsert",
                 pc'[k] \in {"failPatch", "donePatch"} =>
                   pc[k] \in {"failPatch", "donePatch"}
          PROVE  CountedAt(k)'
      <3>1. api'[k] = c
        BY <2>4, UpdatedKey
      <3> QED
        BY <1>0, <2>3, <2>4, <3>1 DEF CountedAt, Terminal
    <2>5. CASE Throttle(k)
      <3>1. pc[k] = "throttle" /\ pc'[k] = "idle"
        BY <2>5, Released DEF Throttle
      <3>2. PICK c \in CR : Update(k, c) /\ c.phase = "Pending"
        BY <2>5, ThrottleWrites
      <3>3. UNCHANGED <<finished, diags, crashes>>
        BY <2>5 DEF Throttle
      <3> QED
        BY <2>4, <3>1, <3>2, <3>3 DEF Outcomes
    <2>6. CASE PatchDiagnosing(k)
      <3>1. pc[k] = "start" /\ pc'[k] = "run"
        BY <2>6 DEF PatchDiagnosing, Goto, TypeOK
      <3> QED
        BY <2>4, <2>6, <3>1, StartWrites DEF PatchDiagnosing, Outcomes
    <2>7. CASE PatchFailed(k) \/ PatchDone(k)
      <3>1. pc[k] \in {"failPatch", "donePatch"} /\ pc'[k] = "idle"
        BY <2>7, Released DEF PatchFailed, PatchDone
      <3>2. finished[k] > 0
        BY <2>3, <3>1 DEF CountedAt
      <3> QED
        BY <2>4, <2>7, <3>1, <3>2, FailedWrites, DoneWrites
           DEF PatchFailed, PatchDone
    <2>8. CASE Backfill(k)
      BY <2>3, <2>4, <2>8, BackfillWrites, UpdatedKey
         DEF Backfill, CountedAt, Terminal
    <2>9. ASSUME UNCHANGED <<api, finished, diags, crashes>>,
                 pc'[k] # "doneUpsert" => pc[k] # "doneUpsert",
                 pc'[k] \in {"failPatch", "donePatch"} =>
                   pc[k] \in {"failPatch", "donePatch"}
          PROVE  CountedAt(k)'
      BY <1>0, <2>3, <2>9 DEF CountedAt, Terminal
    <2>10. CASE PatchStorageError(k)
      <3>1. pc[k] = "storageErr" /\ pc'[k] = "idle"
        BY <2>10, Released DEF PatchStorageError
      <3>2. CASE UNCHANGED <<api, watch>>
        BY <2>1, <2>9, <2>10, <3>1, <3>2 DEF PatchStorageError, OthersKept
      <3>3. CASE ~UNCHANGED <<api, watch>>
        <4>1. api[k].phase \notin Outcomes
          BY <3>1 DEF RunShowsDiagnosing, PastStart, InRun, Outcomes
        <4>2. PICK c \in CR : Update(k, c) /\ c.phase = cache[k].phase
          BY <2>10, <3>3, StorageErrorWrites
        <4>3. c.phase \notin Outcomes
          BY <4>1, <4>2, UpdatedKey
        <4> QED
          BY <2>1, <2>4, <2>10, <3>1, <4>2, <4>3
             DEF PatchStorageError, OthersKept
      <3> QED
        BY <3>2, <3>3
    <2>11. CASE Begin(k) \/ Deliver(k) \/ TimerFires(k)
      BY <2>9, <2>11 DEF Begin, Goto, Deliver, TimerFires, TypeOK
    <2>12. CASE Mirror(k) \/ Fails(k)
      <3>1. CASE InsertFails(k)
        BY <2>1, <2>9, <3>1 DEF InsertFails, Goto, OthersKept, TypeOK
      <3>2. CASE Mirror(k) \/ MirrorFails(k) \/ ThrottleFails(k)
                   \/ ErrorReturned(k)
        BY <2>1, <2>9, <3>2, Released
           DEF Mirror, MirrorFails, ThrottleFails, ErrorReturned, OthersKept
      <3> QED
        BY <2>12, <3>1, <3>2 DEF Fails
    <2>13. CASE \/ Allow(k) \/ Deny(k) \/ UpsertDiagnosing(k)
                \/ \E o \in Outcomes : Run(k, o)
      BY <2>9, <2>13 DEF Allow, Deny, UpsertDiagnosing, Run, Goto, TypeOK
    <2>14. CASE InsertDiagnosis(k)
      <3>1. /\ pc[k] = "insert" /\ pc'[k] = "doneUpsert"
            /\ diags'[k] = PlusOne(diags[k])
            /\ UNCHANGED <<api, finished, crashes>>
        BY <2>14 DEF InsertDiagnosis, Goto, TypeOK
      <3>2. PlusOne(diags[k]) <= diags[k] + 1
        BY <1>0 DEF PlusOne
      <3>3. PlusOne(diags[k]) \in Nat
        BY <1>0 DEF PlusOne
      <3> QED
        BY <1>0, <2>3, <3>1, <3>2, <3>3 DEF CountedAt, Terminal
    <2>15. CASE FinishFailed(k) \/ FinishDone(k)
      <3>1. /\ pc[k] \in {"failUpsert", "doneUpsert"}
            /\ pc'[k] \in {"failPatch", "donePatch"}
            /\ finished'[k] = PlusOne(finished[k])
            /\ UNCHANGED <<api, diags, crashes>>
        BY <2>15 DEF FinishFailed, FinishDone, Goto, Fault, TypeOK
      <3>2. \/ PlusOne(finished[k]) = finished[k] + 1
            \/ PlusOne(finished[k]) = finished[k] /\ finished[k] = MaxCount
        BY <1>0, ConstantsAssumption DEF PlusOne
      <3> QED
        BY <1>0, <2>3, <3>1, <3>2, ConstantsAssumption DEF CountedAt, Terminal
    <2> QED
      BY <1>1, <2>5, <2>6, <2>7, <2>8, <2>10, <2>11, <2>12, <2>13,
         <2>14, <2>15 DEF KeyStep, Advance
  <1>2. CASE Resync \/ UNCHANGED vars
    BY <1>2 DEF Resync, vars, Counted, CountedAt, Terminal
  <1>3. CASE Tick
    <2>1. \A k \in Keys : api'[k].phase = api[k].phase
      BY <1>3, OlderKeeps DEF Tick, TypeOK
    <2> QED
      BY <1>3, <2>1 DEF Tick, Counted, CountedAt, Terminal
  <1>4. CASE Crash
    BY <1>0, <1>4 DEF Crash, Counted, CountedAt, Terminal
  <1> QED
    BY <1>1, <1>2, <1>3, <1>4, KeySteps

\* Nothing is finished in silence, for any number of CRs, workers, failures
\* and crashes: a terminal CR was counted, notified and published, and so was
\* each RCA row but for those a crash cut short.
THEOREM EveryOutcomeIsCounted == Spec => []NothingSilent
  <1>1. Init => Counted /\ RunShowsDiagnosing
    <2> SUFFICES ASSUME Init PROVE Counted /\ RunShowsDiagnosing
      OBVIOUS
    <2>1. \A k \in Keys : api[k].phase = "Unset"
      BY DEF Init, NewCR
    <2>2. Counted
      BY <2>1 DEF Init, Counted, CountedAt, Terminal, Outcomes
    <2>3. RunShowsDiagnosing
      BY DEF Init, RunShowsDiagnosing, PastStart, InRun
    <2> QED
      BY <2>2, <2>3
  <1>2. TypeOK /\ BoundedStaleness /\ RunShowsDiagnosing /\ [Next]_vars
          => RunShowsDiagnosing'
    BY RunStep
  <1>3. TypeOK /\ BoundedStaleness /\ RunShowsDiagnosing /\ Counted
          /\ [Next]_vars => Counted'
    BY CountedStep
  <1>4. Counted => NothingSilent
    BY DEF Counted, CountedAt, NothingSilent
  <1> QED
    BY <1>1, <1>2, <1>3, <1>4, TypeCorrect, CacheBoundedlyStale, PTL DEF Spec

-----------------------------------------------------------------------------
(* Nothing that needs work is forgotten, and the mirror converges *)

\* Which CRs are mirrored, and which need work, is told by disjoint cases.
LEMMA Disjoint ==
  ASSUME NEW c \in CR
  PROVE  /\ Terminal(c) => Mirrors(c)
         /\ Mirrors(c) => ~Needy(c)
         /\ Needy(c) => Proceeds(c)
         /\ Proceeds(c) => ~Terminal(c)
  BY DEF CR, Phases, Outcomes, Terminal, Mirrors, Needy, Proceeds

\* The row tells whether its CR is mirrored.
LEMMA MirrorsAlike ==
  ASSUME NEW c \in CR, NEW d \in CR, MirrorOf(c) = MirrorOf(d), Mirrors(c)
  PROVE  Mirrors(d)
  BY DEF MirrorOf, Mirrors

LEMMA AttendedStep ==
  ASSUME TypeOK, BoundedStaleness, RunShowsDiagnosing, Attended, [Next]_vars
  PROVE  Attended'
  <1> USE DEF EnvUnchanged, store, spent
  <1>0. \A k \in Keys : api[k] \in CR /\ cache[k] \in CR /\ loc[k].snap \in CR
    BY DEF TypeOK, Locals
  <1>1. ASSUME NEW k \in Keys, KeyStep(k) PROVE Attended'
    <2>1. OthersKept(k)
      BY <1>1, KeptByKeyStep
    <2>2. SUFFICES AttendedAt(k)'
      BY <2>1 DEF OthersKept, Attended, AttendedAt, Enqueued, Terminal, Needy
    <2>3. AttendedAt(k)
      BY DEF Attended
    <2>4. ASSUME Enqueued(k)', pc'[k] # "mirror" PROVE AttendedAt(k)'
      BY <2>4 DEF AttendedAt
    <2>5. ASSUME Enqueued(k)', UNCHANGED <<pc, loc>> PROVE AttendedAt(k)'
      BY <2>3, <2>5 DEF AttendedAt
    <2>6. CASE Begin(k)
      <3>1. /\ k \in queue /\ pc[k] = "idle"
            /\ UNCHANGED <<api, cache, watch, delayed, inc>>
        BY <2>6 DEF Begin
      <3>2. CASE /\ Mirrors(cache[k])
                 /\ Goto(k, "mirror")
                 /\ loc' = [loc EXCEPT ![k].snap = cache[k]]
        <4>1. pc'[k] = "mirror"
          BY <3>2 DEF Goto, TypeOK
        <4>2. loc[k] \in Locals /\ loc'[k] = [loc[k] EXCEPT !.snap = cache[k]]
          BY <3>2 DEF TypeOK
        <4>3. loc'[k].snap = cache[k]
          BY <4>2 DEF Locals
        <4>4. watch[k] # <<>> \/ cache[k] = api[k]
          BY DEF BoundedStaleness
        <4>5. Mirrors(cache[k])
          BY <3>2
        <4> QED
          BY <3>1, <4>1, <4>3, <4>4, <4>5 DEF AttendedAt, Enqueued
      <3>3. CASE Proceeds(cache[k]) /\ Goto(k, "allow")
        <4>1. pc'[k] = "allow"
          BY <3>3 DEF Goto, TypeOK
        <4>2. watch[k] # <<>> \/ ~Terminal(api[k])
          BY <1>0, <3>3, Disjoint DEF BoundedStaleness
        <4> QED
          BY <3>1, <4>1, <4>2 DEF AttendedAt, Enqueued, Terminal
      <3>4. CASE ~Mirrors(cache[k]) /\ ~Proceeds(cache[k]) /\ UNCHANGED pc
        <4>1. watch[k] # <<>> \/ (~Terminal(api[k]) /\ ~Needy(api[k]))
          BY <1>0, <3>4, Disjoint DEF BoundedStaleness
        <4> QED
          BY <3>1, <3>4, <4>1 DEF AttendedAt, Enqueued, Terminal, Needy
      <3> QED
        BY <2>6, <3>2, <3>3, <3>4, Zenon DEF Begin
    <2>7. CASE Mirror(k)
      <3>1. /\ pc[k] = "mirror" /\ pc'[k] = "idle"
            /\ inc'[k] = MirrorOf(loc[k].snap)
            /\ UNCHANGED <<api, watch, queue, delayed>>
        BY <2>7, Released DEF Mirror, Return, TypeOK
      <3>2. \/ Enqueued(k)
            \/ ~Needy(api[k]) /\ inc'[k] = MirrorOf(api[k])
        BY <1>0, <2>3, <3>1, Disjoint, MirrorsAlike DEF AttendedAt
      <3> QED
        BY <3>1, <3>2 DEF AttendedAt, Enqueued, Terminal, Needy
    <2>8. CASE Throttle(k) \/ PatchStorageError(k) \/ MirrorFails(k)
                 \/ ThrottleFails(k) \/ ErrorReturned(k)
      <3>1. Requeue(k)
        BY <2>8 DEF Throttle, PatchStorageError, MirrorFails, ThrottleFails,
                    ErrorReturned
      <3>2. pc'[k] = "idle" /\ k \in delayed'
        BY <3>1, Released DEF Requeue
      <3> QED
        BY <2>4, <3>2 DEF Enqueued
    <2>9. CASE Allow(k) \/ Deny(k) \/ UpsertDiagnosing(k)
      <3>1. /\ pc[k] \notin {"idle", "mirror"}
            /\ pc'[k] \notin {"idle", "mirror"}
            /\ UNCHANGED <<api, watch, queue, delayed>>
        BY <2>9 DEF Allow, Deny, UpsertDiagnosing, Goto, TypeOK
      <3> QED
        BY <2>3, <3>1 DEF AttendedAt, Enqueued, Terminal
    <2>10. CASE PatchDiagnosing(k)
      <3>1. pc'[k] = "run"
        BY <2>10 DEF PatchDiagnosing, Goto, TypeOK
      <3>2. api'[k].phase = "Diagnosing"
        BY <2>10, StartWrites, UpdatedKey
      <3> QED
        BY <3>1, <3>2 DEF AttendedAt, Terminal, Outcomes
    <2>11. CASE \/ (\E o \in Outcomes : Run(k, o)) \/ FinishFailed(k)
                \/ InsertDiagnosis(k) \/ InsertFails(k) \/ FinishDone(k)
      <3>1. /\ pc[k] \in PastStart
            /\ pc'[k] \notin {"idle", "mirror"}
            /\ UNCHANGED api
        BY <2>11 DEF Run, FinishFailed, InsertDiagnosis, InsertFails,
                     FinishDone, Goto, PastStart, InRun, TypeOK
      <3>2. api'[k].phase = "Diagnosing"
        BY <3>1 DEF RunShowsDiagnosing
      <3> QED
        BY <3>1, <3>2 DEF AttendedAt, Terminal, Outcomes
    <2>12. CASE PatchFailed(k) \/ PatchDone(k)
      <3>1. pc[k] \in PastStart /\ pc'[k] = "idle"
        BY <2>12, Released DEF PatchFailed, PatchDone, PastStart, InRun
      <3>2. api[k].phase = "Diagnosing"
        BY <3>1 DEF RunShowsDiagnosing
      <3>3. PICK c \in CR : Update(k, c) /\ c.phase \in Outcomes
        BY <2>12, FailedWrites, DoneWrites DEF Outcomes
      <3>4. watch'[k] # <<>>
        BY <3>2, <3>3, UpdatedKey DEF Outcomes
      <3> QED
        BY <2>4, <3>1, <3>4 DEF Enqueued
    <2>13. CASE Deliver(k) \/ TimerFires(k)
      <3>1. k \in queue' /\ UNCHANGED <<pc, loc>>
        BY <2>13 DEF Deliver, TimerFires
      <3> QED
        BY <2>5, <3>1 DEF Enqueued
    <2>14. CASE Backfill(k)
      <3>1. UNCHANGED <<pc, loc, inc, queue, delayed>>
        BY <2>14 DEF Backfill
      <3>2. watch'[k] # <<>> \/ (api'[k] = api[k] /\ watch'[k] = watch[k])
        BY <2>14, BackfillWrites, UpdatedKey
      <3>3. CASE watch'[k] # <<>>
        BY <2>5, <3>1, <3>3 DEF Enqueued
      <3>4. CASE api'[k] = api[k] /\ watch'[k] = watch[k]
        BY <2>3, <3>1, <3>4 DEF AttendedAt, Enqueued, Terminal, Needy
      <3> QED
        BY <3>2, <3>3, <3>4
    <2> QED
      BY <1>1, <2>6, <2>7, <2>8, <2>9, <2>10, <2>11, <2>12, <2>13, <2>14
         DEF KeyStep, Advance, Fails
  <1>2. CASE Resync
    BY <1>2 DEF Resync, Attended, AttendedAt, Enqueued
  <1>3. CASE UNCHANGED vars
    BY <1>3 DEF vars, Attended, AttendedAt, Enqueued, Terminal, Needy
  <1>4. CASE Tick
    <2> SUFFICES ASSUME NEW k \in Keys PROVE AttendedAt(k)'
      BY DEF Attended
    <2>1. UNCHANGED <<pc, inc, queue, delayed>>
      BY <1>4 DEF Tick, store
    <2>2. /\ MirrorOf(api'[k]) = MirrorOf(api[k])
          /\ Terminal(api'[k]) <=> Terminal(api[k])
          /\ Needy(api'[k]) <=> Needy(api[k])
      <3>1. api'[k] = Older(api[k])
        BY <1>4 DEF Tick
      <3> QED
        BY <1>0, <3>1, OlderKeeps DEF MirrorOf, Terminal, Needy
    <2>3. loc'[k].snap = loc[k].snap
      <3>1. /\ loc[k] \in Locals
            /\ \/ loc'[k] = loc[k]
               \/ loc'[k] = [loc[k] EXCEPT !.age =
                                IF @ < StaleAfter THEN @ + 1 ELSE @]
        BY <1>4 DEF Tick, TypeOK
      <3> QED
        BY <3>1 DEF Locals
    <2>4. watch[k] # <<>> => watch'[k] # <<>>
      <3>1. /\ watch[k] \in Seq(CR)
            /\ watch'[k] = [i \in 1..Len(watch[k]) |-> Older(watch[k][i])]
        BY <1>4 DEF Tick, TypeOK
      <3>2. Len(watch'[k]) = Len(watch[k])
        BY <3>1
      <3> QED
        BY <3>1, <3>2
    <2> QED
      BY <2>1, <2>2, <2>3, <2>4 DEF Attended, AttendedAt, Enqueued
  <1>5. CASE Crash
    BY <1>5 DEF Crash, Attended, AttendedAt, Enqueued
  <1> QED
    BY <1>1, <1>2, <1>3, <1>4, <1>5, KeySteps

LEMMA AttendedAlways == Spec => []Attended
  <1>1. Init => Attended /\ RunShowsDiagnosing
    <2> SUFFICES ASSUME Init PROVE Attended /\ RunShowsDiagnosing
      OBVIOUS
    <2>1. Attended
      BY DEF Init, Attended, AttendedAt, Enqueued
    <2>2. RunShowsDiagnosing
      BY DEF Init, RunShowsDiagnosing, PastStart, InRun
    <2> QED
      BY <2>1, <2>2
  <1>2. TypeOK /\ BoundedStaleness /\ RunShowsDiagnosing /\ [Next]_vars
          => RunShowsDiagnosing'
    BY RunStep
  <1>3. TypeOK /\ BoundedStaleness /\ RunShowsDiagnosing /\ Attended
          /\ [Next]_vars => Attended'
    BY AttendedStep
  <1> QED
    BY <1>1, <1>2, <1>3, TypeCorrect, CacheBoundedlyStale, PTL DEF Spec

\* "Never dropped", for every instance: a CR that is Unset, Pending or has a
\* recorded storage error is queued, held by a worker, waiting for a timer or
\* about to be enqueued by its watch event, whatever fails.
THEOREM NothingForgotten == Spec => []NeverForgotten
  <1>1. Attended => NeverForgotten
    BY DEF Attended, AttendedAt, Enqueued, Needy, Scheduled, NeverForgotten
  <1> QED
    BY <1>1, AttendedAlways, PTL

\* Once nothing is scheduled for a terminal CR its incident row shows its phase
\* and Persisted, however many of the ignored upserts failed.
THEOREM RowsCatchUp == Spec => []MirrorConverges
  <1>1. Attended => MirrorConverges
    BY DEF Attended, AttendedAt, Enqueued, Scheduled, MirrorConverges
  <1> QED
    BY <1>1, AttendedAlways, PTL

-----------------------------------------------------------------------------
(* Every further row is paid for *)

LEMMA SameAgeStep ==
  ASSUME TypeOK, BoundedStaleness, SameAge, [Next]_vars
  PROVE  SameAge'
  <1> USE DEF EnvUnchanged, store, spent
  <1>1. ASSUME NEW k \in Keys, KeyStep(k) PROVE SameAge'
    <2>1. OthersKept(k)
      BY <1>1, KeptByKeyStep
    <2>2. SUFFICES ASSUME pc'[k] \in PastStart PROVE api'[k].age = loc'[k].age
      BY <2>1 DEF OthersKept, SameAge
    <2>3. CASE PatchDiagnosing(k)
      <3>1. loc' = loc
        BY <2>3 DEF PatchDiagnosing
      <3> QED
        BY <2>3, <3>1, StartWrites, UpdatedKey
    <2>4. CASE Backfill(k)
      <3>1. UNCHANGED <<pc, loc>>
        BY <2>4 DEF Backfill
      <3>2. api'[k].age = api[k].age
        BY <2>4, BackfillWrites, UpdatedKey
      <3> QED
        BY <2>2, <3>1, <3>2 DEF SameAge
    <2>5. CASE \E o \in Outcomes : Run(k, o)
      <3>1. PICK o \in Outcomes : Run(k, o)
        BY <2>5
      <3>2. loc[k] \in Locals /\ loc'[k] = [loc[k] EXCEPT !.outcome = o]
        BY <3>1 DEF Run, TypeOK
      <3>3. loc'[k].age = loc[k].age
        BY <3>2 DEF Locals
      <3>4. pc[k] = "run" /\ api' = api
        BY <3>1 DEF Run
      <3> QED
        BY <3>3, <3>4 DEF SameAge, PastStart, InRun
    <2>6. CASE FinishFailed(k) \/ InsertDiagnosis(k) \/ InsertFails(k)
                 \/ FinishDone(k)
      <3>1. pc[k] \in PastStart /\ UNCHANGED <<api, loc>>
        BY <2>6 DEF FinishFailed, InsertDiagnosis, InsertFails, FinishDone,
                    PastStart, InRun
      <3> QED
        BY <3>1 DEF SameAge
    <2>7. CASE Deliver(k) \/ TimerFires(k)
      <3>1. UNCHANGED <<api, pc, loc>>
        BY <2>7 DEF Deliver, TimerFires
      <3> QED
        BY <2>2, <3>1 DEF SameAge
    <2>8. CASE Begin(k) \/ Allow(k) \/ Deny(k) \/ UpsertDiagnosing(k)
      BY <2>2, <2>8 DEF Begin, Allow, Deny, UpsertDiagnosing, Goto, PastStart,
                        InRun, TypeOK
    <2>9. ASSUME Return(k) \/ Requeue(k) PROVE FALSE
      BY <2>2, <2>9, Released DEF PastStart, InRun
    <2> QED
      BY <1>1, <2>3, <2>4, <2>5, <2>6, <2>7, <2>8, <2>9
         DEF KeyStep, Advance, Fails, Mirror, Throttle, PatchFailed,
             PatchStorageError, PatchDone, MirrorFails, ThrottleFails,
             ErrorReturned
  <1>2. CASE Resync \/ UNCHANGED vars
    BY <1>2 DEF Resync, vars, SameAge
  <1>3. CASE Tick
    <2> SUFFICES ASSUME NEW k \in Keys, pc'[k] \in PastStart
                 PROVE  api'[k].age = loc'[k].age
      BY DEF SameAge
    <2>1. /\ api'[k] = Older(api[k]) /\ api[k] \in CR
          /\ loc[k] \in Locals
          /\ pc[k] \in PastStart
          /\ loc'[k] = [loc[k] EXCEPT !.age =
                            IF @ < StaleAfter THEN @ + 1 ELSE @]
      BY <1>3 DEF Tick, TypeOK, PastStart
    <2>2. api'[k].age = IF api[k].age < StaleAfter THEN api[k].age + 1
                                                   ELSE api[k].age
      BY <2>1 DEF Older, CR
    <2>3. loc'[k].age = IF loc[k].age < StaleAfter THEN loc[k].age + 1
                                                   ELSE loc[k].age
      BY <2>1 DEF Locals
    <2> QED
      BY <2>1, <2>2, <2>3 DEF SameAge
  <1>4. CASE Crash
    BY <1>4 DEF Crash, SameAge, PastStart, InRun
  <1> QED
    BY <1>1, <1>2, <1>3, <1>4, KeySteps

LEMMA RowsToComeType ==
  ASSUME NEW k \in Keys
  PROVE  RowsToCome(k) \in 0..2
  BY DEF RowsToCome, Retry

\* A step of k adds a row to come only if a fault pays for it.
LEMMA PaidKeyStep ==
  ASSUME TypeOK, BoundedStaleness, RunShowsDiagnosing, SameAge,
         NEW k \in Keys, KeyStep(k)
  PROVE  diags'[k] + RowsToCome(k)'
           <= diags[k] + RowsToCome(k) + (faults' - faults)
  <1> USE DEF EnvUnchanged, store, spent
  <1>0. /\ diags[k] \in Nat /\ faults \in Nat
        /\ RowsToCome(k) \in 0..2
        /\ api[k] \in CR /\ cache[k] \in CR /\ loc[k] \in Locals
    BY ConstantsAssumption, RowsToComeType DEF TypeOK
  <1>1. CASE Begin(k)
    <2>1. /\ pc[k] = "idle"
          /\ \/ pc'[k] \in {"idle", "mirror"}
             \/ pc'[k] = "allow" /\ Proceeds(cache[k])
          /\ UNCHANGED <<api, cache, diags, faults>>
      BY <1>1 DEF Begin, Goto, TypeOK
    <2> QED
      BY <1>0, <2>1 DEF RowsToCome, Retry, Storing, Settled, Proceeds, Terminal
  <1>2. CASE Mirror(k) \/ MirrorFails(k)
    <2>1. /\ pc[k] = "mirror" /\ pc'[k] = "idle"
          /\ UNCHANGED <<api, cache, diags>>
          /\ faults <= faults' /\ faults' \in Nat
      BY <1>0, <1>2, Released DEF Mirror, MirrorFails, Fault
    <2> QED
      BY <1>0, <2>1 DEF RowsToCome, Retry, Storing, Settled, Proceeds, Terminal
  <1>3. CASE Allow(k)
    <2>1. /\ pc[k] = "allow" /\ pc'[k] = "upsert"
          /\ loc'[k] = [loc[k] EXCEPT !.age = 0]
          /\ UNCHANGED <<api, diags, faults>>
      BY <1>3 DEF Allow, Goto, TypeOK
    <2>2. loc'[k].age # StaleAfter
      BY <1>0, <2>1, ConstantsAssumption DEF Locals
    <2> QED
      BY <1>0, <2>1, <2>2 DEF RowsToCome, Retry, Storing
  <1>4. CASE Deny(k) \/ ThrottleFails(k)
    <2>1. /\ pc[k] \in {"allow", "throttle"}
          /\ pc'[k] \in {"throttle", "idle"}
          /\ UNCHANGED <<api, diags>>
          /\ faults <= faults' /\ faults' \in Nat
      BY <1>0, <1>4, Released DEF Deny, ThrottleFails, Fault, Goto, TypeOK
    <2> QED
      BY <1>0, <2>1 DEF RowsToCome, Retry, Storing, Settled, Terminal
  <1>5. CASE Throttle(k)
    <2>1. /\ pc[k] = "throttle" /\ pc'[k] = "idle"
          /\ UNCHANGED <<diags, faults>>
      BY <1>5, Released DEF Throttle
    <2>2. api'[k].phase = "Pending" /\ Keeps(api'[k], api[k])
      BY <1>5, ThrottleWrites, UpdatedKey
    <2> QED
      BY <1>0, <2>1, <2>2
         DEF RowsToCome, Retry, Storing, Settled, Keeps, Terminal, Outcomes
  <1>6. CASE UpsertDiagnosing(k) \/ FinishFailed(k)
    <2>1. /\ pc[k] \in Storing /\ pc'[k] \in Storing
          /\ UNCHANGED <<api, loc, diags>>
          /\ faults <= faults' /\ faults' \in Nat
      BY <1>0, <1>6 DEF UpsertDiagnosing, FinishFailed, Fault, Goto, Storing,
                        TypeOK
    <2> QED
      BY <1>0, <2>1 DEF RowsToCome, Retry, Storing
  <1>7. CASE PatchDiagnosing(k)
    <2>1. /\ pc[k] = "start" /\ pc'[k] = "run"
          /\ UNCHANGED <<loc, diags, faults>>
      BY <1>7 DEF PatchDiagnosing, Goto, TypeOK
    <2>2. Keeps(api'[k], api[k])
      BY <1>7, StartWrites, UpdatedKey
    <2> QED
      BY <1>0, <2>1, <2>2 DEF RowsToCome, Retry, Storing, Keeps
  <1>8. CASE ErrorReturned(k)
    <2>1. /\ pc[k] \in {"upsert", "start", "failPatch", "donePatch"}
          /\ pc'[k] = "idle"
          /\ UNCHANGED <<api, diags>>
          /\ faults' = faults + 1
      BY <1>8, Released DEF ErrorReturned, Fault
    <2> QED
      BY <1>0, <2>1 DEF RowsToCome, Retry, Storing, Settled, Terminal
  <1>9. CASE \E o \in Outcomes : Run(k, o)
    <2>1. PICK o \in Outcomes : Run(k, o)
      BY <1>9
    <2>2. /\ pc[k] = "run" /\ pc'[k] \in {"insert", "failUpsert"}
          /\ loc'[k] = [loc[k] EXCEPT !.outcome = o]
          /\ UNCHANGED <<api, diags, faults>>
      BY <2>1 DEF Run, Goto, TypeOK
    <2>3. loc'[k].age = loc[k].age
      BY <1>0, <2>2 DEF Locals
    <2> QED
      BY <1>0, <2>2, <2>3 DEF RowsToCome, Retry, Storing
  <1>10. CASE PatchFailed(k)
    <2>1. /\ pc[k] = "failPatch" /\ pc'[k] = "idle"
          /\ UNCHANGED <<diags, faults>>
      BY <1>10, Released DEF PatchFailed
    <2>2. Keeps(api'[k], api[k])
      BY <1>10, FailedWrites, UpdatedKey
    <2> QED
      BY <1>0, <2>1, <2>2 DEF RowsToCome, Retry, Storing, Settled, Keeps
  <1>11. CASE InsertDiagnosis(k)
    <2>1. /\ pc[k] = "insert" /\ pc'[k] = "doneUpsert"
          /\ diags'[k] = PlusOne(diags[k])
          /\ UNCHANGED <<api, loc, faults>>
      BY <1>11 DEF InsertDiagnosis, Goto, TypeOK
    <2>2. PlusOne(diags[k]) \in Nat /\ PlusOne(diags[k]) <= diags[k] + 1
      BY <1>0 DEF PlusOne
    <2> QED
      BY <1>0, <2>1, <2>2 DEF RowsToCome, Retry, Storing
  <1>12. CASE InsertFails(k)
    <2>1. /\ pc[k] = "insert" /\ pc'[k] = "storageErr"
          /\ UNCHANGED diags
          /\ faults' = faults + 1
      BY <1>12 DEF InsertFails, Goto, Fault, TypeOK
    <2> QED
      BY <1>0, <2>1 DEF RowsToCome, Retry, Storing
  <1>13. CASE PatchStorageError(k)
    <2>1. /\ pc[k] = "storageErr" /\ UNCHANGED diags
          /\ faults <= faults' /\ faults' \in Nat
          /\ pc'[k] = "idle"
      BY <1>0, <1>13, Released DEF PatchStorageError, Fault
    <2>2. RowsToCome(k)' \in 0..2
      BY DEF RowsToCome, Retry
    <2>3. RowsToCome(k) = 2
      BY <2>1 DEF RowsToCome
    <2> HIDE DEF RowsToCome
    <2> QED
      BY <1>0, <2>1, <2>2, <2>3
  <1>14. CASE FinishDone(k)
    <2>1. /\ pc[k] = "doneUpsert" /\ pc'[k] = "donePatch"
          /\ UNCHANGED <<api, loc, diags>>
          /\ faults <= faults' /\ faults' \in Nat
      BY <1>0, <1>14 DEF FinishDone, Fault, Goto, TypeOK
    <2> QED
      BY <1>0, <2>1 DEF RowsToCome, Retry
  <1>15. CASE PatchDone(k)
    <2>1. /\ pc[k] = "donePatch" /\ pc'[k] = "idle"
          /\ UNCHANGED <<cache, diags, faults>>
      BY <1>15, Released DEF PatchDone
    <2>2. Settled(api'[k]) /\ cache[k] = api[k]
      BY <1>15, DoneWrites, UpdatedKey DEF Settled, Terminal
    <2>3. api[k].phase = "Diagnosing" /\ api[k].age = loc[k].age
      BY <2>1 DEF RunShowsDiagnosing, SameAge, PastStart, InRun
    <2>4. Proceeds(cache[k]) => Retry(api[k], loc[k].age = StaleAfter) = 1
      BY <2>2, <2>3 DEF Proceeds, Stale, Retry
    <2> QED
      BY <1>0, <2>1, <2>2, <2>4 DEF RowsToCome, Retry, Storing
  <1>16. CASE Deliver(k)
    <2>1. cache'[k] = api[k]
      BY <1>16 DEF Deliver, BoundedStaleness, TypeOK
    <2>2. UNCHANGED <<api, pc, loc, diags, faults>>
      BY <1>16 DEF Deliver
    <2>3. Settled(api[k]) => ~Proceeds(cache'[k])
      BY <1>0, <2>1, Disjoint DEF Settled
    <2> QED
      BY <1>0, <2>2, <2>3 DEF RowsToCome, Retry, Settled, Terminal
  <1>17. CASE TimerFires(k)
    BY <1>0, <1>17
       DEF TimerFires, RowsToCome, Retry, Settled, Proceeds, Terminal
  <1>18. CASE Backfill(k)
    <2>1. UNCHANGED <<cache, pc, loc, diags, faults>>
      BY <1>18 DEF Backfill
    <2>2. Keeps(api'[k], api[k]) /\ api'[k].phase = api[k].phase
      BY <1>18, BackfillWrites, UpdatedKey
    <2> QED
      BY <1>0, <2>1, <2>2
         DEF RowsToCome, Retry, Settled, Proceeds, Keeps, Terminal
  <1> QED
    BY <1>1, <1>2, <1>3, <1>4, <1>5, <1>6, <1>7, <1>8, <1>9, <1>10, <1>11,
       <1>12, <1>13, <1>14, <1>15, <1>16, <1>17, <1>18
       DEF KeyStep, Advance, Fails

\* A tick adds a row to come only to a diagnosis it counts as slow.
LEMMA PaidTick ==
  ASSUME TypeOK, BoundedStaleness, NEW k \in Keys, Tick
  PROVE  RowsToCome(k)' <= RowsToCome(k) + (slow' - slow)
  <1>0. /\ slow \in Nat /\ StaleAfter \in Nat \ {0}
        /\ RowsToCome(k) \in 0..2
        /\ api[k] \in CR /\ cache[k] \in CR /\ loc[k] \in Locals
    BY ConstantsAssumption, RowsToComeType DEF TypeOK
  <1>1. /\ api'[k] = Older(api[k]) /\ cache'[k] = Older(cache[k])
        /\ pc' = pc
        /\ pc[k] \in InRun =>
             loc'[k] = [loc[k] EXCEPT !.age =
                           IF @ < StaleAfter THEN @ + 1 ELSE @]
        /\ slow' = slow + Cardinality(Overdue)
    BY DEF Tick
  <1>2. /\ Cardinality(Overdue) \in Nat
        /\ k \in Overdue => Cardinality(Overdue) >= 1
    <2>1. IsFiniteSet(Overdue)
      <3>1. Overdue \subseteq Keys
        BY DEF Overdue
      <3> QED
        BY <3>1, ConstantsAssumption, FS_Subset
    <2>2. Cardinality(Overdue) = 0 <=> Overdue = {}
      BY <2>1, FS_EmptySet
    <2> QED
      BY <2>2, OverdueCount
  <1>3. /\ Keeps(api'[k], api[k]) /\ Settled(api'[k]) = Settled(api[k])
    BY <1>0, <1>1, OlderKeeps DEF Keeps, Settled, Terminal
  <1>4. ASSUME pc[k] \in InRun, loc'[k].age = StaleAfter
        PROVE  loc[k].age = StaleAfter \/ k \in Overdue
    <2>1. loc[k].age \in 0..StaleAfter
      BY <1>0 DEF Locals
    <2>2. loc'[k].age = IF loc[k].age < StaleAfter THEN loc[k].age + 1
                                                   ELSE loc[k].age
      BY <1>0, <1>1, <1>4 DEF Locals
    <2> QED
      BY <1>0, <1>4, <2>1, <2>2 DEF Overdue
  <1>5. ASSUME Settled(api[k]), Proceeds(cache'[k])
        PROVE  Proceeds(cache[k]) \/ k \in Overdue
    <2>1. /\ cache'[k].phase = cache[k].phase
          /\ cache'[k].persisted = cache[k].persisted
          /\ cache'[k].storageErr = cache[k].storageErr
      BY <1>0, <1>1, OlderKeeps
    <2>2. cache[k].age \in 0..StaleAfter
      BY <1>0 DEF CR
    <2>3. cache'[k].age = IF cache[k].age < StaleAfter THEN cache[k].age + 1
                                                       ELSE cache[k].age
      BY <1>0, <1>1 DEF Older, CR
    <2>4. CASE watch[k] = <<>>
      <3>1. <<api[k]>> # <<>>
        OBVIOUS
      <3>2. cache[k] = api[k]
        BY <2>4, <3>1 DEF BoundedStaleness
      <3> QED
        BY <1>5, <2>1, <3>2 DEF Settled, Terminal, Proceeds, Outcomes
    <2>5. CASE watch[k] # <<>>
      BY <1>0, <1>5, <2>1, <2>2, <2>3, <2>5 DEF Proceeds, Stale, Overdue
    <2> QED
      BY <2>4, <2>5
  <1>6. CASE k \in Overdue
    <2>1. RowsToCome(k)' <= RowsToCome(k) + 1
      BY <1>0, <1>1, <1>3 DEF RowsToCome, Retry, Keeps
    <2>2. RowsToCome(k)' \in 0..2
      BY DEF RowsToCome, Retry
    <2> QED
      BY <1>0, <1>1, <1>2, <1>6, <2>1, <2>2
  <1>7. CASE k \notin Overdue
    <2>1. RowsToCome(k)' <= RowsToCome(k)
      BY <1>0, <1>1, <1>3, <1>4, <1>5, <1>7
         DEF RowsToCome, Retry, Keeps, Storing, InRun
    <2>2. RowsToCome(k)' \in 0..2
      BY DEF RowsToCome, Retry
    <2> QED
      BY <1>0, <1>1, <1>2, <2>1, <2>2
  <1> QED
    BY <1>6, <1>7

LEMMA PaidStep ==
  ASSUME TypeOK, BoundedStaleness, RunShowsDiagnosing, SameAge, Paid,
         [Next]_vars
  PROVE  Paid'
  <1>0. /\ faults \in Nat /\ crashes \in Nat /\ slow \in Nat
        /\ \A k \in Keys : diags[k] \in Nat /\ RowsToCome(k) \in 0..2
    BY ConstantsAssumption, RowsToComeType DEF TypeOK
  <1>1. /\ faults' \in Nat /\ crashes' \in Nat /\ slow' \in Nat
        /\ \A k \in Keys : diags'[k] \in Nat /\ RowsToCome(k)' \in 0..2
    <2>1. TypeOK'
      BY TypeStep
    <2>2. \A k \in Keys : RowsToCome(k)' \in 0..2
      BY DEF RowsToCome, Retry
    <2> QED
      BY <2>1, <2>2, ConstantsAssumption DEF TypeOK
  <1>2. ASSUME NEW k \in Keys, KeyStep(k) PROVE Paid'
    <2>1. OthersKept(k)
      BY <1>2, KeptByKeyStep
    <2>2. diags'[k] + RowsToCome(k)'
            <= diags[k] + RowsToCome(k) + (faults' - faults)
      BY <1>2, PaidKeyStep
    <2>3. /\ faults <= faults' /\ crashes' = crashes /\ slow' = slow
          /\ \A j \in Keys \ {k} : /\ diags'[j] = diags[j]
                                   /\ RowsToCome(j)' = RowsToCome(j)
      BY <2>1 DEF OthersKept, RowsToCome
    <2> QED
      BY <1>0, <1>1, <2>2, <2>3 DEF Paid
  <1>3. CASE Tick
    <2>1. \A k \in Keys : RowsToCome(k)' <= RowsToCome(k) + (slow' - slow)
      BY <1>3, PaidTick
    <2>2. UNCHANGED <<diags, faults, crashes>>
      BY <1>3 DEF Tick, store
    <2> QED
      BY <1>0, <1>1, <2>1, <2>2 DEF Paid
  <1>4. CASE Crash
    <2>1. ASSUME NEW k \in Keys PROVE RowsToCome(k)' <= RowsToCome(k) + 1
      <3>1. /\ api' = api /\ pc'[k] = "idle" /\ cache' = api
        BY <1>4 DEF Crash
      <3>2. Settled(api[k]) => ~Proceeds(api[k])
        BY Disjoint DEF Settled, TypeOK
      <3> QED
        BY <3>1, <3>2 DEF RowsToCome, Retry, Storing, Settled, Terminal
    <2>2. UNCHANGED <<diags, faults, slow>> /\ crashes' = crashes + 1
      BY <1>4 DEF Crash, store
    <2> QED
      BY <1>0, <1>1, <2>1, <2>2 DEF Paid
  <1>5. CASE Resync \/ UNCHANGED vars
    BY <1>5 DEF Resync, vars, store, spent, Paid, RowsToCome
  <1> QED
    BY <1>2, <1>3, <1>4, <1>5, KeySteps

\* Beyond the first, each RCA row of a CR is paid for by a failed call, a crash
\* or a run that outlasted diagnosingRecoveryAfter, for every instance.
THEOREM RowsArePaidFor == Spec => []RowsPaidFor
  <1>1. Init => Paid /\ SameAge /\ RunShowsDiagnosing
    <2> SUFFICES ASSUME Init PROVE Paid /\ SameAge /\ RunShowsDiagnosing
      OBVIOUS
    <2>1. \A k \in Keys : api[k].storageErr = FALSE
      BY DEF Init, NewCR
    <2>2. Paid
      <3>1. \A k \in Keys : RowsToCome(k) <= 1
        BY <2>1 DEF Init, RowsToCome, Retry, Storing
      <3>2. \A k \in Keys : RowsToCome(k) \in 0..2
        BY RowsToComeType
      <3> QED
        BY <3>1, <3>2 DEF Init, Paid
    <2>3. SameAge /\ RunShowsDiagnosing
      BY DEF Init, SameAge, RunShowsDiagnosing, PastStart, InRun
    <2> QED
      BY <2>2, <2>3
  <1>2. TypeOK /\ BoundedStaleness /\ RunShowsDiagnosing /\ [Next]_vars
          => RunShowsDiagnosing'
    BY RunStep
  <1>3. TypeOK /\ BoundedStaleness /\ SameAge /\ [Next]_vars => SameAge'
    BY SameAgeStep
  <1>4. TypeOK /\ BoundedStaleness /\ RunShowsDiagnosing /\ SameAge /\ Paid
          /\ [Next]_vars => Paid'
    BY PaidStep
  <1>5. TypeOK /\ Paid => RowsPaidFor
    <2> SUFFICES ASSUME TypeOK, Paid, NEW k \in Keys
                 PROVE  diags[k] <= 1 + faults + crashes + slow
      BY DEF RowsPaidFor
    <2>1. /\ faults \in Nat /\ crashes \in Nat /\ slow \in Nat
          /\ diags[k] \in Nat
      BY ConstantsAssumption DEF TypeOK
    <2>2. RowsToCome(k) \in 0..2
      BY RowsToComeType
    <2> QED
      BY <2>1, <2>2 DEF Paid
  <1> QED
    BY <1>1, <1>2, <1>3, <1>4, <1>5, TypeCorrect, CacheBoundedlyStale, PTL
       DEF Spec

=============================================================================
