------------------------- MODULE ReconcilerProofs -------------------------
(***************************************************************************)
(* TLAPS proofs of the safety properties of Reconciler, for every set of   *)
(* objects, every concurrency and rate limit, and every bound on faults,   *)
(* crashes and slow runs.                                                  *)
(*                                                                         *)
(* The argument has four layers, each resting on the ones before it:       *)
(* typing; the cache's bounded staleness; the order of the writes, whose   *)
(* inductive form is WriteOrder; and the refinement of Diagnosis.          *)
(***************************************************************************)
EXTENDS Reconciler, FiniteSetTheorems, TLAPS

-----------------------------------------------------------------------------
(* The inductive invariant *)

RCAShown(c) == c.persisted \/ c.phase \in {"Done", "Partial"}

\* The row write precedes what depends on it, at every point of a run.
WriteOrder ==
    \A k \in Keys :
        /\ RCAShown(api[k]) => diags[k] > 0
        /\ RCAShown(cache[k]) => diags[k] > 0
        /\ RCAShown(inc[k]) => diags[k] > 0
        /\ RCAShown(loc[k].snap) => diags[k] > 0
        /\ pc[k] \in {"doneUpsert", "donePatch"} => diags[k] > 0
        /\ api[k].phase \notin {"Unset", "Pending"} => inc[k] # NoRow
        /\ pc[k] \in InRun \ {"upsert"} => inc[k] # NoRow

-----------------------------------------------------------------------------
(* Data *)

LEMMA NewCRType == \A f \in BOOLEAN : NewCR(f) \in CR
  BY ConstantsAssumption DEF NewCR, CR, Phases

LEMMA NoLocalsType == NoLocals \in Locals
  <1>1. NewCR(FALSE) \in CR
    BY NewCRType
  <1>2. 0 \in 0..StaleAfter
    BY ConstantsAssumption
  <1> QED
    BY <1>1, <1>2 DEF NoLocals, Locals, Outcomes

LEMMA MirrorType == ASSUME NEW c \in CR PROVE MirrorOf(c) \in Row
  BY DEF MirrorOf, Row, CR

LEMMA OlderType == ASSUME NEW c \in CR PROVE Older(c) \in CR
  BY ConstantsAssumption DEF Older, CR

\* Ageing a version changes nothing but its age.
LEMMA OlderKeeps ==
  ASSUME NEW c \in CR
  PROVE  /\ Older(c).phase = c.phase
         /\ Older(c).persisted = c.persisted
         /\ Older(c).storageErr = c.storageErr
         /\ Older(c).filled = c.filled
  BY DEF Older, CR

\* What each status update makes of a CR is a CR.
LEMMA PatchedType ==
  ASSUME NEW c \in CR
  PROVE  /\ [c EXCEPT !.phase = "Pending"] \in CR
         /\ [c EXCEPT !.phase = "Failed"] \in CR
         /\ [c EXCEPT !.persisted = FALSE, !.storageErr = TRUE] \in CR
         /\ [c EXCEPT !.filled = TRUE] \in CR
         /\ \A a \in 0..StaleAfter :
              [c EXCEPT !.phase = "Diagnosing", !.age = a] \in CR
         /\ \A o \in Outcomes :
              [c EXCEPT !.phase = o, !.persisted = TRUE, !.storageErr = FALSE]
                \in CR
  BY DEF CR, Phases, Outcomes

LEMMA CountType == \A n \in 0..MaxCount : PlusOne(n) \in 0..MaxCount
  BY ConstantsAssumption DEF PlusOne

-----------------------------------------------------------------------------
(* Layer 1: typing *)

LEMMA UpdateType ==
  ASSUME TypeOK, NEW k \in Keys, NEW c \in CR, Update(k, c)
  PROVE  api' \in [Keys -> CR] /\ watch' \in [Keys -> Seq(CR)]
  <1>1. api' \in [Keys -> CR]
    BY DEF Update, TypeOK
  <1>2. watch' \in [Keys -> Seq(CR)]
    <2>1. Append(watch[k], c) \in Seq(CR)
      BY DEF TypeOK
    <2> QED
      BY <2>1 DEF Update, TypeOK
  <1> QED
    BY <1>1, <1>2

LEMMA ReleaseType ==
  ASSUME TypeOK, NEW k \in Keys, Return(k) \/ Requeue(k)
  PROVE  /\ pc' \in [Keys -> PCs]
         /\ loc' \in [Keys -> Locals]
         /\ delayed' \in SUBSET Keys
  <1>1. "idle" \in PCs
    BY DEF PCs
  <1>2. pc' \in [Keys -> PCs]
    <2>1. pc' = [pc EXCEPT ![k] = "idle"] /\ pc \in [Keys -> PCs]
      BY DEF Return, Requeue, Goto, TypeOK
    <2> QED
      BY <1>1, <2>1
  <1>3. loc' \in [Keys -> Locals]
    BY NoLocalsType DEF Return, Requeue, TypeOK
  <1>4. delayed' \in SUBSET Keys
    BY DEF Return, Requeue, TypeOK
  <1> QED
    BY <1>2, <1>3, <1>4

LEMMA GotoType ==
  ASSUME TypeOK, NEW k \in Keys, NEW label \in PCs, Goto(k, label)
  PROVE  pc' \in [Keys -> PCs]
  BY DEF Goto, TypeOK

LEMMA FaultType ==
  ASSUME TypeOK, Fault
  PROVE  /\ faults' \in 0..MaxFaults
         /\ crashes' \in 0..MaxCrashes
         /\ slow' \in 0..MaxSlow
  BY ConstantsAssumption DEF Fault, TypeOK

LEMMA OverdueCount == Cardinality(Overdue) \in Nat
  <1>1. Overdue \subseteq Keys
    BY DEF Overdue
  <1>2. IsFiniteSet(Overdue)
    BY <1>1, ConstantsAssumption, FS_Subset
  <1> QED
    BY <1>2, FS_CardinalityType

LEMMA TickType ==
  ASSUME TypeOK, Tick
  PROVE  TypeOK'
  <1>1. api' \in [Keys -> CR] /\ cache' \in [Keys -> CR]
    BY OlderType DEF Tick, TypeOK
  <1>2. watch' \in [Keys -> Seq(CR)]
    <2>1. ASSUME NEW k \in Keys
          PROVE  [i \in 1..Len(watch[k]) |-> Older(watch[k][i])] \in Seq(CR)
      <3>1. watch[k] \in Seq(CR)
        BY DEF TypeOK
      <3>2. Len(watch[k]) \in Nat
        BY <3>1
      <3>3. \A i \in 1..Len(watch[k]) : Older(watch[k][i]) \in CR
        BY <3>1, OlderType
      <3> QED
        BY <3>2, <3>3
    <2> QED
      BY <2>1 DEF Tick
  <1>3. loc' \in [Keys -> Locals]
    <2>1. ASSUME NEW k \in Keys
          PROVE  [loc[k] EXCEPT !.age = IF @ < StaleAfter THEN @ + 1 ELSE @]
                   \in Locals
      <3>1. loc[k] \in Locals
        BY DEF TypeOK
      <3> QED
        BY <3>1, ConstantsAssumption DEF Locals
    <2>2. \A k \in Keys : loc[k] \in Locals
      BY DEF TypeOK
    <2> QED
      BY <2>1, <2>2 DEF Tick
  <1>4. starts' \in [1..Limit -> 0..Window]
    BY ConstantsAssumption DEF Tick, TypeOK
  <1>5. slow' \in 0..MaxSlow
    BY OverdueCount, ConstantsAssumption DEF Tick, TypeOK
  <1> QED
    BY <1>1, <1>2, <1>3, <1>4, <1>5 DEF Tick, TypeOK, store

LEMMA TypeInit == Init => TypeOK
  <1> SUFFICES ASSUME Init PROVE TypeOK
    OBVIOUS
  <1>1. api \in [Keys -> CR] /\ cache \in [Keys -> CR]
    BY NewCRType DEF Init
  <1>2. watch \in [Keys -> Seq(CR)]
    BY DEF Init
  <1>3. pc \in [Keys -> PCs] /\ loc \in [Keys -> Locals]
    BY NoLocalsType DEF Init, PCs
  <1>4. starts \in [1..Limit -> 0..Window]
    BY ConstantsAssumption DEF Init
  <1> QED
    BY <1>1, <1>2, <1>3, <1>4, ConstantsAssumption DEF Init, TypeOK

LEMMA TypeStep == TypeOK /\ [Next]_vars => TypeOK'
  <1> SUFFICES ASSUME TypeOK, [Next]_vars PROVE TypeOK'
    OBVIOUS
  <1> USE DEF EnvUnchanged, store, spent
  <1>1. ASSUME NEW k \in Keys, Begin(k) PROVE TypeOK'
    <2>1. loc' \in [Keys -> Locals]
      <3>1. cache[k] \in CR /\ loc[k] \in Locals
        BY DEF TypeOK
      <3>2. [loc[k] EXCEPT !.snap = cache[k]] \in Locals
        BY <3>1 DEF Locals
      <3> QED
        BY <1>1, <3>2 DEF Begin, TypeOK
    <2>2. pc' \in [Keys -> PCs]
      BY <1>1 DEF Begin, Goto, TypeOK, PCs
    <2> QED
      BY <1>1, <2>1, <2>2 DEF Begin, TypeOK
  <1>2. ASSUME NEW k \in Keys, Mirror(k) PROVE TypeOK'
    <2>1. MirrorOf(loc[k].snap) \in Row
      BY MirrorType DEF TypeOK, Locals
    <2> QED
      BY <1>2, <2>1, ReleaseType DEF Mirror, TypeOK
  <1>3. ASSUME NEW k \in Keys, Fails(k) PROVE TypeOK'
    <2>1. CASE MirrorFails(k)
      BY <2>1, ReleaseType, FaultType DEF MirrorFails, TypeOK
    <2>2. CASE ThrottleFails(k)
      BY <2>2, ReleaseType, FaultType DEF ThrottleFails, TypeOK
    <2>3. CASE ErrorReturned(k)
      BY <2>3, ReleaseType, FaultType DEF ErrorReturned, TypeOK
    <2>4. CASE InsertFails(k)
      BY <2>4, FaultType DEF InsertFails, Goto, PCs, TypeOK
    <2> QED
      BY <1>3, <2>1, <2>2, <2>3, <2>4 DEF Fails
  <1>4. ASSUME NEW k \in Keys, Allow(k) PROVE TypeOK'
    <2>1. starts' \in [1..Limit -> 0..Window]
      <3>1. CASE UNCHANGED starts
        BY <3>1 DEF TypeOK
      <3>2. CASE \E s \in FreeSlots : starts' = [starts EXCEPT ![s] = 0]
        <4>1. PICK s \in DOMAIN starts : starts' = [starts EXCEPT ![s] = 0]
          BY <3>2 DEF FreeSlots
        <4>2. 0 \in 0..Window
          BY ConstantsAssumption
        <4> QED
          BY <4>1, <4>2 DEF TypeOK
      <3> QED
        BY <1>4, <3>1, <3>2 DEF Allow
    <2>2. loc' \in [Keys -> Locals]
      <3>1. loc[k] \in Locals
        BY DEF TypeOK
      <3>2. [loc[k] EXCEPT !.age = 0] \in Locals
        BY <3>1, ConstantsAssumption DEF Locals
      <3> QED
        BY <1>4, <3>2 DEF Allow, TypeOK
    <2> QED
      BY <1>4, <2>1, <2>2 DEF Allow, Goto, PCs, TypeOK
  <1>5. ASSUME NEW k \in Keys, Deny(k) PROVE TypeOK'
    BY <1>5 DEF Deny, Goto, PCs, TypeOK
  <1>6. ASSUME NEW k \in Keys, Throttle(k) PROVE TypeOK'
    <2>1. [cache[k] EXCEPT !.phase = "Pending"] \in CR
      BY PatchedType DEF TypeOK
    <2>2. api' \in [Keys -> CR] /\ watch' \in [Keys -> Seq(CR)]
      BY <1>6, <2>1, UpdateType DEF Throttle, TypeOK
    <2> QED
      BY <1>6, <2>2, ReleaseType DEF Throttle, TypeOK
  <1>7. ASSUME NEW k \in Keys, UpsertDiagnosing(k) PROVE TypeOK'
    <2>1. [phase |-> "Diagnosing", persisted |-> FALSE] \in Row
      BY DEF Row, Phases
    <2> QED
      BY <1>7, <2>1 DEF UpsertDiagnosing, Goto, PCs, TypeOK
  <1>8. ASSUME NEW k \in Keys, PatchDiagnosing(k) PROVE TypeOK'
    <2>1. cache[k] \in CR /\ loc[k].age \in 0..StaleAfter
      BY DEF TypeOK, Locals
    <2>2. [cache[k] EXCEPT !.phase = "Diagnosing", !.age = loc[k].age] \in CR
      BY <2>1, PatchedType
    <2>3. api' \in [Keys -> CR] /\ watch' \in [Keys -> Seq(CR)]
      BY <1>8, <2>2, UpdateType DEF PatchDiagnosing
    <2> QED
      BY <1>8, <2>3 DEF PatchDiagnosing, Goto, PCs, TypeOK
  <1>9. ASSUME NEW k \in Keys, NEW o \in Outcomes, Run(k, o) PROVE TypeOK'
    <2>1. loc[k] \in Locals
      BY DEF TypeOK
    <2>2. [loc[k] EXCEPT !.outcome = o] \in Locals
      BY <2>1 DEF Locals
    <2>3. loc' \in [Keys -> Locals]
      BY <1>9, <2>2 DEF Run, TypeOK
    <2> QED
      BY <1>9, <2>3 DEF Run, Goto, PCs, TypeOK
  <1>10. ASSUME NEW k \in Keys, FinishFailed(k) PROVE TypeOK'
    <2>1. [phase |-> "Failed", persisted |-> FALSE] \in Row
      BY DEF Row, Phases, Outcomes
    <2>2. inc' \in [Keys -> Row \cup {NoRow}]
      BY <1>10, <2>1 DEF FinishFailed, TypeOK
    <2>3. finished' \in [Keys -> 0..MaxCount]
      BY <1>10, CountType DEF FinishFailed, TypeOK
    <2>4. /\ faults' \in 0..MaxFaults
          /\ crashes' \in 0..MaxCrashes
          /\ slow' \in 0..MaxSlow
      BY <1>10, FaultType DEF FinishFailed, TypeOK
    <2> QED
      BY <1>10, <2>2, <2>3, <2>4 DEF FinishFailed, Goto, PCs, TypeOK
  <1>11. ASSUME NEW k \in Keys, PatchFailed(k) PROVE TypeOK'
    <2>1. [cache[k] EXCEPT !.phase = "Failed"] \in CR
      BY PatchedType DEF TypeOK
    <2>2. api' \in [Keys -> CR] /\ watch' \in [Keys -> Seq(CR)]
      BY <1>11, <2>1, UpdateType DEF PatchFailed
    <2> QED
      BY <1>11, <2>2, ReleaseType DEF PatchFailed, TypeOK
  <1>12. ASSUME NEW k \in Keys, InsertDiagnosis(k) PROVE TypeOK'
    BY <1>12, CountType DEF InsertDiagnosis, Goto, PCs, TypeOK
  <1>13. ASSUME NEW k \in Keys, PatchStorageError(k) PROVE TypeOK'
    <2>1. [cache[k] EXCEPT !.persisted = FALSE, !.storageErr = TRUE] \in CR
      BY PatchedType DEF TypeOK
    <2>2. api' \in [Keys -> CR] /\ watch' \in [Keys -> Seq(CR)]
      BY <1>13, <2>1, UpdateType DEF PatchStorageError, TypeOK
    <2>3. /\ faults' \in 0..MaxFaults
          /\ crashes' \in 0..MaxCrashes
          /\ slow' \in 0..MaxSlow
      BY <1>13, FaultType DEF PatchStorageError, TypeOK
    <2> QED
      BY <1>13, <2>2, <2>3, ReleaseType DEF PatchStorageError, TypeOK
  <1>14. ASSUME NEW k \in Keys, FinishDone(k) PROVE TypeOK'
    <2>1. [phase |-> loc[k].outcome, persisted |-> TRUE] \in Row
      BY DEF Row, Phases, Locals, TypeOK
    <2>2. inc' \in [Keys -> Row \cup {NoRow}]
      BY <1>14, <2>1 DEF FinishDone, TypeOK
    <2>3. finished' \in [Keys -> 0..MaxCount]
      BY <1>14, CountType DEF FinishDone, TypeOK
    <2>4. /\ faults' \in 0..MaxFaults
          /\ crashes' \in 0..MaxCrashes
          /\ slow' \in 0..MaxSlow
      BY <1>14, FaultType DEF FinishDone, TypeOK
    <2> QED
      BY <1>14, <2>2, <2>3, <2>4 DEF FinishDone, Goto, PCs, TypeOK
  <1>15. ASSUME NEW k \in Keys, PatchDone(k) PROVE TypeOK'
    <2>1. cache[k] \in CR /\ loc[k].outcome \in Outcomes
      BY DEF TypeOK, Locals
    <2>2. [cache[k] EXCEPT !.phase = loc[k].outcome, !.persisted = TRUE,
                           !.storageErr = FALSE] \in CR
      BY <2>1, PatchedType
    <2>3. api' \in [Keys -> CR] /\ watch' \in [Keys -> Seq(CR)]
      BY <1>15, <2>2, UpdateType DEF PatchDone
    <2> QED
      BY <1>15, <2>3, ReleaseType DEF PatchDone, TypeOK
  <1>16. ASSUME NEW k \in Keys, Deliver(k) PROVE TypeOK'
    <2>1. Head(watch[k]) \in CR /\ Tail(watch[k]) \in Seq(CR)
      BY <1>16 DEF Deliver, TypeOK
    <2> QED
      BY <1>16, <2>1 DEF Deliver, TypeOK
  <1>17. ASSUME NEW k \in Keys, TimerFires(k) PROVE TypeOK'
    BY <1>17 DEF TimerFires, TypeOK
  <1>18. ASSUME NEW k \in Keys, Backfill(k) PROVE TypeOK'
    <2>1. [cache[k] EXCEPT !.filled = TRUE] \in CR
      BY PatchedType DEF TypeOK
    <2>2. api' \in [Keys -> CR] /\ watch' \in [Keys -> Seq(CR)]
      BY <1>18, <2>1, UpdateType DEF Backfill
    <2> QED
      BY <1>18, <2>2 DEF Backfill, TypeOK
  <1>19. CASE Resync
    BY <1>19 DEF Resync, TypeOK
  <1>20. CASE Tick
    BY <1>20, TickType
  <1>21. CASE Crash
    BY <1>21, NoLocalsType, ConstantsAssumption DEF Crash, TypeOK, PCs
  <1>22. CASE UNCHANGED vars
    BY <1>22 DEF vars, TypeOK
  <1> QED
    BY <1>1, <1>2, <1>3, <1>4, <1>5, <1>6, <1>7, <1>8, <1>9, <1>10, <1>11,
       <1>12, <1>13, <1>14, <1>15, <1>16, <1>17, <1>18, <1>19, <1>20, <1>21,
       <1>22 DEF Next, Advance

\* Every variable keeps its type in every behaviour of the reconciler.
THEOREM TypeCorrect == Spec => []TypeOK
  BY TypeInit, TypeStep, PTL DEF Spec

-----------------------------------------------------------------------------
(* Layer 2: the cache is at most one version behind *)

\* How a step may touch the CR and its copies.
StatusStep ==
    \/ UNCHANGED <<api, cache, watch>>
    \/ \E k \in Keys, c \in CR : Update(k, c) /\ UNCHANGED cache
    \/ \E k \in Keys : Deliver(k)
    \/ Tick
    \/ Crash

LEMMA StatusSteps ==
  ASSUME TypeOK, [Next]_vars
  PROVE  StatusStep
  <1>1. ASSUME NEW k \in Keys, Begin(k) PROVE StatusStep
    BY <1>1 DEF Begin, StatusStep
  <1>2. ASSUME NEW k \in Keys, Advance(k) PROVE StatusStep
    <2>0. cache[k] \in CR /\ loc[k].age \in 0..StaleAfter
            /\ loc[k].outcome \in Outcomes
      BY DEF TypeOK, Locals
    <2>1. CASE Throttle(k)
      <3>1. [cache[k] EXCEPT !.phase = "Pending"] \in CR
        BY <2>0, PatchedType
      <3> QED
        BY <2>1, <3>1 DEF Throttle, EnvUnchanged, StatusStep
    <2>2. CASE PatchDiagnosing(k)
      <3>1. [cache[k] EXCEPT !.phase = "Diagnosing", !.age = loc[k].age] \in CR
        BY <2>0, PatchedType
      <3> QED
        BY <2>2, <3>1 DEF PatchDiagnosing, EnvUnchanged, StatusStep
    <2>3. CASE PatchFailed(k)
      <3>1. [cache[k] EXCEPT !.phase = "Failed"] \in CR
        BY <2>0, PatchedType
      <3> QED
        BY <2>3, <3>1 DEF PatchFailed, EnvUnchanged, StatusStep
    <2>4. CASE PatchStorageError(k)
      <3>1. [cache[k] EXCEPT !.persisted = FALSE, !.storageErr = TRUE] \in CR
        BY <2>0, PatchedType
      <3> QED
        BY <2>4, <3>1 DEF PatchStorageError, EnvUnchanged, StatusStep
    <2>5. CASE PatchDone(k)
      <3>1. [cache[k] EXCEPT !.phase = loc[k].outcome, !.persisted = TRUE,
                             !.storageErr = FALSE] \in CR
        BY <2>0, PatchedType
      <3> QED
        BY <2>5, <3>1 DEF PatchDone, EnvUnchanged, StatusStep
    <2>6. CASE \/ Mirror(k) \/ Allow(k) \/ Deny(k) \/ UpsertDiagnosing(k)
               \/ \E o \in Outcomes : Run(k, o)
      BY <2>6 DEF Mirror, Allow, Deny, UpsertDiagnosing, Run, EnvUnchanged,
                  StatusStep
    <2>7. CASE FinishFailed(k) \/ InsertDiagnosis(k) \/ FinishDone(k)
      BY <2>7 DEF FinishFailed, InsertDiagnosis, FinishDone, EnvUnchanged,
                  StatusStep
    <2> QED
      BY <1>2, <2>1, <2>2, <2>3, <2>4, <2>5, <2>6, <2>7 DEF Advance
  <1>3. ASSUME NEW k \in Keys, Fails(k) PROVE StatusStep
    BY <1>3 DEF Fails, MirrorFails, ThrottleFails, ErrorReturned, InsertFails,
                EnvUnchanged, StatusStep
  <1>4. ASSUME NEW k \in Keys, Backfill(k) PROVE StatusStep
    <2>1. [cache[k] EXCEPT !.filled = TRUE] \in CR
      BY PatchedType DEF TypeOK
    <2> QED
      BY <1>4, <2>1 DEF Backfill, EnvUnchanged, StatusStep
  <1>5. ASSUME NEW k \in Keys, TimerFires(k) PROVE StatusStep
    BY <1>5 DEF TimerFires, StatusStep
  <1>6. CASE Resync \/ UNCHANGED vars
    BY <1>6 DEF Resync, vars, StatusStep
  <1> QED
    BY <1>1, <1>2, <1>3, <1>4, <1>5, <1>6 DEF Next, StatusStep

LEMMA StalenessStep ==
  ASSUME TypeOK, BoundedStaleness, [Next]_vars
  PROVE  BoundedStaleness'
  <1>1. CASE UNCHANGED <<api, cache, watch>>
    BY <1>1 DEF BoundedStaleness
  <1>2. ASSUME NEW k \in Keys, NEW c \in CR, Update(k, c), UNCHANGED cache
        PROVE  BoundedStaleness'
    BY <1>2 DEF Update, UpToDate, BoundedStaleness, TypeOK
  <1>3. ASSUME NEW k \in Keys, Deliver(k) PROVE BoundedStaleness'
    <2>1. watch[k] = <<api[k]>>
      BY <1>3 DEF Deliver, BoundedStaleness
    <2>2. cache'[k] = api[k] /\ watch'[k] = <<>>
      BY <1>3, <2>1 DEF Deliver, TypeOK
    <2> QED
      BY <1>3, <2>2 DEF Deliver, BoundedStaleness, TypeOK
  <1>4. CASE Tick
    <2> SUFFICES ASSUME NEW k \in Keys
                 PROVE  \/ watch'[k] = <<>> /\ cache'[k] = api'[k]
                        \/ watch'[k] = <<api'[k]>>
      BY DEF BoundedStaleness
    <2>1. /\ api'[k] = Older(api[k])
          /\ cache'[k] = Older(cache[k])
          /\ watch'[k] = [i \in 1..Len(watch[k]) |-> Older(watch[k][i])]
      BY <1>4 DEF Tick
    <2>2. CASE watch[k] = <<>> /\ cache[k] = api[k]
      BY <2>1, <2>2
    <2>3. CASE watch[k] = <<api[k]>>
      BY <2>1, <2>3
    <2> QED
      BY <2>2, <2>3 DEF BoundedStaleness
  <1>5. CASE Crash
    BY <1>5 DEF Crash, BoundedStaleness
  <1> QED
    BY <1>1, <1>2, <1>3, <1>4, <1>5, StatusSteps DEF StatusStep

\* The informer cache is never more than one version behind the API server,
\* for any number of objects and workers and any interleaving of the
\* reconciler's status updates with the event watcher's backfill.
THEOREM CacheBoundedlyStale == Spec => []BoundedStaleness
  <1>1. Init => BoundedStaleness
    BY DEF Init, BoundedStaleness
  <1>2. TypeOK /\ BoundedStaleness /\ [Next]_vars => BoundedStaleness'
    BY StalenessStep
  <1> QED
    BY <1>1, <1>2, TypeCorrect, PTL DEF Spec

-----------------------------------------------------------------------------
(* Layer 3: the order of the writes (ADR-003) *)

LEMMA OrderInit == Init => WriteOrder
  BY DEF Init, WriteOrder, RCAShown, NewCR, NoLocals, NoRow, InRun

\* An accepted status update keeps the order if the RCA it shows is stored
\* and the row it needs exists.
LEMMA UpdateOrder ==
  ASSUME TypeOK, BoundedStaleness, WriteOrder,
         NEW k \in Keys, NEW c \in CR, Update(k, c),
         RCAShown(c) => diags[k] > 0,
         c.phase \notin {"Unset", "Pending"} => inc[k] # NoRow,
         UNCHANGED <<cache, inc, diags>>,
         \A j \in Keys \ {k} : pc'[j] = pc[j] /\ loc'[j] = loc[j],
         RCAShown(loc'[k].snap) => diags[k] > 0,
         pc'[k] \in {"doneUpsert", "donePatch"} => diags[k] > 0,
         pc'[k] \in InRun \ {"upsert"} => inc[k] # NoRow
  PROVE  WriteOrder'
  BY DEF Update, WriteOrder, TypeOK

\* A worker that lets go of its key holds nothing any more.
LEMMA Released ==
  ASSUME TypeOK, NEW k \in Keys, Return(k) \/ Requeue(k)
  PROVE  /\ pc'[k] = "idle"
         /\ ~RCAShown(loc'[k].snap)
         /\ \A j \in Keys \ {k} : pc'[j] = pc[j] /\ loc'[j] = loc[j]
  BY DEF Return, Requeue, Goto, TypeOK, RCAShown, NoLocals, NewCR

LEMMA OrderStep ==
  ASSUME TypeOK, BoundedStaleness, WriteOrder, [Next]_vars
  PROVE  WriteOrder'
  <1> USE DEF EnvUnchanged, store, spent
  <1>1. ASSUME NEW k \in Keys, Begin(k) PROVE WriteOrder'
    <2>1. /\ RCAShown(loc'[k].snap) => diags[k] > 0
          /\ \A j \in Keys \ {k} : loc'[j] = loc[j]
      BY <1>1 DEF Begin, WriteOrder, TypeOK, Locals
    <2>2. /\ pc'[k] \notin InRun
          /\ \A j \in Keys \ {k} : pc'[j] = pc[j]
      BY <1>1 DEF Begin, Goto, InRun, TypeOK
    <2> QED
      BY <1>1, <2>1, <2>2 DEF Begin, WriteOrder, InRun
  <1>2. ASSUME NEW k \in Keys, Mirror(k) PROVE WriteOrder'
    <2>1. loc[k].snap \in CR
      BY DEF TypeOK, Locals
    <2>2. /\ MirrorOf(loc[k].snap) # NoRow
          /\ RCAShown(MirrorOf(loc[k].snap)) => diags[k] > 0
      BY <2>1 DEF WriteOrder, MirrorOf, RCAShown, CR, Phases, Outcomes, NoRow
    <2>3. /\ inc'[k] = MirrorOf(loc[k].snap)
          /\ \A j \in Keys \ {k} : inc'[j] = inc[j]
      BY <1>2 DEF Mirror, TypeOK
    <2> QED
      BY <1>2, <2>2, <2>3, Released DEF Mirror, WriteOrder, InRun
  <1>3. ASSUME NEW k \in Keys, Fails(k) PROVE WriteOrder'
    <2>1. CASE InsertFails(k)
      BY <1>3, <2>1 DEF InsertFails, Goto, WriteOrder, InRun, TypeOK
    <2>2. CASE MirrorFails(k) \/ ThrottleFails(k) \/ ErrorReturned(k)
      BY <2>2, Released DEF MirrorFails, ThrottleFails, ErrorReturned,
                            WriteOrder, InRun
    <2> QED
      BY <1>3, <2>1, <2>2 DEF Fails
  <1>4. ASSUME NEW k \in Keys, Allow(k) PROVE WriteOrder'
    <2>1. /\ loc'[k].snap = loc[k].snap
          /\ \A j \in Keys \ {k} : loc'[j] = loc[j]
      BY <1>4 DEF Allow, TypeOK, Locals
    <2> QED
      BY <1>4, <2>1 DEF Allow, Goto, WriteOrder, InRun, TypeOK
  <1>5. ASSUME NEW k \in Keys, Deny(k) PROVE WriteOrder'
    BY <1>5 DEF Deny, Goto, WriteOrder, InRun, TypeOK
  <1>6. ASSUME NEW k \in Keys, Throttle(k) PROVE WriteOrder'
    <2> DEFINE c == [cache[k] EXCEPT !.phase = "Pending"]
    <2>1. c \in CR
      BY PatchedType DEF TypeOK
    <2>2. RCAShown(c) => diags[k] > 0
      <3>1. RCAShown(c) => RCAShown(cache[k])
        BY DEF RCAShown, TypeOK, CR
      <3> QED
        BY <3>1 DEF WriteOrder
    <2>3. c.phase = "Pending"
      BY DEF TypeOK, CR
    <2> HIDE DEF c
    <2>4. Update(k, c)
      BY <1>6 DEF Throttle, c
    <2> QED
      BY <1>6, <2>1, <2>2, <2>3, <2>4, Released, UpdateOrder
         DEF Throttle, InRun
  <1>7. ASSUME NEW k \in Keys, UpsertDiagnosing(k) PROVE WriteOrder'
    BY <1>7 DEF UpsertDiagnosing, Goto, WriteOrder, RCAShown, NoRow, InRun,
                TypeOK
  <1>8. ASSUME NEW k \in Keys, PatchDiagnosing(k) PROVE WriteOrder'
    <2> DEFINE c == [cache[k] EXCEPT !.phase = "Diagnosing", !.age = loc[k].age]
    <2>1. c \in CR
      BY PatchedType DEF TypeOK, Locals
    <2>2. RCAShown(c) => diags[k] > 0
      <3>1. RCAShown(c) => RCAShown(cache[k])
        BY DEF RCAShown, TypeOK, CR
      <3> QED
        BY <3>1 DEF WriteOrder
    <2>3. inc[k] # NoRow
      BY <1>8 DEF PatchDiagnosing, WriteOrder, InRun
    <2> HIDE DEF c
    <2>4. Update(k, c)
      BY <1>8 DEF PatchDiagnosing, c
    <2>5. /\ pc'[k] = "run"
          /\ \A j \in Keys \ {k} : pc'[j] = pc[j]
      BY <1>8 DEF PatchDiagnosing, Goto, TypeOK
    <2>6. RCAShown(loc'[k].snap) => diags[k] > 0
      BY <1>8 DEF PatchDiagnosing, WriteOrder
    <2> QED
      BY <1>8, <2>1, <2>2, <2>3, <2>4, <2>5, <2>6, UpdateOrder
         DEF PatchDiagnosing
  <1>9. ASSUME NEW k \in Keys, NEW o \in Outcomes, Run(k, o) PROVE WriteOrder'
    <2>1. /\ loc'[k].snap = loc[k].snap
          /\ \A j \in Keys \ {k} : loc'[j] = loc[j]
      BY <1>9 DEF Run, TypeOK, Locals
    <2> QED
      BY <1>9, <2>1 DEF Run, Goto, WriteOrder, InRun, TypeOK
  <1>10. ASSUME NEW k \in Keys, FinishFailed(k) PROVE WriteOrder'
    BY <1>10 DEF FinishFailed, Goto, WriteOrder, RCAShown, NoRow, InRun, TypeOK
  <1>11. ASSUME NEW k \in Keys, PatchFailed(k) PROVE WriteOrder'
    <2> DEFINE c == [cache[k] EXCEPT !.phase = "Failed"]
    <2>1. c \in CR
      BY PatchedType DEF TypeOK
    <2>2. RCAShown(c) => diags[k] > 0
      <3>1. RCAShown(c) => RCAShown(cache[k])
        BY DEF RCAShown, TypeOK, CR
      <3> QED
        BY <3>1 DEF WriteOrder
    <2>3. inc[k] # NoRow
      BY <1>11 DEF PatchFailed, WriteOrder, InRun
    <2> HIDE DEF c
    <2>4. Update(k, c)
      BY <1>11 DEF PatchFailed, c
    <2> QED
      BY <1>11, <2>1, <2>2, <2>3, <2>4, Released, UpdateOrder
         DEF PatchFailed, InRun
  <1>12. ASSUME NEW k \in Keys, InsertDiagnosis(k) PROVE WriteOrder'
    <2>1. /\ diags'[k] > 0
          /\ \A j \in Keys \ {k} : diags'[j] = diags[j]
      BY <1>12, ConstantsAssumption DEF InsertDiagnosis, PlusOne, TypeOK
    <2> QED
      BY <1>12, <2>1 DEF InsertDiagnosis, Goto, WriteOrder, InRun, TypeOK
  <1>13. ASSUME NEW k \in Keys, PatchStorageError(k) PROVE WriteOrder'
    <2> DEFINE c == [cache[k] EXCEPT !.persisted = FALSE, !.storageErr = TRUE]
    <2>1. CASE UNCHANGED <<api, watch>>
      BY <1>13, <2>1, Released DEF PatchStorageError, WriteOrder, InRun
    <2>2. CASE Update(k, c)
      <3>1. c \in CR
        BY PatchedType DEF TypeOK
      <3>2. RCAShown(c) => diags[k] > 0
        <4>1. RCAShown(c) => RCAShown(cache[k])
          BY DEF RCAShown, TypeOK, CR
        <4> QED
          BY <4>1 DEF WriteOrder
      <3>3. inc[k] # NoRow
        BY <1>13 DEF PatchStorageError, WriteOrder, InRun
      <3> HIDE DEF c
      <3> QED
        BY <1>13, <2>2, <3>1, <3>2, <3>3, Released, UpdateOrder
           DEF PatchStorageError, InRun
    <2> QED
      BY <1>13, <2>1, <2>2 DEF PatchStorageError
  <1>14. ASSUME NEW k \in Keys, FinishDone(k) PROVE WriteOrder'
    <2>1. diags[k] > 0
      BY <1>14 DEF FinishDone, WriteOrder
    <2>2. [phase |-> loc[k].outcome, persisted |-> TRUE] # NoRow
      BY DEF NoRow
    <2> QED
      BY <1>14, <2>1, <2>2 DEF FinishDone, Goto, WriteOrder, InRun, TypeOK
  <1>15. ASSUME NEW k \in Keys, PatchDone(k) PROVE WriteOrder'
    <2> DEFINE c == [cache[k] EXCEPT !.phase = loc[k].outcome,
                                     !.persisted = TRUE, !.storageErr = FALSE]
    <2>1. c \in CR
      BY PatchedType DEF TypeOK, Locals
    <2>2. diags[k] > 0
      BY <1>15 DEF PatchDone, WriteOrder
    <2>3. inc[k] # NoRow
      BY <1>15 DEF PatchDone, WriteOrder, InRun
    <2> HIDE DEF c
    <2>4. Update(k, c)
      BY <1>15 DEF PatchDone, c
    <2> QED
      BY <1>15, <2>1, <2>2, <2>3, <2>4, Released, UpdateOrder
         DEF PatchDone, InRun
  <1>16. ASSUME NEW k \in Keys, Deliver(k) PROVE WriteOrder'
    <2>1. cache'[k] = api[k] /\ \A j \in Keys \ {k} : cache'[j] = cache[j]
      BY <1>16 DEF Deliver, BoundedStaleness, TypeOK
    <2> QED
      BY <1>16, <2>1 DEF Deliver, WriteOrder
  <1>17. ASSUME NEW k \in Keys, TimerFires(k) PROVE WriteOrder'
    BY <1>17 DEF TimerFires, WriteOrder
  <1>18. ASSUME NEW k \in Keys, Backfill(k) PROVE WriteOrder'
    <2> DEFINE c == [cache[k] EXCEPT !.filled = TRUE]
    <2>1. c \in CR
      BY PatchedType DEF TypeOK
    <2>2. RCAShown(c) => diags[k] > 0
      <3>1. RCAShown(c) => RCAShown(cache[k])
        BY DEF RCAShown, TypeOK, CR
      <3> QED
        BY <3>1 DEF WriteOrder
    <2>3. c.phase = api[k].phase
      <3>1. cache[k] = api[k]
        BY <1>18 DEF Backfill, Update, UpToDate, BoundedStaleness
      <3> QED
        BY <3>1 DEF TypeOK, CR
    <2> HIDE DEF c
    <2>4. Update(k, c)
      BY <1>18 DEF Backfill, c
    <2> QED
      BY <1>18, <2>1, <2>2, <2>3, <2>4, UpdateOrder DEF Backfill, WriteOrder
  <1>19. CASE Resync
    BY <1>19 DEF Resync, WriteOrder
  <1>20. CASE Tick
    <2>1. \A k \in Keys : /\ api[k] \in CR /\ api'[k] = Older(api[k])
                          /\ cache[k] \in CR /\ cache'[k] = Older(cache[k])
      BY <1>20 DEF Tick, TypeOK
    <2>2. \A k \in Keys : /\ RCAShown(api'[k]) <=> RCAShown(api[k])
                          /\ RCAShown(cache'[k]) <=> RCAShown(cache[k])
                          /\ api'[k].phase = api[k].phase
      BY <2>1, OlderKeeps DEF RCAShown
    <2>3. ASSUME NEW k \in Keys PROVE loc'[k].snap = loc[k].snap
      <3>1. /\ loc[k] \in Locals
            /\ \/ loc'[k] = loc[k]
               \/ loc'[k] = [loc[k] EXCEPT !.age =
                                IF @ < StaleAfter THEN @ + 1 ELSE @]
        BY <1>20 DEF Tick, TypeOK
      <3> QED
        BY <3>1 DEF Locals
    <2> QED
      BY <1>20, <2>2, <2>3 DEF Tick, WriteOrder
  <1>21. CASE Crash
    <2>1. ~RCAShown(NoLocals.snap)
      BY DEF RCAShown, NoLocals, NewCR
    <2> QED
      BY <1>21, <2>1 DEF Crash, WriteOrder, InRun
  <1>22. CASE UNCHANGED vars
    BY <1>22 DEF vars, WriteOrder
  <1> QED
    BY <1>1, <1>2, <1>3, <1>4, <1>5, <1>6, <1>7, <1>8, <1>9, <1>10, <1>11,
       <1>12, <1>13, <1>14, <1>15, <1>16, <1>17, <1>18, <1>19, <1>20, <1>21,
       <1>22 DEF Next, Advance

\* ADR-003 for every instance: an outcome with an RCA is shown by the CR, its
\* cached copy or the incident row only after the RCA row was written, and a
\* CR past Pending has its incident row, whatever fails or crashes.
THEOREM WritesAreOrdered == Spec => []PersistBeforeTerminal
  <1>1. TypeOK /\ BoundedStaleness /\ WriteOrder /\ [Next]_vars => WriteOrder'
    BY OrderStep
  <1>2. WriteOrder => PersistBeforeTerminal
    BY DEF WriteOrder, RCAShown, PersistBeforeTerminal
  <1> QED
    BY <1>1, <1>2, OrderInit, TypeCorrect, CacheBoundedlyStale, PTL DEF Spec

-----------------------------------------------------------------------------
(* The refinement of Diagnosis.  Each accepted update of the CR is one     *)
(* step of Diagnosis or changes nothing it shows; for the outcomes this    *)
(* rests on RunShowsDiagnosing and on the order of the writes.             *)

\* The steps of a run after its first patch.
PastStart == InRun \ {"upsert", "start"}

\* While a worker is past that patch nobody else moves the CR's phase.
RunShowsDiagnosing ==
    \A k \in Keys : pc[k] \in PastStart => api[k].phase = "Diagnosing"

\* What a step may do to the phases, as seen from the workers.
PhasesKept == \A k \in Keys : api'[k].phase = api[k].phase

-----------------------------------------------------------------------------
(* How the phase moves *)

\* An accepted update moves one phase, to that of the version written.
LEMMA UpdatePhase ==
  ASSUME TypeOK, NEW k \in Keys, NEW c \in CR, Update(k, c)
  PROVE  \A j \in Keys :
           api'[j].phase = IF j = k THEN c.phase ELSE api[j].phase
  BY DEF Update, TypeOK

\* One that is built to keep the phase keeps it: the copy is the latest.
LEMMA KeepingUpdate ==
  ASSUME TypeOK, BoundedStaleness, NEW k \in Keys, NEW c \in CR,
         Update(k, c), c.phase = cache[k].phase
  PROVE  PhasesKept
  <1>1. cache[k] = api[k]
    BY DEF Update, UpToDate, BoundedStaleness
  <1> QED
    BY <1>1, UpdatePhase DEF PhasesKept

\* What a patch of one field, or of none but others, makes of the phase.
LEMMA PatchedPhase ==
  ASSUME NEW c \in CR
  PROVE  /\ [c EXCEPT !.phase = "Pending"].phase = "Pending"
         /\ [c EXCEPT !.phase = "Failed"].phase = "Failed"
         /\ [c EXCEPT !.persisted = FALSE, !.storageErr = TRUE].phase = c.phase
         /\ [c EXCEPT !.filled = TRUE].phase = c.phase
  BY DEF CR

\* Every step keeps the phases, or is one of the four patches that set one.
LEMMA PhaseSteps ==
  ASSUME TypeOK, BoundedStaleness, [Next]_vars
  PROVE  \/ PhasesKept
         \/ \E k \in Keys : \/ Throttle(k)
                            \/ PatchDiagnosing(k)
                            \/ PatchFailed(k)
                            \/ PatchDone(k)
  <1> USE DEF EnvUnchanged
  <1>1. ASSUME api' = api PROVE PhasesKept
    BY <1>1 DEF PhasesKept
  <1>2. ASSUME NEW k \in Keys, PatchStorageError(k) PROVE PhasesKept
    <2> DEFINE c == [cache[k] EXCEPT !.persisted = FALSE, !.storageErr = TRUE]
    <2>1. c \in CR /\ c.phase = cache[k].phase
      BY PatchedType, PatchedPhase DEF TypeOK
    <2>2. api' = api \/ Update(k, c)
      BY <1>2 DEF PatchStorageError
    <2> QED
      BY <1>1, <2>1, <2>2, KeepingUpdate
  <1>3. ASSUME NEW k \in Keys, Backfill(k) PROVE PhasesKept
    <2> DEFINE c == [cache[k] EXCEPT !.filled = TRUE]
    <2>1. c \in CR /\ c.phase = cache[k].phase
      BY PatchedType, PatchedPhase DEF TypeOK
    <2>2. Update(k, c)
      BY <1>3 DEF Backfill
    <2> QED
      BY <2>1, <2>2, KeepingUpdate
  <1>4. CASE Tick
    BY <1>4, OlderKeeps DEF Tick, TypeOK, PhasesKept
  <1>5. ASSUME NEW k \in Keys,
               \/ Begin(k) \/ Mirror(k) \/ Allow(k) \/ Deny(k)
               \/ UpsertDiagnosing(k) \/ \E o \in Outcomes : Run(k, o)
               \/ FinishFailed(k) \/ InsertDiagnosis(k) \/ FinishDone(k)
               \/ Fails(k) \/ Deliver(k) \/ TimerFires(k)
        PROVE  PhasesKept
    BY <1>1, <1>5
       DEF Begin, Mirror, Allow, Deny, UpsertDiagnosing, Run, FinishFailed,
           InsertDiagnosis, FinishDone, Fails, MirrorFails, ThrottleFails,
           ErrorReturned, InsertFails, Deliver, TimerFires
  <1>6. CASE Resync \/ Crash \/ UNCHANGED vars
    BY <1>1, <1>6 DEF Resync, Crash, vars
  <1> QED
    BY <1>2, <1>3, <1>4, <1>5, <1>6 DEF Next, Advance

-----------------------------------------------------------------------------
(* The invariant *)

\* A worker gets past its start only by PatchDiagnosing or from there.
LEMMA RunStep ==
  ASSUME TypeOK, BoundedStaleness, RunShowsDiagnosing, [Next]_vars
  PROVE  RunShowsDiagnosing'
  <1> USE DEF EnvUnchanged
  <1>1. ASSUME NEW k \in Keys, PatchDiagnosing(k) PROVE RunShowsDiagnosing'
    <2> DEFINE c == [cache[k] EXCEPT !.phase = "Diagnosing", !.age = loc[k].age]
    <2>0. cache[k] \in CR /\ loc[k].age \in 0..StaleAfter
      BY DEF TypeOK, Locals
    <2>1. c \in CR /\ c.phase = "Diagnosing"
      <3>1. c \in CR
        BY <2>0, PatchedType
      <3>2. c.phase = "Diagnosing"
        BY <2>0 DEF CR
      <3> QED
        BY <3>1, <3>2
    <2>2. Update(k, c)
      BY <1>1 DEF PatchDiagnosing
    <2>3. \A j \in Keys \ {k} : pc'[j] = pc[j]
      BY <1>1 DEF PatchDiagnosing, Goto, TypeOK
    <2> HIDE DEF c
    <2> QED
      BY <2>1, <2>2, <2>3, UpdatePhase DEF RunShowsDiagnosing
  <1>2. ASSUME NEW k \in Keys, NEW c \in CR, Update(k, c),
               Return(k) \/ Requeue(k)
        PROVE  RunShowsDiagnosing'
    <2>1. pc'[k] \notin PastStart /\ \A j \in Keys \ {k} : pc'[j] = pc[j]
      BY <1>2, Released DEF PastStart, InRun
    <2> QED
      BY <1>2, <2>1, UpdatePhase DEF RunShowsDiagnosing
  <1>3. ASSUME NEW k \in Keys, Throttle(k) \/ PatchFailed(k) \/ PatchDone(k)
        PROVE  RunShowsDiagnosing'
    <2>1. cache[k] \in CR /\ loc[k].outcome \in Outcomes
      BY DEF TypeOK, Locals
    <2>2. \E c \in CR : Update(k, c)
      BY <1>3, <2>1, PatchedType DEF Throttle, PatchFailed, PatchDone
    <2> QED
      BY <1>2, <1>3, <2>2 DEF Throttle, PatchFailed, PatchDone
  <1>4. ASSUME PhasesKept,
               \A k \in Keys : pc'[k] \in PastStart => pc[k] \in PastStart
        PROVE  RunShowsDiagnosing'
    BY <1>4 DEF PhasesKept, RunShowsDiagnosing
  <1>5. \/ \E k \in Keys : \/ Throttle(k)
                           \/ PatchDiagnosing(k)
                           \/ PatchFailed(k)
                           \/ PatchDone(k)
        \/ \A k \in Keys : pc'[k] \in PastStart => pc[k] \in PastStart
    <2>1. ASSUME UNCHANGED pc
          PROVE  \A k \in Keys : pc'[k] \in PastStart => pc[k] \in PastStart
      BY <2>1
    <2>2. ASSUME NEW k \in Keys, NEW l \in PCs, Goto(k, l),
                 l \in PastStart => pc[k] \in PastStart
          PROVE  \A j \in Keys : pc'[j] \in PastStart => pc[j] \in PastStart
      BY <2>2 DEF Goto, TypeOK
    <2>3. ASSUME NEW k \in Keys, Begin(k)
          PROVE  \A j \in Keys : pc'[j] \in PastStart => pc[j] \in PastStart
      BY <2>1, <2>2, <2>3 DEF Begin, PCs, PastStart, InRun
    <2>4. ASSUME NEW k \in Keys,
                 Mirror(k) \/ PatchStorageError(k) \/ MirrorFails(k)
                   \/ ThrottleFails(k) \/ ErrorReturned(k)
          PROVE  \A j \in Keys : pc'[j] \in PastStart => pc[j] \in PastStart
      BY <2>2, <2>4 DEF Mirror, PatchStorageError, MirrorFails, ThrottleFails,
                        ErrorReturned, Return, Requeue, PCs, PastStart, InRun
    <2>5. ASSUME NEW k \in Keys,
                 \/ Allow(k) \/ Deny(k) \/ UpsertDiagnosing(k)
                 \/ \E o \in Outcomes : Run(k, o)
                 \/ FinishFailed(k) \/ InsertDiagnosis(k)
                 \/ InsertFails(k) \/ FinishDone(k)
          PROVE  \A j \in Keys : pc'[j] \in PastStart => pc[j] \in PastStart
      BY <2>2, <2>5 DEF Allow, Deny, UpsertDiagnosing, Run, FinishFailed,
                        InsertDiagnosis, InsertFails, FinishDone, PCs,
                        PastStart, InRun
    <2>6. ASSUME NEW k \in Keys, Deliver(k) \/ TimerFires(k) \/ Backfill(k)
          PROVE  \A j \in Keys : pc'[j] \in PastStart => pc[j] \in PastStart
      BY <2>1, <2>6 DEF Deliver, TimerFires, Backfill
    <2>7. CASE Resync \/ Tick \/ UNCHANGED vars
      BY <2>1, <2>7 DEF Resync, Tick, vars
    <2>8. CASE Crash
      BY <2>8 DEF Crash, PastStart, InRun
    <2> QED
      BY <2>3, <2>4, <2>5, <2>6, <2>7, <2>8 DEF Next, Advance, Fails
  <1> QED
    BY <1>1, <1>3, <1>4, <1>5, PhaseSteps

-----------------------------------------------------------------------------
(* The refinement *)

\* A step that keeps the phases and the stored rows is a stutter.
LEMMA Stutters ==
  ASSUME PhasesKept, UNCHANGED diags
  PROVE  UNCHANGED <<[k \in Keys |-> api[k].phase],
                     [k \in Keys |-> diags[k] > 0]>>
  BY DEF PhasesKept

\* A step that moves one phase, as an abstract step sees it.
LEMMA Moves ==
  ASSUME TypeOK, NEW k \in Keys, NEW c \in CR, Update(k, c)
  PROVE  [j \in Keys |-> api'[j].phase] =
           [[j \in Keys |-> api[j].phase] EXCEPT ![k] = c.phase]
  BY UpdatePhase

\* Every step of Reconciler is a step of Diagnosis or a stutter.
LEMMA LifeStep ==
  ASSUME TypeOK, BoundedStaleness, WriteOrder, RunShowsDiagnosing, [Next]_vars
  PROVE  [Life!Next]_<<[k \in Keys |-> api[k].phase],
                       [k \in Keys |-> diags[k] > 0]>>
  <1> USE DEF EnvUnchanged, store
  <1>0. \A k \in Keys : /\ cache[k] \in CR
                        /\ loc[k].age \in 0..StaleAfter
                        /\ loc[k].outcome \in Outcomes
    BY DEF TypeOK, Locals
  <1>1. ASSUME NEW k \in Keys, Throttle(k) PROVE Life!Postpone(k)
    <2>1. [j \in Keys |-> api'[j].phase] =
            [[j \in Keys |-> api[j].phase] EXCEPT ![k] = "Pending"]
      <3> DEFINE c == [cache[k] EXCEPT !.phase = "Pending"]
      <3>1. c \in CR /\ c.phase = "Pending"
        BY <1>0, PatchedType, PatchedPhase
      <3>2. Update(k, c)
        BY <1>1 DEF Throttle
      <3> HIDE DEF c
      <3>3. [j \in Keys |-> api'[j].phase] =
              [[j \in Keys |-> api[j].phase] EXCEPT ![k] = c.phase]
        BY <3>1, <3>2, Moves
      <3> QED
        BY <3>1, <3>3
    <2> QED
      BY <1>1, <2>1 DEF Throttle, Life!Postpone
  <1>2. ASSUME NEW k \in Keys, PatchDiagnosing(k) PROVE Life!Start(k)
    <2>1. [j \in Keys |-> api'[j].phase] =
            [[j \in Keys |-> api[j].phase] EXCEPT ![k] = "Diagnosing"]
      <3> DEFINE c == [cache[k] EXCEPT !.phase = "Diagnosing",
                                  !.age = loc[k].age]
      <3>1. c \in CR /\ c.phase = "Diagnosing"
        <4>1. c \in CR
          BY <1>0, PatchedType
        <4>2. c.phase = "Diagnosing"
          BY <1>0 DEF CR
        <4> QED
          BY <4>1, <4>2
      <3>2. Update(k, c)
        BY <1>2 DEF PatchDiagnosing
      <3> HIDE DEF c
      <3>3. [j \in Keys |-> api'[j].phase] =
              [[j \in Keys |-> api[j].phase] EXCEPT ![k] = c.phase]
        BY <3>1, <3>2, Moves
      <3> QED
        BY <3>1, <3>3
    <2> QED
      BY <1>2, <2>1 DEF PatchDiagnosing, Life!Start
  <1>3. ASSUME NEW k \in Keys, PatchFailed(k) PROVE Life!GiveUp(k)
    <2>1. [j \in Keys |-> api'[j].phase] =
            [[j \in Keys |-> api[j].phase] EXCEPT ![k] = "Failed"]
      <3> DEFINE c == [cache[k] EXCEPT !.phase = "Failed"]
      <3>1. c \in CR /\ c.phase = "Failed"
        BY <1>0, PatchedType, PatchedPhase
      <3>2. Update(k, c)
        BY <1>3 DEF PatchFailed
      <3> HIDE DEF c
      <3>3. [j \in Keys |-> api'[j].phase] =
              [[j \in Keys |-> api[j].phase] EXCEPT ![k] = c.phase]
        BY <3>1, <3>2, Moves
      <3> QED
        BY <3>1, <3>3
    <2>2. api[k].phase = "Diagnosing"
      BY <1>3 DEF PatchFailed, RunShowsDiagnosing, PastStart, InRun
    <2> QED
      BY <1>3, <2>1, <2>2 DEF PatchFailed, Life!GiveUp
  <1>4. ASSUME NEW k \in Keys, PatchDone(k)
        PROVE  Life!Finish(k) \/ Life!GiveUp(k)
    <2>1. [j \in Keys |-> api'[j].phase] =
            [[j \in Keys |-> api[j].phase] EXCEPT ![k] = loc[k].outcome]
      <3> DEFINE c == [cache[k] EXCEPT !.phase = loc[k].outcome,
                                  !.persisted = TRUE, !.storageErr = FALSE]
      <3>1. c \in CR /\ c.phase = loc[k].outcome
        <4>1. c \in CR
          BY <1>0, PatchedType
        <4>2. c.phase = loc[k].outcome
          BY <1>0 DEF CR
        <4> QED
          BY <4>1, <4>2
      <3>2. Update(k, c)
        BY <1>4 DEF PatchDone
      <3> HIDE DEF c
      <3>3. [j \in Keys |-> api'[j].phase] =
              [[j \in Keys |-> api[j].phase] EXCEPT ![k] = c.phase]
        BY <3>1, <3>2, Moves
      <3> QED
        BY <3>1, <3>3
    <2>2. api[k].phase = "Diagnosing" /\ diags[k] > 0
      BY <1>4 DEF PatchDone, RunShowsDiagnosing, WriteOrder, PastStart, InRun
    <2> QED
      BY <1>0, <1>4, <2>1, <2>2
         DEF PatchDone, Life!Finish, Life!GiveUp, Outcomes
  <1>5. ASSUME NEW k \in Keys, InsertDiagnosis(k) PROVE Life!Store(k)
    <2>1. api[k].phase = "Diagnosing" /\ UNCHANGED api
      BY <1>5 DEF InsertDiagnosis, RunShowsDiagnosing, PastStart, InRun
    <2>2. /\ (diags'[k] > 0) = TRUE
          /\ \A j \in Keys \ {k} : diags'[j] = diags[j]
      BY <1>5, ConstantsAssumption DEF InsertDiagnosis, PlusOne, TypeOK
    <2>3. [j \in Keys |-> diags'[j] > 0] =
            [[j \in Keys |-> diags[j] > 0] EXCEPT ![k] = TRUE]
      <3> DEFINE Had(j) == diags[j] > 0
      <3>1. ASSUME NEW j \in Keys
            PROVE  (diags'[j] > 0) = IF j = k THEN TRUE ELSE Had(j)
        <4>1. CASE j = k
          BY <2>2, <4>1, Zenon
        <4>2. CASE j # k
          BY <2>2, <4>2, Zenon
        <4> QED
          BY <4>1, <4>2, Zenon
      <3> HIDE DEF Had
      <3>2. [[j \in Keys |-> Had(j)] EXCEPT ![k] = TRUE] =
              [j \in Keys |-> IF j = k THEN TRUE ELSE Had(j)]
        BY Zenon
      <3>3. [j \in Keys |-> diags'[j] > 0] =
              [j \in Keys |-> IF j = k THEN TRUE ELSE Had(j)]
        BY <3>1, Zenon
      <3> QED
        BY <3>2, <3>3, Zenon DEF Had
    <2> QED
      BY <2>1, <2>3 DEF Life!Store
  <1>6. \/ UNCHANGED diags
        \/ \E k \in Keys : InsertDiagnosis(k)
    BY DEF Next, vars, Begin, Advance, Mirror, Allow, Deny, Throttle,
           UpsertDiagnosing, PatchDiagnosing, Run, FinishFailed, PatchFailed,
           PatchStorageError, FinishDone, PatchDone, Fails, MirrorFails,
           ThrottleFails, ErrorReturned, InsertFails, Deliver, TimerFires,
           Backfill, Resync, Tick, Crash
  <1>7. CASE \E k \in Keys : \/ Throttle(k) \/ PatchDiagnosing(k)
                             \/ PatchFailed(k) \/ PatchDone(k)
                             \/ InsertDiagnosis(k)
    BY <1>1, <1>2, <1>3, <1>4, <1>5, <1>7 DEF Life!Next, Life!Step
  <1>8. CASE PhasesKept /\ UNCHANGED diags
    BY <1>8, Stutters
  <1> QED
    BY <1>6, <1>7, <1>8, PhaseSteps

\* Reconciler implements Diagnosis: for any number of CRs and workers, any
\* staleness of the cache and any failures and crashes, the CR's phase and
\* its stored RCAs move as a diagnosis does.
THEOREM ImplementsDiagnosis == Spec => LooksLikeADiagnosis
  <1>1. Init => Life!Init
    <2> SUFFICES ASSUME Init PROVE Life!Init
      OBVIOUS
    <2>1. \A k \in Keys : api[k].phase = "Unset"
      BY DEF Init, NewCR
    <2>2. \A k \in Keys : (diags[k] > 0) = FALSE
      BY DEF Init
    <2> QED
      BY <2>1, <2>2 DEF Life!Init
  <1>2. Init => RunShowsDiagnosing
    BY DEF Init, RunShowsDiagnosing, PastStart, InRun
  <1>3. TypeOK /\ BoundedStaleness /\ RunShowsDiagnosing /\ [Next]_vars
          => RunShowsDiagnosing'
    BY RunStep
  <1>4. TypeOK /\ BoundedStaleness /\ WriteOrder /\ [Next]_vars => WriteOrder'
    BY OrderStep
  <1>5. TypeOK /\ BoundedStaleness /\ WriteOrder /\ RunShowsDiagnosing
          /\ [Next]_vars
          => [Life!Next]_<<[k \in Keys |-> api[k].phase],
                           [k \in Keys |-> diags[k] > 0]>>
    BY LifeStep
  <1> QED
    BY <1>1, <1>2, <1>3, <1>4, <1>5, OrderInit, TypeCorrect,
       CacheBoundedlyStale, PTL DEF Spec, LooksLikeADiagnosis, Life!Spec

=============================================================================
